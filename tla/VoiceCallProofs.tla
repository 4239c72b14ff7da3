---------------------------- MODULE VoiceCallProofs ----------------------------
(***************************************************************************)
(* Proofs about VoiceCall, for any number of calls, faults and requests    *)
(* under way.                                                              *)
(***************************************************************************)
EXTENDS VoiceCall, TLAPS

Connects(r) == r.op \in {"start", "answer"} /\ r.st = "ok"

\* What a request under way says of the call it is for: it exists; a turn that
\* says the call is over and a finished end are right; a call is connected once.
RequestOK(r) ==
    /\ r.op \notin {"start", "end"} => r.id # NoCall
    /\ r.id # NoCall => server[r.id] # "none"
    /\ r.op = "turn" /\ r.st \in {"over", "moved", "tail"} => server[r.id] \in Over
    /\ r.op = "end" /\ r.st = "ok" => r.id = NoCall \/ server[r.id] \in Over \/ r.id \in excused
    /\ r.op = "start" => r.id \notin rang
    /\ r.op = "answer" => r.id \in rang
    /\ r.op = "bye" /\ Here => r.id \in rang
    /\ Connects(r) => r.id # NoCall /\ r.id # page.call /\ server[r.id] # "RINGING"

RequestInv == \A r \in requests : RequestOK(r)

\* The page shows a state of a call if and only if it has one, and that call
\* was started or answered.
PageInv ==
    /\ page.call = NoCall => page.shows = "none"
    /\ Here /\ page.shows = "none" => page.call = NoCall
    /\ page.call # NoCall => server[page.call] \notin {"none", "RINGING"}

RangInv == \A c \in rang : server[c] # "none"

TalkInv == \A c \in Calls : talk[c] # "none" => c \in agents

CallInv == TypeOK /\ RequestInv /\ PageInv /\ RangInv /\ TalkInv /\ ActiveIsAccountedFor

\* A call started with the turn-based provider is ACTIVE until the page has its
\* reply: there is no other request for it.
StartedInv ==
    \A r \in requests : Here /\ r.op = "start" /\ Connects(r) /\ r.id \notin agents =>
        /\ server[r.id] = "ACTIVE"
        /\ \A q \in requests : q.id = r.id => q = r

ShownInv == StartedInv /\ ShownActiveIsActive

\* What disables the controls is under way.
CauseInv ==
    Here /\ ~ astray =>
        /\ page.state = "thinking" =>
               \E r \in requests : r.op = "turn" \/ (r.op = "stt" /\ r.st # "recording")
        /\ page.state = "connecting" =>
               \/ page.call # NoCall /\ talk[page.call] = "opening"
               \/ \E r \in requests : r.op \in {"start", "answer"}

ConsoleInv == NoConsoleWithoutCall /\ CauseInv

VoiceInv == CallInv /\ ShownInv /\ ConsoleInv

--------------------------------------------------------------------------------
(* What the helpers of the page do. *)

LEMMA SetPage ==
    ASSUME TypeOK, NEW p \in Page, setPage(p)
    PROVE  page' \in Page /\ page' = IF Here THEN p ELSE page
BY DEF setPage, TypeOK

LEMMA SetState ==
    ASSUME TypeOK, NEW s \in AgentState, setState(s)
    PROVE  /\ page' \in Page
           /\ page'.where = page.where /\ page'.call = page.call /\ page'.shows = page.shows
           /\ page'.live = page.live /\ page'.answered = page.answered
           /\ page'.state = IF Here THEN s ELSE page.state
BY DEF setState, setPage, TypeOK, Page

LEMMA NewRequest ==
    ASSUME TypeOK, NEW op \in Operations, NEW id \in Calls \cup {NoCall}
    PROVE  /\ New(op, id) \in Request /\ New(op, id).op = op /\ New(op, id).id = id
           /\ New(op, id).st \in {"sent", "failed"} /\ (Here => New(op, id).st = "sent")
BY DEF New, Request, Stages, Here

LEMMA ToRequest ==
    ASSUME TypeOK, NEW r \in requests, NEW st \in Stages, To(r, st)
    PROVE  \E q \in Request : /\ q.op = r.op /\ q.id = r.id /\ q.st = st
                              /\ requests' = (requests \ {r}) \cup {q}
<1>1. r \in Request
    BY DEF TypeOK
<1>2. [r EXCEPT !.st = st] \in Request
      /\ [r EXCEPT !.st = st].op = r.op /\ [r EXCEPT !.st = st].id = r.id /\ [r EXCEPT !.st = st].st = st
    BY <1>1 DEF Request
<1> QED
    BY <1>2 DEF To

\* The initial state satisfies the invariant.
LEMMA InitVoice == Init => VoiceInv
<1> SUFFICES ASSUME Init PROVE VoiceInv
    OBVIOUS
<1>1. TypeOK
  <2>1. page \in Page
      BY DEF Init, Page, Places, AgentState, NoCall
  <2>2. server \in [Calls -> CallState] /\ talk \in [Calls -> Session]
      BY DEF Init, CallState, Session
  <2>3. faults \in 0 .. MaxFaults
      BY VoiceCallAssumption DEF Init
  <2>4. astray \in BOOLEAN
      BY Zenon DEF Init
  <2> QED
      BY <2>1, <2>2, <2>3, <2>4 DEF Init, TypeOK
<1>2. CallInv
    BY <1>1 DEF Init, CallInv, RequestInv, PageInv, RangInv, TalkInv, ActiveIsAccountedFor
<1>3. ShownInv /\ ConsoleInv
    BY DEF Init, ShownInv, StartedInv, ShownActiveIsActive, ConsoleInv, NoConsoleWithoutCall, CauseInv,
           active, phase
<1> QED
    BY <1>2, <1>3 DEF VoiceInv

--------------------------------------------------------------------------------
(* Steps after which the page shows the call it showed before. *)

\* A call is never forgotten, never rings twice, and is over for good.
Onward ==
    /\ \A c \in Calls :
          /\ server[c] # "none" => server'[c] # "none"
          /\ server[c] \notin {"none", "RINGING"} => server'[c] \notin {"none", "RINGING"}
          /\ server[c] \in Over => server'[c] \in Over
    /\ rang \subseteq rang' /\ agents \subseteq agents' /\ excused \subseteq excused'
    /\ \A c \in rang' \ rang : server[c] = "none" /\ server'[c] # "none"
    /\ \A c \in Calls : talk'[c] # "none" => talk[c] # "none" \/ c \in agents'

SamePage == page'.where = page.where /\ page'.call = page.call /\ page'.shows = page.shows

\* What the page will learn from a request: its call is over.
Tells(r) == \/ r.op = "turn" /\ r.st \in {"over", "moved"}
            \/ r.op = "end" /\ r.st = "ok"
Ends(r) == r.op \in {"end", "bye"} /\ r.st = "sent"

Added == requests' \ requests
Removed == requests \ requests'

\* The requests that come are as they should be, and for a call that has none
\* or that the page may have requests for.
Incoming ==
    \A q \in Added :
        /\ RequestOK(q)'
        /\ \/ q.id \in {NoCall, page.call} \cup rang
           \/ q.id \in Calls /\ server[q.id] = "none"
           \/ \E r \in Removed : r.id = q.id
        /\ q.op = "start" /\ Connects(q) =>
              server[q.id] = "none" /\ server'[q.id] = "ACTIVE" /\ Added = {q}

\* Those that go leave nothing open.
Outgoing ==
    \A r \in Removed : r.id # NoCall =>
        \/ r.id \in excused'
        \/ ~ Connects(r) /\ ~ Tells(r) /\ (Ends(r) => server'[r.id] # "ACTIVE")

Changes ==
    \A c \in Calls :
        /\ server'[c] = "ACTIVE" /\ server[c] # "ACTIVE" =>
              \E q \in requests' : q.id = c /\ Connects(q)
        /\ server[c] = "ACTIVE" /\ server'[c] # "ACTIVE" =>
              \/ c \in agents \cup rang
              \/ (\E r \in Removed : r.id = c) /\ (\E q \in requests' : q.id = c /\ Tells(q))

LEMMA QuietStep ==
    ASSUME VoiceInv, TypeOK', SamePage, Onward, Incoming, Outgoing, Changes
    PROVE  CallInv' /\ ShownInv'
<1>1. RequestInv'
  <2> SUFFICES ASSUME NEW r \in requests' PROVE RequestOK(r)'
      BY DEF RequestInv
  <2>1. CASE r \in requests
    <3>1. RequestOK(r) /\ r.id \in Calls \cup {NoCall}
        BY <2>1 DEF VoiceInv, CallInv, RequestInv, TypeOK, Request
    <3>2. rang \subseteq Calls /\ rang' \subseteq Calls
        BY DEF VoiceInv, CallInv, TypeOK
    <3> QED
        BY <3>1, <3>2 DEF RequestOK, Connects, Onward, SamePage, Here, NoCall, Calls
  <2>2. CASE r \notin requests
      BY <2>2 DEF Incoming, Added
  <2> QED
      BY <2>1, <2>2
<1>2. PageInv' /\ RangInv' /\ TalkInv'
    BY DEF VoiceInv, CallInv, PageInv, RangInv, TalkInv, Onward, SamePage, Here, TypeOK, Page, NoCall
<1>3. ActiveIsAccountedFor'
  <2> SUFFICES ASSUME NEW c \in Calls, server'[c] = "ACTIVE", c \notin excused'
               PROVE  Expected(c)' \/ Ending(c)' \/ (Here' /\ page'.call = c /\ active(page'))
      BY DEF ActiveIsAccountedFor
  <2>1. CASE server[c] # "ACTIVE"
      BY <2>1 DEF Changes, Expected, Connects
  <2>2. CASE server[c] = "ACTIVE"
    <3>1. Expected(c) \/ Ending(c) \/ (Here /\ page.call = c /\ active(page))
        BY <2>2 DEF VoiceInv, CallInv, ActiveIsAccountedFor, Onward
    <3>2. ASSUME NEW r \in requests, r.id = c, Connects(r) \/ Ends(r) PROVE r \in requests'
        BY <3>2 DEF Outgoing, Removed, NoCall, Calls
    <3> QED
        BY <3>1, <3>2 DEF Expected, Ending, Connects, Ends, SamePage, Here, active
  <2> QED
      BY <2>1, <2>2
<1>4. StartedInv'
  <2> SUFFICES ASSUME NEW r \in requests', Here', r.op = "start", Connects(r), r.id \notin agents'
               PROVE  server'[r.id] = "ACTIVE" /\ \A q \in requests' : q.id = r.id => q = r
      BY DEF StartedInv, Connects
  <2>0. Here /\ r.id \notin agents
      BY DEF SamePage, Here, Onward
  <2>1. CASE r \in requests
    <3>1. RequestOK(r) /\ r.id \in Calls /\ server[r.id] = "ACTIVE"
          /\ \A q \in requests : q.id = r.id => q = r
        BY <2>0, <2>1 DEF VoiceInv, CallInv, ShownInv, StartedInv, RequestInv, RequestOK, TypeOK, Request
    <3>2. \A x \in Removed : x.id # r.id
        BY <3>1 DEF Removed
    <3>3. r.id \notin rang /\ r.id # page.call /\ r.id # NoCall
        BY <3>1 DEF RequestOK
    <3>4. server'[r.id] = "ACTIVE"
        BY <2>0, <3>1, <3>2, <3>3 DEF Changes
    <3>5. \A q \in Added : q.id # r.id
        BY <3>1, <3>2, <3>3 DEF Incoming
    <3> QED
        BY <3>1, <3>4, <3>5 DEF Added
  <2>2. CASE r \notin requests
    <3>1. server[r.id] = "none" /\ server'[r.id] = "ACTIVE" /\ Added = {r}
        BY <2>2 DEF Incoming, Added
    <3>2. RequestOK(r)'
        BY <2>2 DEF Incoming, Added
    <3>3. \A q \in requests : q.id # r.id
        BY <3>1, <3>2 DEF VoiceInv, CallInv, RequestInv, RequestOK, Connects
    <3> QED
        BY <3>1, <3>3 DEF Added
  <2> QED
      BY <2>1, <2>2
<1>5. ShownActiveIsActive'
  <2> SUFFICES ASSUME Here', active(page'), server'[page'.call] # "ACTIVE"
               PROVE  \/ page'.call \in excused' \cup agents' \cup rang'
                      \/ \E r \in requests' : r.id = page'.call /\ Tells(r)
      BY DEF ShownActiveIsActive, Tells
  <2>1. Here /\ active(page) /\ page.call \in Calls /\ page'.call = page.call
      BY DEF SamePage, Here, active, VoiceInv, CallInv, PageInv, TypeOK, Page
  <2>2. CASE server[page.call] = "ACTIVE"
      BY <2>1, <2>2 DEF Changes, Onward
  <2>3. CASE server[page.call] # "ACTIVE"
    <3>1. \/ page.call \in excused \cup agents \cup rang
          \/ \E r \in requests : r.id = page.call /\ Tells(r)
        BY <2>1, <2>3 DEF VoiceInv, ShownInv, ShownActiveIsActive, Tells
    <3>2. ASSUME NEW r \in requests, r.id = page.call, Tells(r)
          PROVE  r \in requests' \/ page.call \in excused'
        BY <2>1, <3>2 DEF Outgoing, Removed, NoCall, Calls
    <3> QED
        BY <2>1, <3>1, <3>2 DEF Onward
  <2> QED
      BY <2>2, <2>3
<1> QED
    BY <1>1, <1>2, <1>3, <1>4, <1>5 DEF CallInv, ShownInv

--------------------------------------------------------------------------------
(* What the resident presses. *)

\* A request the page makes, for no call, its own call or one that rang.
LEMMA PressStep ==
    ASSUME VoiceInv, Here, NEW q \in Request, requests' = requests \cup {q},
           q.id \in {NoCall, page.call} \cup rang,
           RequestOK(q), q.st # "ok" \/ q.op = "end",
           page' \in Page, SamePage,
           talk' \in [Calls -> Session],
           \A c \in Calls : talk'[c] # "none" => talk[c] # "none",
           UNCHANGED <<server, agents, rang, faults, excused, astray>>
    PROVE  CallInv' /\ ShownInv'
<1>1. TypeOK'
    BY DEF VoiceInv, CallInv, TypeOK
<1>2. RequestOK(q)'
    BY DEF RequestOK, Connects, SamePage, Here
<1>3. Added \subseteq {q} /\ Removed = {}
    BY DEF Added, Removed
<1>4. Incoming
    BY <1>2, <1>3 DEF Incoming, Connects
<1>5. Onward /\ Outgoing /\ Changes
    BY <1>3 DEF Onward, Outgoing, Changes
<1> QED
    BY <1>1, <1>4, <1>5, QuietStep

\* A page that shows a call that is not over has one that exists.
LEMMA ActivePage ==
    ASSUME VoiceInv, Here, page.shows # "none"
    PROVE  page.call \in Calls /\ page.call # NoCall /\ server[page.call] \notin {"none", "RINGING"}
BY DEF VoiceInv, CallInv, PageInv, TypeOK, Page, Here

LEMMA StartVoice == ASSUME VoiceInv, Start PROVE VoiceInv'
<1>1. TypeOK /\ Here
    BY DEF VoiceInv, CallInv, Start
<1>2. page' \in Page /\ SamePage /\ page'.state = "connecting"
    BY <1>1, SetState DEF Start, AgentState, SamePage
<1>3. PICK q \in Request : q.op = "start" /\ q.id = NoCall /\ q.st = "sent" /\ requests' = requests \cup {q}
    BY <1>1, NewRequest DEF Start, Operations
<1>4. UNCHANGED <<server, agents, rang, talk, faults, excused, astray>>
    BY DEF Start
<1>5. RequestOK(q)
    BY <1>1, <1>3 DEF RequestOK, Connects, TypeOK, NoCall, Calls
<1>6. CallInv' /\ ShownInv'
    BY <1>1, <1>2, <1>3, <1>4, <1>5, PressStep DEF TypeOK
<1>7. ConsoleInv'
    BY <1>2, <1>3 DEF ConsoleInv, NoConsoleWithoutCall, CauseInv
<1> QED
    BY <1>6, <1>7 DEF VoiceInv

LEMMA AnswerVoice == ASSUME VoiceInv, NEW c \in Calls, Answer(c) PROVE VoiceInv'
<1>1. TypeOK /\ Here /\ c \in rang
    BY DEF VoiceInv, CallInv, Answer
<1>2. page' \in Page /\ SamePage /\ page'.state = "connecting"
  <2>1. CASE setState("connecting")
      BY <1>1, <2>1, SetState DEF AgentState, SamePage
  <2>2. CASE setPage([page EXCEPT !.state = "connecting", !.answered = TRUE])
      BY <1>1, <2>2 DEF setPage, TypeOK, Page, AgentState, SamePage
  <2> QED
      BY <2>1, <2>2 DEF Answer
<1>3. PICK q \in Request : q.op = "answer" /\ q.id = c /\ q.st = "sent" /\ requests' = requests \cup {q}
    BY <1>1, NewRequest DEF Answer, Operations
<1>4. UNCHANGED <<server, agents, rang, talk, faults, excused, astray>>
    BY DEF Answer
<1>5. RequestOK(q)
    BY <1>1, <1>3 DEF VoiceInv, CallInv, RangInv, RequestOK, Connects, NoCall, Calls
<1>6. CallInv' /\ ShownInv'
    BY <1>1, <1>2, <1>3, <1>4, <1>5, PressStep DEF TypeOK
<1>7. ConsoleInv'
    BY <1>2, <1>3 DEF ConsoleInv, NoConsoleWithoutCall, CauseInv
<1> QED
    BY <1>6, <1>7 DEF VoiceInv

LEMMA DeclineVoice == ASSUME VoiceInv, NEW c \in Calls, Decline(c) PROVE VoiceInv'
<1>1. TypeOK /\ Here /\ c \in rang
    BY DEF VoiceInv, CallInv, Decline
<1>2. PICK q \in Request : q.op = "bye" /\ q.id = c /\ q.st = "sent" /\ requests' = requests \cup {q}
    BY <1>1, NewRequest DEF Decline, Operations
<1>3. UNCHANGED <<server, agents, rang, talk, page, faults, excused, astray>> /\ SamePage
    BY DEF Decline, SamePage
<1>4. RequestOK(q)
    BY <1>1, <1>2 DEF VoiceInv, CallInv, RangInv, RequestOK, Connects, NoCall, Calls
<1>5. CallInv' /\ ShownInv'
    BY <1>1, <1>2, <1>3, <1>4, PressStep DEF TypeOK
<1>6. ConsoleInv'
    BY <1>2, <1>3 DEF VoiceInv, ConsoleInv, NoConsoleWithoutCall, CauseInv, Here
<1> QED
    BY <1>5, <1>6 DEF VoiceInv

LEMMA SpeakVoice == ASSUME VoiceInv, Speak PROVE VoiceInv'
<1>1. TypeOK /\ Here /\ active(page)
    BY DEF VoiceInv, CallInv, Speak, canTalk
<1>2. page.call \in Calls /\ page.call # NoCall /\ server[page.call] # "none"
    BY <1>1, ActivePage DEF active
<1>3. page' \in Page /\ SamePage /\ page'.state = "thinking"
    BY <1>1, SetState DEF Speak, AgentState, SamePage
<1>4. PICK q \in Request : q.op = "turn" /\ q.id = page.call /\ q.st = "sent" /\ requests' = requests \cup {q}
    BY <1>1, <1>2, NewRequest DEF Speak, Operations
<1>5. UNCHANGED <<server, agents, rang, talk, faults, excused, astray>>
    BY DEF Speak
<1>6. RequestOK(q)
    BY <1>2, <1>4 DEF RequestOK, Connects
<1>7. CallInv' /\ ShownInv'
    BY <1>1, <1>3, <1>4, <1>5, <1>6, PressStep DEF TypeOK
<1>8. ConsoleInv'
    BY <1>2, <1>3, <1>4 DEF ConsoleInv, NoConsoleWithoutCall, CauseInv, SamePage
<1> QED
    BY <1>7, <1>8 DEF VoiceInv

LEMMA LanguageVoice == ASSUME VoiceInv, ChangeLanguage PROVE VoiceInv'
<1>1. TypeOK /\ Here /\ active(page)
    BY DEF VoiceInv, CallInv, ChangeLanguage
<1>2. page.call \in Calls /\ page.call # NoCall /\ server[page.call] # "none"
    BY <1>1, ActivePage DEF active
<1>3. PICK q \in Request : q.op = "language" /\ q.id = page.call /\ q.st = "sent" /\ requests' = requests \cup {q}
    BY <1>1, <1>2, NewRequest DEF ChangeLanguage, Operations
<1>4. UNCHANGED <<server, agents, rang, talk, page, faults, excused, astray>> /\ SamePage
    BY DEF ChangeLanguage, SamePage
<1>5. RequestOK(q)
    BY <1>2, <1>3 DEF RequestOK, Connects
<1>6. CallInv' /\ ShownInv'
    BY <1>1, <1>3, <1>4, <1>5, PressStep DEF TypeOK
<1>7. ConsoleInv'
    BY <1>3, <1>4 DEF VoiceInv, ConsoleInv, NoConsoleWithoutCall, CauseInv, Here
<1> QED
    BY <1>6, <1>7 DEF VoiceInv

LEMMA ListenVoice == ASSUME VoiceInv, Listen PROVE VoiceInv'
<1>1. TypeOK /\ Here /\ active(page)
    BY DEF VoiceInv, CallInv, Listen, canTalk
<1>2. page.call \in Calls /\ page.call # NoCall /\ server[page.call] # "none"
    BY <1>1, ActivePage DEF active
<1>3. page' \in Page /\ SamePage /\ page'.state = "listening"
    BY <1>1, SetState DEF Listen, AgentState, SamePage
<1>4. PICK q \in Request : q.op = "stt" /\ q.id = page.call /\ q.st = "recording" /\ requests' = requests \cup {q}
    BY <1>2 DEF Listen, Request, Operations, Stages
<1>5. UNCHANGED <<server, agents, rang, talk, faults, excused, astray>>
    BY DEF Listen
<1>6. RequestOK(q)
    BY <1>2, <1>4 DEF RequestOK, Connects
<1>7. CallInv' /\ ShownInv'
    BY <1>1, <1>3, <1>4, <1>5, <1>6, PressStep DEF TypeOK
<1>8. ConsoleInv'
    BY <1>2, <1>3, <1>4 DEF ConsoleInv, NoConsoleWithoutCall, CauseInv, SamePage
<1> QED
    BY <1>7, <1>8 DEF VoiceInv

\* The call is ended on the server only if the page shows it ACTIVE; while the
\* page is live it shows a call that is not over, or none.
LEMMA EndVoice == ASSUME VoiceInv, End PROVE VoiceInv'
<1>1. TypeOK /\ Here /\ phase(page) = "live"
    BY DEF VoiceInv, CallInv, End
<1>2. page' \in Page /\ SamePage /\ page'.state = page.state
    BY <1>1 DEF End, setPage, TypeOK, Page, SamePage, Calls
<1>3. page.call \in Calls \cup {NoCall} /\ (page.call # NoCall => active(page) /\ server[page.call] # "none")
    BY <1>1, ActivePage DEF phase, callEnded, active, TypeOK, Page, VoiceInv, CallInv, PageInv
<1>4. PICK q \in Request : /\ q.op = "end" /\ q.id = page.call /\ requests' = requests \cup {q}
                           /\ q.st = "sent" \/ (q.st = "ok" /\ ~ active(page))
  <2>1. CASE active(page)
      BY <1>1, <1>3, <2>1, NewRequest DEF End, Operations
  <2>2. CASE ~ active(page)
    <3>1. [op |-> "end", id |-> page.call, st |-> "ok"] \in Request
        BY <1>3 DEF Request, Operations, Stages
    <3>2. requests' = requests \cup {[op |-> "end", id |-> page.call, st |-> "ok"]}
        BY <2>2 DEF End
    <3> QED
        BY <2>2, <3>1, <3>2
  <2> QED
      BY <2>1, <2>2
<1>5. UNCHANGED <<server, agents, rang, faults, excused, astray>>
    BY DEF End
<1>6. talk' = [c \in Calls |-> IF c = page.live /\ talk[c] = "open" THEN "closing" ELSE talk[c]]
    BY DEF End
<1>7. talk' \in [Calls -> Session] /\ \A c \in Calls : (talk'[c] # "none" => talk[c] # "none")
                                          /\ (talk[c] = "opening" => talk'[c] = "opening")
    BY <1>1, <1>6 DEF TypeOK, Session
<1>8. RequestOK(q)
    BY <1>3, <1>4 DEF RequestOK, Connects
<1>9. CallInv' /\ ShownInv'
    BY <1>1, <1>2, <1>4, <1>5, <1>7, <1>8, PressStep
<1>10. ConsoleInv'
    BY <1>1, <1>2, <1>4, <1>5, <1>7
    DEF VoiceInv, ConsoleInv, NoConsoleWithoutCall, CauseInv, SamePage, Here, phase, callEnded, NoCall, TypeOK, Page
<1> QED
    BY <1>9, <1>10 DEF VoiceInv

\* Leaving ends the call the page shows, or gives it up.
LEMMA LeaveVoice == ASSUME VoiceInv, Leave PROVE VoiceInv'
<1>1. TypeOK /\ Here
    BY DEF VoiceInv, CallInv, Leave
<1>2. PICK place \in Places \ {"here"} :
          /\ page' = [page EXCEPT !.where = place, !.state = "idle", !.shows = "none", !.answered = FALSE]
          /\ talk' = [c \in Calls |-> IF c = page.live /\ talk[c] = "open" THEN "closing" ELSE talk[c]]
          /\ requests' = IF active(page) /\ place = "away"
                         THEN requests \cup {New("bye", page.call)} ELSE requests
          /\ Excuse(active(page) /\ place # "away", page.call)
    BY DEF Leave
<1>3. UNCHANGED <<server, agents, rang, faults, astray>>
    BY DEF Leave
<1>4. page' \in Page /\ ~ Here' /\ page'.call = page.call /\ page'.shows = "none"
    BY <1>1, <1>2 DEF TypeOK, Page, AgentState, Here, Places
<1>5. talk' \in [Calls -> Session] /\ \A c \in Calls : talk'[c] # "none" => talk[c] # "none"
    BY <1>1, <1>2 DEF TypeOK, Session
<1>6. active(page) => page.call \in Calls /\ page.call # NoCall /\ server[page.call] # "none"
    BY <1>1, ActivePage DEF active
<1>7. excused' \subseteq Calls /\ excused \subseteq excused'
      /\ (active(page) /\ place # "away" => page.call \in excused')
    BY <1>1, <1>2, <1>6 DEF Excuse, TypeOK
<1>8. requests \subseteq requests'
      /\ \A r \in requests' \ requests :
            r \in Request /\ r.op = "bye" /\ r.id = page.call /\ r.st = "sent" /\ active(page)
    BY <1>1, <1>2, <1>6, NewRequest DEF Operations
<1>9. active(page) /\ place = "away" =>
          \E r \in requests' : r.op = "bye" /\ r.id = page.call /\ r.st = "sent"
    BY <1>1, <1>2, <1>6, NewRequest DEF Operations
<1>10. TypeOK'
    BY <1>1, <1>3, <1>4, <1>5, <1>7, <1>8 DEF TypeOK
<1>11. RequestInv'
    BY <1>1, <1>3, <1>4, <1>6, <1>7, <1>8 DEF VoiceInv, CallInv, RequestInv, RequestOK, Connects
<1>12. PageInv' /\ RangInv' /\ TalkInv'
    BY <1>1, <1>3, <1>4, <1>5 DEF VoiceInv, CallInv, PageInv, RangInv, TalkInv
<1>13. ActiveIsAccountedFor'
    BY <1>1, <1>3, <1>4, <1>7, <1>8, <1>9
    DEF VoiceInv, CallInv, ActiveIsAccountedFor, Expected, Ending, Here
<1>14. ShownInv' /\ ConsoleInv'
    BY <1>4 DEF ShownInv, StartedInv, ShownActiveIsActive, ConsoleInv, NoConsoleWithoutCall, CauseInv
<1> QED
    BY <1>10, <1>11, <1>12, <1>13, <1>14 DEF VoiceInv, CallInv

\* A page begins anew: the call it showed is over or given up.
LEMMA ResetVoice == ASSUME VoiceInv, Reset PROVE VoiceInv'
<1>1. TypeOK /\ Here
    BY DEF VoiceInv, CallInv, Reset
<1>2. page' = [page EXCEPT !.call = NoCall, !.shows = "none", !.state = "idle"]
      /\ UNCHANGED <<server, agents, rang, talk, requests, faults, astray>>
      /\ Excuse(active(page), page.call)
    BY <1>1 DEF Reset, setPage
<1>3. page' \in Page /\ Here' /\ page'.call = NoCall /\ page'.shows = "none" /\ page'.state = "idle"
    BY <1>1, <1>2 DEF TypeOK, Page, AgentState, Here
<1>4. active(page) => page.call \in Calls
    BY <1>1, ActivePage DEF active
<1>5. excused' \subseteq Calls /\ excused \subseteq excused' /\ (active(page) => page.call \in excused')
    BY <1>1, <1>2, <1>4 DEF Excuse, TypeOK
<1>6. TypeOK'
    BY <1>1, <1>2, <1>3, <1>5 DEF TypeOK
<1>7. RequestInv'
    BY <1>1, <1>2, <1>3, <1>5 DEF VoiceInv, CallInv, RequestInv, RequestOK, Connects
<1>8. PageInv' /\ RangInv' /\ TalkInv'
    BY <1>2, <1>3 DEF VoiceInv, CallInv, PageInv, RangInv, TalkInv
<1>9. ActiveIsAccountedFor'
    BY <1>1, <1>2, <1>5 DEF VoiceInv, CallInv, ActiveIsAccountedFor, Expected, Ending
<1>10. ShownInv'
    BY <1>1, <1>2, <1>3 DEF VoiceInv, ShownInv, StartedInv, ShownActiveIsActive, active
<1>11. ConsoleInv'
    BY <1>3 DEF ConsoleInv, NoConsoleWithoutCall, CauseInv, phase
<1> QED
    BY <1>6, <1>7, <1>8, <1>9, <1>10, <1>11 DEF VoiceInv, CallInv

--------------------------------------------------------------------------------
(* What the server does with a request. *)

LEMMA HandleStartVoice ==
    ASSUME VoiceInv, NEW r \in requests, r.st = "sent", HandleStart(r)
    PROVE  VoiceInv'
<1>1. TypeOK /\ r \in Request /\ r.op = "start"
    BY DEF VoiceInv, CallInv, TypeOK, HandleStart
<1>2. PICK c \in Calls :
          /\ Unused(c)
          /\ server' = [server EXCEPT ![c] = "ACTIVE"]
          /\ agents' \in {agents, agents \cup {c}}
          /\ requests' = (requests \ {r}) \cup {[r EXCEPT !.id = c, !.st = "ok"]}
    BY DEF HandleStart
<1>3. UNCHANGED <<rang, talk, page, faults, excused, astray>>
    BY DEF HandleStart
<1> DEFINE q == [r EXCEPT !.id = c, !.st = "ok"]
<1>4. q \in Request /\ q.op = "start" /\ q.id = c /\ q.st = "ok" /\ q # r
    BY <1>1 DEF Request, Stages
<1>5. server[c] = "none" /\ server'[c] = "ACTIVE" /\ \A d \in Calls \ {c} : server'[d] = server[d]
    BY <1>1, <1>2 DEF Unused, TypeOK
<1>6. c \notin rang /\ c # page.call /\ c # NoCall
    BY <1>5 DEF VoiceInv, CallInv, RangInv, PageInv, NoCall, Calls
<1>7. TypeOK'
    BY <1>1, <1>2, <1>3, <1>4 DEF TypeOK, CallState
<1>8. q \in requests' /\ \A x \in Added : x = q
    BY <1>2 DEF Added
<1>9. \A x \in Removed : x = r
    BY <1>2 DEF Removed
<1>10. SamePage /\ Onward
    BY <1>2, <1>3, <1>5 DEF SamePage, Onward, Over
<1>11. q \notin requests
    BY <1>4, <1>5, <1>6 DEF VoiceInv, CallInv, RequestInv, RequestOK
<1>12. Incoming
  <2>1. RequestOK(q)'
      BY <1>3, <1>4, <1>5, <1>6 DEF RequestOK, Connects
  <2>2. Added = {q}
      BY <1>8, <1>11 DEF Added
  <2> HIDE DEF q
  <2> QED
      BY <1>4, <1>5, <2>1, <2>2 DEF Incoming
<1>13. Outgoing
    BY <1>1, <1>9 DEF Outgoing, Connects, Tells, Ends
<1>14. Changes
  <2> HIDE DEF q
  <2> QED
      BY <1>4, <1>5, <1>8 DEF Changes, Connects
<1>15. CallInv' /\ ShownInv'
    BY <1>7, <1>10, <1>12, <1>13, <1>14, QuietStep
<1>16. ConsoleInv'
  <2> HIDE DEF q
  <2>1. requests' = (requests \ {r}) \cup {q}
      BY <1>2 DEF q
  <2> QED
      BY <1>1, <1>3, <1>4, <2>1 DEF VoiceInv, ConsoleInv, NoConsoleWithoutCall, CauseInv, Here
<1> QED
    BY <1>15, <1>16 DEF VoiceInv

\* A request that goes on in another stage, for the call it is for.
LEMMA StageStep ==
    ASSUME VoiceInv, NEW r \in requests, NEW q \in Request,
           q.op = r.op, q.id = r.id, q # r, requests' = (requests \ {r}) \cup {q},
           TypeOK', SamePage, Onward, Changes, RequestOK(q)', ~ (q.op = "start" /\ q.st = "ok"),
           \/ r.id \in excused'
           \/ ~ Connects(r) /\ ~ Tells(r) /\ (Ends(r) /\ r.id # NoCall => server'[r.id] # "ACTIVE")
    PROVE  CallInv' /\ ShownInv'
<1>1. r \in Removed /\ (\A x \in Added : x = q) /\ (\A x \in Removed : x = r)
    BY DEF Added, Removed
<1>2. Incoming
    BY <1>1 DEF Incoming, Connects
<1>3. Outgoing
    BY <1>1 DEF Outgoing
<1> QED
    BY <1>2, <1>3, QuietStep

\* A request is over.
LEMMA GoneStep ==
    ASSUME VoiceInv, requests' \subseteq requests,
           TypeOK', SamePage, Onward, Changes,
           \A r \in requests \ requests' :
              \/ r.id \in excused'
              \/ ~ Connects(r) /\ ~ Tells(r) /\ (Ends(r) /\ r.id # NoCall => server'[r.id] # "ACTIVE")
    PROVE  CallInv' /\ ShownInv'
<1>1. Added = {} /\ Removed = requests \ requests'
    BY DEF Added, Removed
<1>2. Incoming /\ Outgoing
    BY <1>1 DEF Incoming, Outgoing
<1> QED
    BY <1>2, QuietStep

LEMMA HandleAnswerVoice ==
    ASSUME VoiceInv, NEW r \in requests, r.st = "sent", HandleAnswer(r)
    PROVE  VoiceInv'
<1>1. TypeOK /\ r \in Request /\ r.op = "answer" /\ r.id \in Calls /\ r.id \in rang /\ r.id # NoCall
    BY DEF VoiceInv, CallInv, TypeOK, HandleAnswer, RequestInv, RequestOK
<1>2. UNCHANGED <<agents, rang, talk, page, faults, excused, astray>> /\ SamePage
    BY DEF HandleAnswer, SamePage
<1>3. CASE server[r.id] = "RINGING"
  <2>1. server' = [server EXCEPT ![r.id] = "ACTIVE"] /\ To(r, "ok")
      BY <1>3 DEF HandleAnswer
  <2>2. PICK q \in Request : q.op = r.op /\ q.id = r.id /\ q.st = "ok" /\ requests' = (requests \ {r}) \cup {q}
      BY <1>1, <2>1, ToRequest DEF Stages
  <2>3. server' \in [Calls -> CallState] /\ server'[r.id] = "ACTIVE"
        /\ \A d \in Calls \ {r.id} : server'[d] = server[d]
      BY <1>1, <2>1 DEF TypeOK, CallState
  <2>4. TypeOK'
      BY <1>1, <1>2, <2>2, <2>3 DEF TypeOK
  <2>5. Onward
      BY <1>1, <1>2, <1>3, <2>3 DEF Onward, Over
  <2>6. Changes
      BY <1>1, <2>2, <2>3 DEF Changes, Connects
  <2>7. RequestOK(q)'
    <3>1. r.id # page.call
        BY <1>1, <1>3 DEF VoiceInv, CallInv, PageInv
    <3> QED
        BY <1>1, <1>2, <2>2, <2>3, <3>1 DEF RequestOK, Connects
  <2>8. CallInv' /\ ShownInv'
      BY <1>1, <1>2, <2>2, <2>4, <2>5, <2>6, <2>7, StageStep DEF Connects, Tells, Ends
  <2>9. ConsoleInv'
      BY <1>1, <1>2, <2>2 DEF VoiceInv, ConsoleInv, NoConsoleWithoutCall, CauseInv, Here
  <2> QED
      BY <2>8, <2>9 DEF VoiceInv
<1>4. CASE server[r.id] # "RINGING"
  <2>1. UNCHANGED server /\ To(r, "failed")
      BY <1>4 DEF HandleAnswer
  <2>2. PICK q \in Request : q.op = r.op /\ q.id = r.id /\ q.st = "failed" /\ requests' = (requests \ {r}) \cup {q}
      BY <1>1, <2>1, ToRequest DEF Stages
  <2>3. TypeOK' /\ Onward /\ Changes
      BY <1>1, <1>2, <2>1, <2>2 DEF TypeOK, Onward, Changes
  <2>4. RequestOK(q)'
      BY <1>1, <1>2, <2>1, <2>2 DEF RequestOK, Connects, VoiceInv, CallInv, RequestInv
  <2>5. CallInv' /\ ShownInv'
      BY <1>1, <1>2, <2>2, <2>3, <2>4, StageStep DEF Connects, Tells, Ends
  <2>6. ConsoleInv'
      BY <1>1, <1>2, <2>2 DEF VoiceInv, ConsoleInv, NoConsoleWithoutCall, CauseInv, Here
  <2> QED
      BY <2>5, <2>6 DEF VoiceInv
<1> QED
    BY <1>3, <1>4

LEMMA TurnReadsVoice ==
    ASSUME VoiceInv, NEW r \in requests, r.st = "sent", TurnReads(r)
    PROVE  VoiceInv'
<1>1. TypeOK /\ r \in Request /\ r.op = "turn"
    BY DEF VoiceInv, CallInv, TypeOK, TurnReads
<1>2. UNCHANGED <<server, agents, rang, talk, page, faults, excused, astray>> /\ SamePage
    BY DEF TurnReads, SamePage
<1>3. PICK q \in Request : /\ q.op = r.op /\ q.id = r.id /\ q.st \in {"running", "failed"}
                           /\ requests' = (requests \ {r}) \cup {q}
    BY <1>1, ToRequest DEF TurnReads, Stages
<1>4. TypeOK' /\ Onward /\ Changes
    BY <1>1, <1>2, <1>3 DEF TypeOK, Onward, Changes
<1>5. RequestOK(q)'
    BY <1>1, <1>2, <1>3 DEF RequestOK, Connects, VoiceInv, CallInv, RequestInv
<1>6. CallInv' /\ ShownInv'
    BY <1>1, <1>2, <1>3, <1>4, <1>5, StageStep DEF Connects, Tells, Ends
<1>7. ConsoleInv'
    BY <1>1, <1>2, <1>3 DEF VoiceInv, ConsoleInv, NoConsoleWithoutCall, CauseInv, Here
<1> QED
    BY <1>6, <1>7 DEF VoiceInv

LEMMA HandleOtherVoice ==
    ASSUME VoiceInv, NEW r \in requests, r.st = "sent", HandleOther(r)
    PROVE  VoiceInv'
<1>1. TypeOK /\ r \in Request /\ r.op \in {"language", "stt"}
    BY DEF VoiceInv, CallInv, TypeOK, HandleOther
<1>2. UNCHANGED <<server, agents, rang, talk, page, faults, excused, astray>> /\ SamePage
    BY DEF HandleOther, SamePage
<1>3. CASE r.op = "language" /\ Gone(r)
  <2>1. requests' = requests \ {r}
      BY <1>3 DEF Gone
  <2>2. TypeOK' /\ Onward /\ Changes
      BY <1>1, <1>2, <2>1 DEF TypeOK, Onward, Changes
  <2>3. CallInv' /\ ShownInv'
      BY <1>2, <1>3, <2>1, <2>2, GoneStep DEF Connects, Tells, Ends
  <2>4. ConsoleInv'
      BY <1>2, <1>3, <2>1 DEF VoiceInv, ConsoleInv, NoConsoleWithoutCall, CauseInv, Here
  <2> QED
      BY <2>3, <2>4 DEF VoiceInv
<1>4. CASE To(r, "ok") \/ To(r, "failed")
  <2>1. PICK q \in Request : /\ q.op = r.op /\ q.id = r.id /\ q.st \in {"ok", "failed"}
                             /\ requests' = (requests \ {r}) \cup {q}
      BY <1>1, <1>4, ToRequest DEF Stages
  <2>2. TypeOK' /\ Onward /\ Changes
      BY <1>1, <1>2, <2>1 DEF TypeOK, Onward, Changes
  <2>3. RequestOK(q)'
      BY <1>1, <1>2, <2>1 DEF RequestOK, Connects, VoiceInv, CallInv, RequestInv
  <2>4. CallInv' /\ ShownInv'
      BY <1>1, <1>2, <2>1, <2>2, <2>3, StageStep DEF Connects, Tells, Ends
  <2>5. ConsoleInv'
      BY <1>1, <1>2, <2>1 DEF VoiceInv, ConsoleInv, NoConsoleWithoutCall, CauseInv, Here
  <2> QED
      BY <2>4, <2>5 DEF VoiceInv
<1> QED
    BY <1>3, <1>4 DEF HandleOther

\* A call that is ended is ended because the page asked for it, or it rang.
LEMMA HandleEndVoice ==
    ASSUME VoiceInv, NEW r \in requests, r.st = "sent", HandleEnd(r)
    PROVE  VoiceInv'
<1>1. TypeOK /\ r \in Request /\ r.op \in {"end", "bye"} /\ RequestOK(r)
    BY DEF VoiceInv, CallInv, TypeOK, RequestInv, HandleEnd
<1>2. UNCHANGED <<agents, rang, talk, page, faults, excused, astray>> /\ SamePage
    BY DEF HandleEnd, SamePage
<1>3. /\ server' \in [Calls -> CallState]
      /\ \A d \in Calls : d # r.id => server'[d] = server[d]
      /\ r.id \in Calls => server'[r.id] = IF server[r.id] \in {"RINGING", "ACTIVE"} THEN "ENDED" ELSE server[r.id]
    BY <1>1 DEF HandleEnd, TypeOK, CallState
<1>4. Onward
    BY <1>2, <1>3 DEF Onward, Over
<1>5. r.id # NoCall => r.id \in Calls /\ server'[r.id] \notin {"ACTIVE", "none", "RINGING"}
    BY <1>1, <1>3 DEF Request, RequestOK, TypeOK
<1>6. CASE r.op = "end"
  <2>1. PICK q \in Request : q.op = r.op /\ q.id = r.id /\ q.st = "ok" /\ requests' = (requests \ {r}) \cup {q}
      BY <1>1, <1>6, ToRequest DEF HandleEnd, Stages
  <2>2. TypeOK'
      BY <1>1, <1>2, <1>3, <2>1 DEF TypeOK
  <2>3. Changes
      BY <1>3, <1>6, <2>1 DEF Changes, Removed, Tells
  <2>4. RequestOK(q)'
    <3>1. r.id # NoCall => server'[r.id] \in Over
        BY <1>3, <1>5 DEF Over, CallState
    <3> QED
        BY <1>5, <1>6, <2>1, <3>1 DEF RequestOK, Connects
  <2>5. CallInv' /\ ShownInv'
      BY <1>2, <1>4, <1>5, <1>6, <2>1, <2>2, <2>3, <2>4, StageStep DEF Connects, Tells, Ends
  <2>6. ConsoleInv'
      BY <1>2, <1>6, <2>1 DEF VoiceInv, ConsoleInv, NoConsoleWithoutCall, CauseInv, Here
  <2> QED
      BY <2>5, <2>6 DEF VoiceInv
<1>7. CASE r.op = "bye"
  <2>1. requests' = requests \ {r}
      BY <1>7 DEF HandleEnd, Gone
  <2>2. TypeOK'
      BY <1>1, <1>2, <1>3, <2>1 DEF TypeOK
  <2>3. CASE Here
    <3>1. r.id \in rang
        BY <1>1, <1>7, <2>3 DEF RequestOK
    <3>2. Changes
        BY <1>3, <3>1 DEF Changes
    <3>3. CallInv' /\ ShownInv'
        BY <1>2, <1>4, <1>5, <1>7, <2>1, <2>2, <3>2, GoneStep DEF Connects, Tells, Ends
    <3> QED
        BY <1>2, <1>7, <2>1, <3>3 DEF VoiceInv, ConsoleInv, NoConsoleWithoutCall, CauseInv, Here
  <2>4. CASE ~ Here
    <3>1. ShownInv' /\ ConsoleInv'
        BY <1>2, <2>4 DEF ShownInv, StartedInv, ShownActiveIsActive, ConsoleInv, NoConsoleWithoutCall, CauseInv, Here
    <3>2. RequestInv'
      <4> SUFFICES ASSUME NEW x \in requests' PROVE RequestOK(x)'
          BY DEF RequestInv
      <4>1. RequestOK(x) /\ x.id \in Calls \cup {NoCall}
          BY <2>1 DEF VoiceInv, CallInv, RequestInv, TypeOK, Request
      <4> QED
          BY <1>2, <1>4, <4>1 DEF RequestOK, Connects, Onward, SamePage, Here, NoCall, Calls
    <3>3. PageInv' /\ RangInv' /\ TalkInv'
        BY <1>1, <1>2, <1>4 DEF VoiceInv, CallInv, PageInv, RangInv, TalkInv, Onward, SamePage, Here, TypeOK, Page, NoCall
    <3>4. ActiveIsAccountedFor'
        BY <1>2, <1>3, <1>5, <1>7, <2>1, <2>4
        DEF VoiceInv, CallInv, ActiveIsAccountedFor, Expected, Ending, Here, NoCall, Calls
    <3> QED
        BY <2>2, <3>1, <3>2, <3>3, <3>4 DEF VoiceInv, CallInv
  <2> QED
      BY <2>3, <2>4
<1> QED
    BY <1>1, <1>6, <1>7

LEMMA TurnCommitsVoice ==
    ASSUME VoiceInv, NEW r \in requests, TurnCommits(r)
    PROVE  VoiceInv'
<1>1. TypeOK /\ r \in Request /\ r.op = "turn" /\ r.st = "running" /\ RequestOK(r) /\ r.id \in Calls
    BY DEF VoiceInv, CallInv, TypeOK, RequestInv, TurnCommits, RequestOK, Request
<1>2. UNCHANGED <<agents, rang, talk, page, faults, excused, astray>> /\ SamePage
    BY DEF TurnCommits, SamePage
<1>3. PICK st \in {"ok", "over", "moved"} :
          /\ To(r, st)
          /\ IF st = "ok" THEN server' = server
             ELSE server' = [server EXCEPT ![r.id] = IF st = "over" THEN "ENDED" ELSE "TRANSFERRED"]
    BY DEF TurnCommits
<1>4. PICK q \in Request : q.op = r.op /\ q.id = r.id /\ q.st = st /\ requests' = (requests \ {r}) \cup {q}
    BY <1>1, <1>3, ToRequest DEF Stages
<1>5. /\ server' \in [Calls -> CallState] /\ \A d \in Calls : d # r.id => server'[d] = server[d]
      /\ IF st = "ok" THEN server'[r.id] = server[r.id] ELSE server'[r.id] \in Over
    BY <1>1, <1>3 DEF TypeOK, CallState, Over
<1>6. TypeOK'
    BY <1>1, <1>2, <1>4, <1>5 DEF TypeOK
<1>7. Onward
    BY <1>1, <1>2, <1>5 DEF Onward, Over
<1>8. Changes
    BY <1>1, <1>4, <1>5 DEF Changes, Removed, Tells, Over
<1>9. RequestOK(q)'
    BY <1>1, <1>2, <1>4, <1>5 DEF RequestOK, Connects, Over
<1>10. CallInv' /\ ShownInv'
    BY <1>1, <1>2, <1>4, <1>6, <1>7, <1>8, <1>9, StageStep DEF Connects, Tells, Ends
<1>11. ConsoleInv'
    BY <1>1, <1>2, <1>4 DEF VoiceInv, ConsoleInv, NoConsoleWithoutCall, CauseInv, Here
<1> QED
    BY <1>10, <1>11 DEF VoiceInv

\* Whatever is lost is excused.
LEMMA LoseVoice ==
    ASSUME VoiceInv, NEW r \in requests, Lose(r)
    PROVE  VoiceInv'
<1>1. TypeOK /\ r \in Request /\ RequestOK(r)
    BY DEF VoiceInv, CallInv, TypeOK, RequestInv
<1>2. UNCHANGED <<server, agents, rang, talk, page, astray>> /\ SamePage
    BY DEF Lose, SamePage
<1>3. faults' \in 0 .. MaxFaults
    BY <1>1, VoiceCallAssumption DEF Lose, TypeOK
<1>4. excused' \subseteq Calls /\ excused \subseteq excused' /\ (r.id # NoCall => r.id \in excused')
    BY <1>1 DEF Lose, Excuse, TypeOK, Request
<1>5. Onward
    BY <1>2, <1>4 DEF Onward
<1>6. CASE r.op \in {"start", "answer", "turn"} /\ r.st \in {"sent", "ok", "over", "moved"} /\ To(r, "failed")
  <2>1. PICK q \in Request : q.op = r.op /\ q.id = r.id /\ q.st = "failed" /\ requests' = (requests \ {r}) \cup {q}
      BY <1>6, <1>1, ToRequest DEF Stages
  <2>2. TypeOK' /\ Changes
      BY <1>1, <1>2, <1>3, <1>4, <2>1 DEF TypeOK, Changes
  <2>3. RequestOK(q)'
      BY <1>1, <1>2, <1>6, <2>1 DEF RequestOK, Connects
  <2>4. r.id = NoCall => ~ Connects(r)
      BY <1>1 DEF RequestOK
  <2>5. CallInv' /\ ShownInv'
      BY <1>2, <1>4, <1>5, <1>6, <2>1, <2>2, <2>3, <2>4, StageStep DEF Tells, Ends, RequestOK
  <2>6. ConsoleInv'
      BY <1>2, <1>6, <2>1 DEF VoiceInv, ConsoleInv, NoConsoleWithoutCall, CauseInv, Here
  <2> QED
      BY <2>5, <2>6 DEF VoiceInv
<1>7. CASE r.st = "sent" /\ r.op = "end" /\ To(r, "ok")
  <2>1. PICK q \in Request : q.op = r.op /\ q.id = r.id /\ q.st = "ok" /\ requests' = (requests \ {r}) \cup {q}
      BY <1>7, <1>1, ToRequest DEF Stages
  <2>2. TypeOK' /\ Changes
      BY <1>1, <1>2, <1>3, <1>4, <2>1 DEF TypeOK, Changes
  <2>3. RequestOK(q)'
      BY <1>1, <1>2, <1>4, <1>7, <2>1 DEF RequestOK, Connects
  <2>4. CallInv' /\ ShownInv'
      BY <1>2, <1>4, <1>5, <1>7, <2>1, <2>2, <2>3, StageStep DEF Connects, Tells, Ends
  <2>5. ConsoleInv'
      BY <1>2, <1>7, <2>1 DEF VoiceInv, ConsoleInv, NoConsoleWithoutCall, CauseInv, Here
  <2> QED
      BY <2>4, <2>5 DEF VoiceInv
<1>8. CASE r.st = "sent" /\ r.op = "bye" /\ Gone(r)
  <2>1. requests' = requests \ {r}
      BY <1>8 DEF Gone
  <2>2. TypeOK' /\ Changes
      BY <1>1, <1>2, <1>3, <1>4, <2>1 DEF TypeOK, Changes
  <2>3. CallInv' /\ ShownInv'
      BY <1>2, <1>4, <1>5, <1>8, <2>1, <2>2, GoneStep DEF Connects, Tells, Ends
  <2>4. ConsoleInv'
      BY <1>2, <1>8, <2>1 DEF VoiceInv, ConsoleInv, NoConsoleWithoutCall, CauseInv, Here
  <2> QED
      BY <2>3, <2>4 DEF VoiceInv
<1> QED
    BY <1>6, <1>7, <1>8 DEF Lose

--------------------------------------------------------------------------------
(* What the page does with a reply. *)

\* The page of a call just placed or answered shows it; the call it showed
\* before is given up, and so is this one if the page is gone.
LEMMA ConnectVoice ==
    ASSUME VoiceInv, NEW r \in requests, Connect(r), UNCHANGED <<server, agents, rang, faults>>
    PROVE  VoiceInv'
<1>1. TypeOK /\ r \in Request /\ RequestOK(r) /\ Connects(r)
    BY DEF VoiceInv, CallInv, TypeOK, RequestInv, Connect, Connects
<1>2. r.id \in Calls /\ r.id # NoCall /\ r.id # page.call /\ server[r.id] \notin {"none", "RINGING"}
    BY <1>1 DEF RequestOK, Request
<1>3. requests' = requests \ {r} /\ astray' = astray
      /\ talk' = [talk EXCEPT ![r.id] = IF r.id \in agents THEN "opening" ELSE @]
    BY DEF Connect, Gone
<1>4. talk' \in [Calls -> Session] /\ (r.id \in agents => talk'[r.id] = "opening")
      /\ \A c \in Calls : talk'[c] # "none" => talk[c] # "none" \/ c \in agents
    BY <1>1, <1>2, <1>3 DEF TypeOK, Session
<1>5. CASE Here
  <2>1. page' = [page EXCEPT !.call = r.id, !.shows = "ACTIVE",
                             !.state = IF r.id \in agents THEN "connecting" ELSE "speaking"]
        /\ Excuse(active(page) /\ page.call # r.id, page.call)
      BY <1>5 DEF Connect, setPage
  <2>2. /\ page' \in Page /\ Here' /\ page'.call = r.id /\ page'.shows = "ACTIVE"
        /\ page'.state = IF r.id \in agents THEN "connecting" ELSE "speaking"
      BY <1>1, <1>2, <1>5, <2>1 DEF TypeOK, Page, AgentState, Here
  <2>3. active(page) => page.call \in Calls
      BY <1>5, ActivePage DEF active
  <2>4. excused' \subseteq Calls /\ excused \subseteq excused' /\ (active(page) => page.call \in excused')
      BY <1>1, <1>2, <2>1, <2>3 DEF Excuse, TypeOK
  <2>5. TypeOK'
      BY <1>1, <1>3, <1>4, <2>2, <2>4 DEF TypeOK
  <2>6. ASSUME NEW x \in requests, x # r, Connects(x) PROVE x.id # r.id
    <3>1. RequestOK(x) /\ x \in Request
        BY <1>1 DEF VoiceInv, CallInv, RequestInv, TypeOK
    <3>2. CASE x.op = r.op
        BY <1>1, <2>6, <3>1, <3>2 DEF Connects, Request
    <3>3. CASE x.op # r.op
        BY <1>1, <2>6, <3>1, <3>3 DEF Connects, RequestOK
    <3> QED
        BY <3>2, <3>3
  <2>7. RequestInv'
      BY <1>3, <1>5, <2>2, <2>4, <2>6 DEF VoiceInv, CallInv, RequestInv, RequestOK, Connects, Here
  <2>8. PageInv' /\ RangInv' /\ TalkInv'
      BY <1>2, <1>4, <2>2 DEF VoiceInv, CallInv, PageInv, RangInv, TalkInv
  <2>9. ActiveIsAccountedFor'
      BY <1>1, <1>3, <1>5, <2>2, <2>4
      DEF VoiceInv, CallInv, ActiveIsAccountedFor, Expected, Ending, active, Connects
  <2>10. StartedInv'
      BY <1>3, <1>5 DEF VoiceInv, ShownInv, StartedInv, Connects
  <2>11. ShownActiveIsActive'
    <3>1. r.op = "answer" => r.id \in rang
        BY <1>1 DEF RequestOK
    <3>2. r.op = "start" /\ r.id \notin agents => server[r.id] = "ACTIVE"
        BY <1>1, <1>5 DEF VoiceInv, ShownInv, StartedInv
    <3> QED
        BY <1>1, <2>2, <3>1, <3>2 DEF ShownActiveIsActive, Connects
  <2>12. ConsoleInv'
      BY <1>2, <1>4, <2>2 DEF ConsoleInv, NoConsoleWithoutCall, CauseInv
  <2> QED
      BY <2>5, <2>7, <2>8, <2>9, <2>10, <2>11, <2>12 DEF VoiceInv, CallInv, ShownInv
<1>6. CASE ~ Here
  <2>1. page' = page /\ SamePage /\ Excuse(TRUE, r.id)
      BY <1>6 DEF Connect, setPage, SamePage
  <2>2. excused' \subseteq Calls /\ excused \subseteq excused' /\ r.id \in excused'
      BY <1>1, <1>2, <2>1 DEF Excuse, TypeOK
  <2>3. TypeOK' /\ Onward /\ Changes
      BY <1>1, <1>3, <1>4, <2>1, <2>2 DEF TypeOK, Onward, Changes
  <2>4. CallInv' /\ ShownInv'
      BY <1>3, <2>1, <2>2, <2>3, GoneStep
  <2>5. ConsoleInv'
      BY <1>6, <2>1 DEF ConsoleInv, NoConsoleWithoutCall, CauseInv, Here
  <2> QED
      BY <2>4, <2>5 DEF VoiceInv
<1> QED
    BY <1>5, <1>6

\* A reply, a recording or a session that changes what the agent is shown to do.
LEMMA SettleStep ==
    ASSUME VoiceInv, requests' \subseteq requests,
           \A r \in requests \ requests' : r.st \in {"failed", "tail", "recording"} \/ r.op \in {"language", "stt"},
           NEW s \in AgentState, setState(s),
           talk' \in [Calls -> Session], \A c \in Calls : talk'[c] # "none" => talk[c] # "none",
           astray' \in BOOLEAN, UNCHANGED <<server, agents, rang, faults, excused>>
    PROVE  /\ CallInv' /\ ShownInv'
           /\ Here' <=> Here
           /\ page'.call = page.call /\ page'.shows = page.shows /\ (Here => page'.state = s)
<1>1. TypeOK
    BY DEF VoiceInv, CallInv
<1>2. page' \in Page /\ SamePage /\ (Here => page'.state = s)
    BY <1>1, SetState DEF SamePage
<1>3. TypeOK' /\ Onward /\ Changes
    BY <1>1, <1>2 DEF TypeOK, Onward, Changes
<1>4. CallInv' /\ ShownInv'
    BY <1>2, <1>3, GoneStep DEF Connects, Tells, Ends
<1> QED
    BY <1>2, <1>4 DEF SamePage, Here

\* What was meant for a call reaches the page that shows it, or is noted.
LEMMA Marked ==
    ASSUME TypeOK, NEW c \in Calls, Mark(c)
    PROVE  astray' \in BOOLEAN /\ (astray => astray') /\ (Here /\ ~ astray' => page.call = c)
BY DEF Mark, TypeOK

LEMMA SettleReplies ==
    ASSUME VoiceInv, NEW r \in requests, ConnectFails(r) \/ ApplyTail(r) \/ SpeakFails(r) \/ LanguageChanged(r),
           UNCHANGED <<server, agents, rang, faults>>
    PROVE  VoiceInv'
<1>1. TypeOK /\ r \in Request /\ RequestOK(r) /\ talk \in [Calls -> Session] /\ astray \in BOOLEAN
    BY DEF VoiceInv, CallInv, TypeOK, RequestInv
<1>2. requests' = requests \ {r} /\ UNCHANGED <<talk, excused>>
    BY DEF ConnectFails, ApplyTail, SpeakFails, LanguageChanged, Gone
<1>3. CASE ConnectFails(r)
  <2>1. r.st = "failed" /\ setState("idle") /\ UNCHANGED astray
      BY <1>3 DEF ConnectFails
  <2>2. CallInv' /\ ShownInv' /\ (Here' <=> Here) /\ (Here => page'.state = "idle")
      BY <1>1, <1>2, <2>1, SettleStep DEF AgentState
  <2>3. ConsoleInv'
      BY <2>2 DEF ConsoleInv, NoConsoleWithoutCall, CauseInv, phase
  <2> QED
      BY <2>2, <2>3 DEF VoiceInv
<1>4. CASE ApplyTail(r) \/ SpeakFails(r) \/ LanguageChanged(r)
  <2>1. PICK s \in {"ended", "listening", "speaking"} :
            setState(s) /\ Mark(r.id)
            /\ (r.st \in {"failed", "tail"} \/ r.op \in {"language", "stt"}) /\ r.op \in {"turn", "stt", "language"}
      BY <1>4 DEF ApplyTail, SpeakFails, LanguageChanged
  <2>2. r.id \in Calls /\ r.id # NoCall
      BY <1>1, <2>1 DEF RequestOK, Request
  <2>3. astray' \in BOOLEAN /\ (Here /\ ~ astray' => page.call = r.id)
      BY <1>1, <2>1, <2>2, Marked
  <2>4. /\ CallInv' /\ ShownInv' /\ (Here' <=> Here)
        /\ page'.call = page.call /\ (Here => page'.state = s)
      BY <1>1, <1>2, <2>1, <2>3, SettleStep DEF AgentState
  <2>5. ConsoleInv'
      BY <2>1, <2>2, <2>3, <2>4 DEF ConsoleInv, NoConsoleWithoutCall, CauseInv
  <2> QED
      BY <2>4, <2>5 DEF VoiceInv
<1> QED
    BY <1>3, <1>4

\* The reply of a turn, and the end of a call: the page marks over the call it
\* shows, which is the one they are for or is given up.
LEMMA OverStep ==
    ASSUME VoiceInv, NEW r \in requests, r.id \in Calls \cup {NoCall},
           Here, page' \in Page, Here', page'.call = page.call,
           page.call = NoCall => page'.shows = "none",
           page.call # NoCall => page'.shows \in Over,
           UNCHANGED <<server, agents, rang, talk, faults>>,
           excused' \subseteq Calls, excused \subseteq excused', astray' \in BOOLEAN,
           page.call \notin {NoCall, r.id} => page.call \in excused',
           page.call # NoCall /\ page.call = r.id => server[r.id] # "ACTIVE" \/ r.id \in excused,
           ~ Connects(r), ~ Ends(r),
           \/ requests' = requests \ {r}
           \/ \E q \in Request : /\ q.op = "turn" /\ q.st = "tail" /\ q.id = r.id /\ r.op = "turn"
                                 /\ r.st \in {"over", "moved"}
                                 /\ requests' = (requests \ {r}) \cup {q}
    PROVE  CallInv' /\ ShownInv'
<1>1. TypeOK /\ r \in Request /\ RequestOK(r)
    BY DEF VoiceInv, CallInv, TypeOK, RequestInv
<1>2. TypeOK'
    BY <1>1 DEF TypeOK
<1>3. RequestInv'
    BY <1>1 DEF VoiceInv, CallInv, RequestInv, RequestOK, Connects
<1>4. PageInv' /\ RangInv' /\ TalkInv'
    BY DEF VoiceInv, CallInv, PageInv, RangInv, TalkInv, Over
<1>5. ActiveIsAccountedFor'
  <2> SUFFICES ASSUME NEW c \in Calls, server[c] = "ACTIVE", c \notin excused'
               PROVE  Expected(c)' \/ Ending(c)'
      BY DEF ActiveIsAccountedFor
  <2>1. c # page.call
      BY DEF NoCall, Calls
  <2>2. Expected(c) \/ Ending(c)
      BY <2>1 DEF VoiceInv, CallInv, ActiveIsAccountedFor
  <2> QED
      BY <2>2 DEF Expected, Ending, Connects, Ends
<1>6. StartedInv'
  <2> SUFFICES ASSUME NEW x \in requests', x.op = "start", Connects(x), x.id \notin agents
               PROVE  server[x.id] = "ACTIVE" /\ \A q \in requests' : q.id = x.id => q = x
      BY DEF StartedInv, Connects
  <2>1. x \in requests /\ x # r
      BY DEF Connects
  <2>2. server[x.id] = "ACTIVE" /\ \A q \in requests : q.id = x.id => q = x
      BY <2>1 DEF VoiceInv, ShownInv, StartedInv
  <2> QED
      BY <2>1, <2>2
<1>7. ShownActiveIsActive'
    BY DEF ShownActiveIsActive, active, Over
<1> QED
    BY <1>2, <1>3, <1>4, <1>5, <1>6, <1>7 DEF CallInv, ShownInv

\* Without the page nothing but the requests and the server matters.
LEMMA AwayStep ==
    ASSUME VoiceInv, ~ Here, page' = page, UNCHANGED <<server, agents, rang, talk>>,
           TypeOK', excused \subseteq excused',
           \A r \in requests \ requests' : ~ Connects(r) /\ ~ Ends(r),
           \A q \in requests' \ requests : RequestOK(q)'
    PROVE  VoiceInv'
<1>1. ShownInv' /\ ConsoleInv'
    BY DEF ShownInv, StartedInv, ShownActiveIsActive, ConsoleInv, NoConsoleWithoutCall, CauseInv, Here
<1>2. RequestInv'
    BY DEF VoiceInv, CallInv, RequestInv, RequestOK, Connects, Here
<1>3. PageInv' /\ RangInv' /\ TalkInv'
    BY DEF VoiceInv, CallInv, PageInv, RangInv, TalkInv, Here
<1>4. ActiveIsAccountedFor'
    BY DEF VoiceInv, CallInv, ActiveIsAccountedFor, Expected, Ending, Connects, Ends, Here
<1> QED
    BY <1>1, <1>2, <1>3, <1>4 DEF VoiceInv, CallInv

LEMMA ApplyVoice ==
    ASSUME VoiceInv, NEW r \in requests, Apply(r), UNCHANGED <<server, agents, rang, faults>>
    PROVE  VoiceInv'
<1>1. TypeOK /\ r \in Request /\ RequestOK(r) /\ r.op = "turn" /\ r.st \in {"ok", "over", "moved"}
    BY DEF VoiceInv, CallInv, TypeOK, RequestInv, Apply
<1>2. r.id \in Calls /\ r.id # NoCall /\ page.call \in Calls \cup {NoCall}
    BY <1>1 DEF RequestOK, Request, TypeOK, Page
<1>3. talk' = talk /\ astray' \in BOOLEAN /\ (Here /\ ~ astray' => page.call = r.id)
    BY <1>1, <1>2, Marked DEF Apply
<1>4. /\ excused' \subseteq Calls /\ excused \subseteq excused'
      /\ Here /\ r.st # "ok" /\ page.call \notin {NoCall, r.id} => page.call \in excused'
    BY <1>1, <1>2 DEF Apply, Excuse, TypeOK
<1>5. /\ r.st = "ok" => requests' = requests \ {r}
      /\ r.st # "ok" => \E q \in Request : /\ q.op = "turn" /\ q.id = r.id /\ q.st = "tail"
                                           /\ requests' = (requests \ {r}) \cup {q}
    BY <1>1, ToRequest DEF Apply, Gone, Stages
<1>6. CASE Here
  <2>1. page' = [page EXCEPT !.state = "speaking",
                     !.shows = IF page.call = NoCall THEN @
                               ELSE CASE r.st = "ok" -> @ [] r.st = "over" -> "ENDED" [] OTHER -> "TRANSFERRED"]
      BY <1>6 DEF Apply, setPage
  <2>2. /\ page' \in Page /\ Here' /\ page'.call = page.call /\ page'.state = "speaking"
        /\ r.st = "ok" \/ page.call = NoCall => page'.shows = page.shows
        /\ r.st # "ok" /\ page.call # NoCall => page'.shows \in Over
      BY <1>1, <1>6, <2>1 DEF TypeOK, Page, AgentState, Over, Here
  <2>3. CallInv' /\ ShownInv'
    <3>1. CASE r.st = "ok"
      <4>1. TypeOK' /\ SamePage
          BY <1>1, <1>3, <1>4, <1>5, <1>6, <2>2, <3>1 DEF TypeOK, SamePage, Here
      <4>2. Onward /\ Changes
          BY <1>3, <1>4 DEF Onward, Changes
      <4> QED
          BY <1>1, <1>5, <3>1, <4>1, <4>2, GoneStep DEF Connects, Tells, Ends
    <3>2. CASE r.st # "ok"
      <4>1. server[r.id] \in Over
          BY <1>1, <3>2 DEF RequestOK
      <4>2. page.call = NoCall => page'.shows = "none"
          BY <2>2 DEF VoiceInv, CallInv, PageInv
      <4> QED
          BY <1>1, <1>2, <1>3, <1>4, <1>5, <1>6, <2>2, <3>2, <4>1, <4>2, OverStep DEF Connects, Ends, Over
    <3> QED
        BY <3>1, <3>2
  <2>4. ConsoleInv'
      BY <1>2, <1>3, <1>6, <2>2 DEF ConsoleInv, NoConsoleWithoutCall, CauseInv
  <2> QED
      BY <2>3, <2>4 DEF VoiceInv
<1>7. CASE ~ Here
  <2>1. page' = page
      BY <1>7 DEF Apply, setPage
  <2>2. TypeOK'
      BY <1>1, <1>3, <1>4, <1>5, <2>1 DEF TypeOK
  <2>3. \A q \in requests' \ requests : RequestOK(q)'
      BY <1>1, <1>2, <1>5, <2>1 DEF RequestOK, Connects
  <2>4. \A x \in requests \ requests' : ~ Connects(x) /\ ~ Ends(x)
      BY <1>1, <1>5 DEF Connects, Ends
  <2> QED
      BY <1>3, <1>4, <1>7, <2>1, <2>2, <2>3, <2>4, AwayStep
<1> QED
    BY <1>6, <1>7

LEMMA EndedVoice ==
    ASSUME VoiceInv, NEW r \in requests, Ended(r), UNCHANGED <<server, agents, rang, faults>>
    PROVE  VoiceInv'
<1>1. TypeOK /\ r \in Request /\ RequestOK(r) /\ r.op = "end" /\ r.st = "ok" /\ requests' = requests \ {r}
    BY DEF VoiceInv, CallInv, TypeOK, RequestInv, Ended, Gone
<1>2. r.id \in Calls \cup {NoCall} /\ page.call \in Calls \cup {NoCall}
    BY <1>1 DEF Request, TypeOK, Page
<1>3. talk' = talk /\ astray' \in BOOLEAN
    BY <1>1 DEF Ended, Mark, TypeOK
<1>4. /\ excused' \subseteq Calls /\ excused \subseteq excused'
      /\ Here /\ page.call \notin {NoCall, r.id} => page.call \in excused'
    BY <1>1, <1>2 DEF Ended, Excuse, TypeOK
<1>5. CASE Here
  <2>1. page' = [page EXCEPT !.state = "ended",
                     !.shows = IF page.call = NoCall \/ @ = "TRANSFERRED" THEN @ ELSE "ENDED"]
      BY <1>5 DEF Ended, setPage
  <2>2. /\ page' \in Page /\ Here' /\ page'.call = page.call /\ page'.state = "ended"
        /\ page.call = NoCall => page'.shows = page.shows
        /\ page.call # NoCall => page'.shows \in Over
      BY <1>1, <1>5, <2>1 DEF TypeOK, Page, AgentState, Over, Here
  <2>3. page.call = NoCall => page'.shows = "none"
      BY <2>2 DEF VoiceInv, CallInv, PageInv
  <2>4. r.id # NoCall => server[r.id] # "ACTIVE" \/ r.id \in excused
      BY <1>1 DEF RequestOK, Over
  <2>5. CallInv' /\ ShownInv'
      BY <1>1, <1>2, <1>3, <1>4, <1>5, <2>2, <2>3, <2>4, OverStep DEF Connects, Ends
  <2>6. ConsoleInv'
      BY <2>2 DEF ConsoleInv, NoConsoleWithoutCall, CauseInv, phase
  <2> QED
      BY <2>5, <2>6 DEF VoiceInv
<1>6. CASE ~ Here
  <2>1. page' = page
      BY <1>6 DEF Ended, setPage
  <2>2. TypeOK'
      BY <1>1, <1>3, <1>4, <2>1 DEF TypeOK
  <2> QED
      BY <1>1, <1>3, <1>4, <1>6, <2>1, <2>2, AwayStep DEF Connects, Ends
<1> QED
    BY <1>5, <1>6

\* The words of a recording become a turn of the call the page shows, or are
\* handed to a session, which is noted.
LEMMA TranscribedVoice ==
    ASSUME VoiceInv, NEW r \in requests, Transcribed(r), UNCHANGED <<server, agents, rang, faults>>
    PROVE  VoiceInv'
<1>1. TypeOK /\ r \in Request /\ RequestOK(r) /\ r.op = "stt" /\ r.st = "ok"
    BY DEF VoiceInv, CallInv, TypeOK, RequestInv, Transcribed
<1>2. talk' = talk /\ excused' = excused /\ astray' = (astray \/ (Here /\ (page.call # r.id \/ page.live # NoCall)))
    BY DEF Transcribed
<1>3. r.id # NoCall /\ page.call \in Calls \cup {NoCall} /\ astray' \in BOOLEAN
    BY <1>1, <1>2 DEF RequestOK, TypeOK, Page
<1>4. CASE page.call = NoCall \/ page.live # NoCall
  <2>1. requests' = requests \ {r} /\ page' = page
      BY <1>4 DEF Transcribed, Gone
  <2>2. TypeOK' /\ SamePage /\ Onward /\ Changes
      BY <1>1, <1>2, <1>3, <2>1 DEF TypeOK, SamePage, Onward, Changes
  <2>3. CallInv' /\ ShownInv'
      BY <1>1, <2>1, <2>2, GoneStep DEF Connects, Tells, Ends
  <2>4. ConsoleInv'
      BY <1>2, <1>3, <1>4, <2>1 DEF ConsoleInv, NoConsoleWithoutCall, CauseInv, Here
  <2> QED
      BY <2>3, <2>4 DEF VoiceInv
<1>5. CASE ~ (page.call = NoCall \/ page.live # NoCall)
  <2>1. requests' = (requests \ {r}) \cup {New("turn", page.call)} /\ setState("thinking")
      BY <1>5 DEF Transcribed
  <2>2. PICK q \in Request : /\ q.op = "turn" /\ q.id = page.call /\ q.st \in {"sent", "failed"}
                             /\ requests' = (requests \ {r}) \cup {q}
      BY <1>1, <1>3, <2>1, NewRequest DEF Operations
  <2>3. page' \in Page /\ SamePage
      BY <1>1, <2>1, SetState DEF AgentState, SamePage
  <2>4. TypeOK' /\ Onward /\ Changes
      BY <1>1, <1>2, <1>3, <2>2, <2>3 DEF TypeOK, Onward, Changes
  <2>5. Added \subseteq {q} /\ Removed = {r}
      BY <1>1, <2>2 DEF Added, Removed
  <2>6. RequestOK(q)'
      BY <1>5, <2>2 DEF VoiceInv, CallInv, PageInv, RequestOK, Connects
  <2>7. Incoming
      BY <2>2, <2>5, <2>6 DEF Incoming, Connects
  <2>8. Outgoing
      BY <1>1, <2>5 DEF Outgoing, Connects, Tells, Ends
  <2>9. CallInv' /\ ShownInv'
      BY <2>3, <2>4, <2>7, <2>8, QuietStep
  <2>10. Here => page'.state = "thinking"
      BY <1>1, <2>1, SetState DEF AgentState
  <2>11. ConsoleInv'
      BY <1>5, <2>2, <2>3, <2>10 DEF ConsoleInv, NoConsoleWithoutCall, CauseInv, SamePage, Here
  <2> QED
      BY <2>9, <2>11 DEF VoiceInv
<1> QED
    BY <1>4, <1>5

--------------------------------------------------------------------------------
(* Speech, recordings, sessions and the dial job. *)

LEMMA SpeechEndsVoice == ASSUME VoiceInv, SpeechEnds PROVE VoiceInv'
<1>1. TypeOK /\ talk \in [Calls -> Session] /\ astray \in BOOLEAN
    BY DEF VoiceInv, CallInv, TypeOK
<1>2. /\ Here /\ page.state = "speaking" /\ setState("listening")
      /\ UNCHANGED <<server, agents, rang, talk, requests, faults, excused, astray>>
    BY DEF SpeechEnds
<1>3. /\ CallInv' /\ ShownInv' /\ Here'
      /\ page'.call = page.call /\ page'.shows = page.shows /\ page'.state = "listening"
    BY <1>1, <1>2, SettleStep DEF AgentState
<1>4. ConsoleInv'
    BY <1>2, <1>3 DEF VoiceInv, ConsoleInv, NoConsoleWithoutCall, CauseInv, phase, callEnded
<1> QED
    BY <1>3, <1>4 DEF VoiceInv

LEMMA StopRecordingVoice ==
    ASSUME VoiceInv, NEW r \in requests, StopRecording(r)
    PROVE  VoiceInv'
<1>1. TypeOK /\ r \in Request /\ RequestOK(r) /\ r.op = "stt" /\ r.st = "recording"
    BY DEF VoiceInv, CallInv, TypeOK, RequestInv, StopRecording
<1>2. r.id \in Calls /\ r.id # NoCall
    BY <1>1 DEF RequestOK, Request
<1>3. UNCHANGED <<server, agents, rang, talk, faults, excused>>
    BY DEF StopRecording
<1>4. CASE Gone(r) /\ UNCHANGED <<page, astray>>
  <2>1. requests' = requests \ {r} /\ UNCHANGED <<page, astray>>
      BY <1>4 DEF Gone
  <2>2. TypeOK' /\ SamePage /\ Onward /\ Changes
      BY <1>1, <1>3, <2>1 DEF TypeOK, SamePage, Onward, Changes
  <2>3. CallInv' /\ ShownInv'
      BY <1>1, <2>1, <2>2, GoneStep DEF Connects, Tells, Ends
  <2>4. ConsoleInv'
      BY <1>1, <1>3, <2>1 DEF VoiceInv, ConsoleInv, NoConsoleWithoutCall, CauseInv, Here
  <2> QED
      BY <2>3, <2>4 DEF VoiceInv
<1>5. CASE /\ To(r, IF page.where = "signed_out" THEN "failed" ELSE "sent")
           /\ setState("thinking") /\ Mark(r.id)
  <2>1. PICK q \in Request : /\ q.op = "stt" /\ q.id = r.id /\ q.st \in {"sent", "failed"}
                             /\ requests' = (requests \ {r}) \cup {q}
      BY <1>1, <1>5, ToRequest DEF Stages
  <2>2. page' \in Page /\ SamePage /\ (Here => page'.state = "thinking")
      BY <1>1, <1>5, SetState DEF AgentState, SamePage
  <2>3. astray' \in BOOLEAN /\ (Here /\ ~ astray' => page.call = r.id)
      BY <1>1, <1>2, <1>5, Marked
  <2>4. TypeOK' /\ Onward /\ Changes
      BY <1>1, <1>3, <2>1, <2>2, <2>3 DEF TypeOK, Onward, Changes
  <2>5. RequestOK(q)'
      BY <1>1, <1>3, <2>1 DEF RequestOK, Connects
  <2>6. CallInv' /\ ShownInv'
      BY <1>1, <2>1, <2>2, <2>4, <2>5, StageStep DEF Connects, Tells, Ends
  <2>7. ConsoleInv'
      BY <1>2, <2>1, <2>2, <2>3 DEF ConsoleInv, NoConsoleWithoutCall, CauseInv, SamePage, Here
  <2> QED
      BY <2>6, <2>7 DEF VoiceInv
<1> QED
    BY <1>4, <1>5 DEF StopRecording

LEMMA SessionOpensVoice == ASSUME VoiceInv, NEW c \in Calls, SessionOpens(c) PROVE VoiceInv'
<1>1. TypeOK
    BY DEF VoiceInv, CallInv
<1>2. /\ talk[c] = "opening" /\ talk' = [talk EXCEPT ![c] = "open"]
      /\ page' = [page EXCEPT !.live = c, !.state = IF Here THEN "listening" ELSE @]
      /\ UNCHANGED <<server, agents, rang, requests, faults, excused>>
    BY DEF SessionOpens
<1>3. astray' \in BOOLEAN /\ (Here /\ ~ astray' => page.call = c)
    BY <1>1, Marked DEF SessionOpens
<1>4. page' \in Page /\ SamePage /\ (Here => page'.state = "listening")
    BY <1>1, <1>2 DEF TypeOK, Page, AgentState, SamePage
<1>5. talk' \in [Calls -> Session] /\ \A d \in Calls : talk'[d] # "none" => talk[d] # "none"
    BY <1>1, <1>2 DEF TypeOK, Session
<1>6. TypeOK' /\ Onward /\ Changes
    BY <1>1, <1>2, <1>3, <1>4, <1>5 DEF TypeOK, Onward, Changes
<1>7. CallInv' /\ ShownInv'
    BY <1>2, <1>4, <1>6, GoneStep
<1>8. ConsoleInv'
    BY <1>3, <1>4 DEF ConsoleInv, NoConsoleWithoutCall, CauseInv, SamePage, Here, NoCall, Calls
<1> QED
    BY <1>7, <1>8 DEF VoiceInv

LEMMA SessionVoice ==
    ASSUME VoiceInv, NEW c \in Calls, SessionFails(c) \/ ModeChanges(c) \/ Disconnects(c)
    PROVE  VoiceInv'
<1>1. TypeOK
    BY DEF VoiceInv, CallInv
<1>2. UNCHANGED <<server, agents, rang, requests, faults, excused>>
    BY DEF SessionFails, ModeChanges, Disconnects
<1>3. astray' \in BOOLEAN /\ (Here /\ ~ astray' => page.call = c)
    BY <1>1, Marked DEF SessionFails, ModeChanges, Disconnects
<1>4. PICK s \in {"ended", "speaking", "listening"} : setState(s)
    BY DEF SessionFails, ModeChanges, Disconnects
<1>5. talk' \in [Calls -> Session] /\ \A d \in Calls : talk'[d] # "none" => talk[d] # "none"
    BY <1>1 DEF SessionFails, ModeChanges, Disconnects, TypeOK, Session
<1>6. /\ CallInv' /\ ShownInv' /\ (Here' <=> Here)
      /\ page'.call = page.call /\ (Here => page'.state = s)
    BY <1>2, <1>3, <1>4, <1>5, SettleStep DEF AgentState
<1>7. ConsoleInv'
    BY <1>3, <1>6 DEF ConsoleInv, NoConsoleWithoutCall, CauseInv, NoCall, Calls
<1> QED
    BY <1>6, <1>7 DEF VoiceInv

\* A call begins to ring, or is over, without the page.
LEMMA ServerStep ==
    ASSUME VoiceInv, NEW c \in Calls, NEW s \in {"RINGING", "ENDED", "TRANSFERRED"},
           server' = [server EXCEPT ![c] = s],
           s = "RINGING" => server[c] = "none", server[c] \notin Over,
           server[c] = "ACTIVE" => c \in agents,
           rang' = rang \/ (server[c] = "none" /\ rang' = rang \cup {c}),
           UNCHANGED <<agents, talk, page, requests, faults, excused, astray>>
    PROVE  VoiceInv'
<1>1. TypeOK
    BY DEF VoiceInv, CallInv
<1>2. server' \in [Calls -> CallState] /\ server'[c] = s /\ \A d \in Calls : d # c => server'[d] = server[d]
    BY <1>1 DEF TypeOK, CallState
<1>3. TypeOK' /\ SamePage
    BY <1>1, <1>2 DEF TypeOK, SamePage
<1>4. Onward
    BY <1>2 DEF Onward, Over
<1>5. Changes
    BY <1>2 DEF Changes
<1>6. CallInv' /\ ShownInv'
    BY <1>3, <1>4, <1>5, GoneStep
<1>7. ConsoleInv'
    BY DEF VoiceInv, ConsoleInv, NoConsoleWithoutCall, CauseInv, Here
<1> QED
    BY <1>6, <1>7 DEF VoiceInv

LEMMA ServerVoice ==
    ASSUME VoiceInv, NEW c \in Calls, AgentTransfers(c) \/ PostCall(c) \/ Ring(c) \/ Sweep(c)
    PROVE  VoiceInv'
<1>1. CASE AgentTransfers(c)
  <2>1. talk[c] = "open" /\ server[c] = "ACTIVE" /\ server' = [server EXCEPT ![c] = "TRANSFERRED"]
        /\ UNCHANGED <<agents, rang, talk, page, requests, faults, excused, astray>>
      BY <1>1 DEF AgentTransfers
  <2>2. c \in agents
      BY <2>1 DEF VoiceInv, CallInv, TalkInv
  <2> QED
      BY <2>1, <2>2, ServerStep DEF Over
<1>2. CASE PostCall(c)
    BY <1>2, ServerStep DEF PostCall, Over
<1>3. CASE Ring(c)
    BY <1>3, ServerStep DEF Ring, Unused, Over
<1>4. CASE Sweep(c)
    BY <1>4, ServerStep DEF Sweep, Over
<1> QED
    BY <1>1, <1>2, <1>3, <1>4

--------------------------------------------------------------------------------
(* The whole system. *)

LEMMA NextVoice == VoiceInv /\ [Next]_vars => VoiceInv'
<1> SUFFICES ASSUME VoiceInv, [Next]_vars PROVE VoiceInv'
    OBVIOUS
<1>1. CASE UNCHANGED vars
    BY <1>1 DEF vars, VoiceInv, CallInv, TypeOK, RequestInv, RequestOK, Connects, PageInv, RangInv, TalkInv,
                ActiveIsAccountedFor, Expected, Ending, ShownInv, StartedInv, ShownActiveIsActive,
                ConsoleInv, NoConsoleWithoutCall, CauseInv, Here
<1>2. CASE Start \/ Speak \/ ChangeLanguage \/ Listen \/ End \/ Reset \/ Leave \/ SpeechEnds
    BY <1>2, StartVoice, SpeakVoice, LanguageVoice, ListenVoice, EndVoice, ResetVoice, LeaveVoice, SpeechEndsVoice
<1>3. ASSUME NEW r \in requests, Handle(r) \/ TurnCommits(r) \/ Lose(r) \/ Receive(r) \/ StopRecording(r)
      PROVE  VoiceInv'
  <2>1. CASE Handle(r)
      BY <2>1, HandleStartVoice, HandleAnswerVoice, TurnReadsVoice, HandleOtherVoice, HandleEndVoice DEF Handle
  <2>2. CASE Receive(r)
      BY <2>2, ConnectVoice, SettleReplies, ApplyVoice, TranscribedVoice, EndedVoice DEF Receive
  <2> QED
      BY <1>3, <2>1, <2>2, TurnCommitsVoice, LoseVoice, StopRecordingVoice
<1>4. ASSUME NEW c \in Calls,
             \/ Answer(c) \/ Decline(c) \/ Ring(c) \/ Sweep(c)
             \/ SessionOpens(c) \/ SessionFails(c) \/ ModeChanges(c) \/ Disconnects(c)
             \/ AgentTransfers(c) \/ PostCall(c)
      PROVE  VoiceInv'
    BY <1>4, AnswerVoice, DeclineVoice, SessionOpensVoice, SessionVoice, ServerVoice
<1> QED
    BY <1>1, <1>2, <1>3, <1>4 DEF Next

LEMMA VoiceInvariant == Spec => []VoiceInv
BY InitVoice, NextVoice, PTL DEF Spec

\* Every variable has its type: the page, its requests and the sessions never
\* hold a value the code does not know.
THEOREM VoiceTypes == Spec => []TypeOK
<1>1. VoiceInv => TypeOK
    BY DEF VoiceInv, CallInv
<1> QED
    BY <1>1, VoiceInvariant, PTL

\* A call that is ACTIVE on the server is shown, about to be shown or being
\* ended, or it is one of those the page is known to have lost.
THEOREM ActiveCallAccounted == Spec => []ActiveIsAccountedFor
<1>1. VoiceInv => ActiveIsAccountedFor
    BY DEF VoiceInv, CallInv
<1> QED
    BY <1>1, VoiceInvariant, PTL

\* A call the page shows ACTIVE is so on the server, or the reply that says
\* otherwise is under way, or the call is one the page cannot know about.
THEOREM ShownActive == Spec => []ShownActiveIsActive
<1>1. VoiceInv => ShownActiveIsActive
    BY DEF VoiceInv, ShownInv
<1> QED
    BY <1>1, VoiceInvariant, PTL

\* The console is shown with a call, while one is being placed, or after
\* something meant for another call.
THEOREM NoEmptyConsole == Spec => []NoConsoleWithoutCall
<1>1. VoiceInv => NoConsoleWithoutCall
    BY DEF VoiceInv, ConsoleInv
<1> QED
    BY <1>1, VoiceInvariant, PTL

\* Disabled controls always have something under way that enables them.
THEOREM ControlsComeBack == Spec => []NeverStuck
<1>1. VoiceInv => NeverStuck
    BY DEF VoiceInv, ConsoleInv, CauseInv, NeverStuck, busy
<1> QED
    BY <1>1, VoiceInvariant, PTL

\* Only a page that begins anew, leaves or learns of a call changes what it
\* shows of one; none of these shows a call going on that was over.
LEMMA EndedStep ==
    ASSUME VoiceInv, [Next]_vars, callEnded(page), Here', page'.call = page.call
    PROVE  callEnded(page')
<1>1. TypeOK /\ page \in Page
    BY DEF VoiceInv, CallInv, TypeOK
<1>2. SUFFICES page'.shows = page.shows \/ page'.shows \in Over
    BY DEF callEnded
<1>3. ASSUME NEW s \in AgentState, setState(s) PROVE page'.shows = page.shows
    BY <1>1, <1>3, SetState
<1>4. CASE UNCHANGED vars
    BY <1>4 DEF vars
<1>5. CASE Start \/ Speak \/ Listen \/ SpeechEnds
    BY <1>3, <1>5 DEF Start, Speak, Listen, SpeechEnds, AgentState
<1>6. CASE ChangeLanguage \/ End
    BY <1>1, <1>6 DEF ChangeLanguage, End, setPage, Page
<1>7. CASE Reset
  <2>1. page' = [page EXCEPT !.call = NoCall, !.shows = "none", !.state = "idle"]
      BY <1>7 DEF Reset, setPage
  <2>2. page.call # NoCall
      BY DEF VoiceInv, CallInv, PageInv, callEnded, Over
  <2> QED
      BY <1>1, <2>1, <2>2 DEF Page
<1>8. CASE Leave
    BY <1>1, <1>8 DEF Leave, Here, Page
<1>9. ASSUME NEW r \in requests, Handle(r) \/ TurnCommits(r) \/ Lose(r) PROVE page' = page
    BY <1>9 DEF Handle, HandleStart, HandleAnswer, TurnReads, HandleOther, HandleEnd, TurnCommits, Lose
<1>10. ASSUME NEW r \in requests, Receive(r) PROVE page'.shows = page.shows \/ page'.shows \in Over
  <2>1. RequestOK(r)
      BY DEF VoiceInv, CallInv, RequestInv
  <2>2. CASE Connect(r)
      BY <1>1, <2>1, <2>2 DEF Connect, Connects, setPage, RequestOK, Page
  <2>3. CASE ConnectFails(r) \/ ApplyTail(r) \/ SpeakFails(r) \/ LanguageChanged(r)
      BY <1>3, <2>3 DEF ConnectFails, ApplyTail, SpeakFails, LanguageChanged, AgentState
  <2>4. CASE Apply(r) \/ Ended(r)
      BY <1>1, <2>4 DEF Apply, Ended, setPage, Over, Page
  <2>5. CASE Transcribed(r)
      BY <1>3, <2>5 DEF Transcribed, AgentState
  <2> QED
      BY <1>10, <2>2, <2>3, <2>4, <2>5 DEF Receive
<1>11. ASSUME NEW r \in requests, StopRecording(r) PROVE page'.shows = page.shows
    BY <1>3, <1>11 DEF StopRecording, AgentState
<1>12. ASSUME NEW c \in Calls, Answer(c) PROVE page'.shows = page.shows
    BY <1>1, <1>3, <1>12 DEF Answer, setPage, AgentState, Page
<1>13. ASSUME NEW c \in Calls, Decline(c) \/ Ring(c) \/ Sweep(c) \/ AgentTransfers(c) \/ PostCall(c)
       PROVE  page' = page
    BY <1>13 DEF Decline, Ring, Sweep, AgentTransfers, PostCall
<1>14. ASSUME NEW c \in Calls, SessionOpens(c) PROVE page'.shows = page.shows
    BY <1>1, <1>14 DEF SessionOpens, Page
<1>15. ASSUME NEW c \in Calls, SessionFails(c) \/ ModeChanges(c) \/ Disconnects(c)
       PROVE  page'.shows = page.shows
    BY <1>3, <1>15 DEF SessionFails, ModeChanges, Disconnects, AgentState
<1> QED
    BY <1>4, <1>5, <1>6, <1>7, <1>8, <1>9, <1>10, <1>11, <1>12, <1>13, <1>14, <1>15 DEF Next

\* A call the page showed to be over is never shown going on again, whatever
\* replies and sessions are still to come.
THEOREM EndedForGood == Spec => EndedStaysEnded
<1>1. VoiceInv /\ [Next]_vars => [callEnded(page) /\ Here' /\ page'.call = page.call => callEnded(page')]_vars
    BY EndedStep
<1> QED
    BY <1>1, VoiceInvariant, PTL DEF Spec, EndedStaysEnded

================================================================================
