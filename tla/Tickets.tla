------------------------------ MODULE Tickets ------------------------------
(***************************************************************************)
(* Support tickets (vp-engine/internal/payments/tickets.go and             *)
(* twilio_support.go): tickets opened by members, mails, WhatsApp messages *)
(* and calls, their assignment to agents, the drafts of the support AI and *)
(* the answers.  Every statement on the database is a step of its own;     *)
(* between two of them other requests run, and any request may stop.       *)
(*                                                                         *)
(* Texts are kept by what may be done with them: "human" is what an        *)
(* administrator wrote, "help" what the AI answered, "unsafe" what it      *)
(* answered while it asked for a person to take over.                      *)
(***************************************************************************)
EXTENDS Naturals, Sequences, FiniteSets

CONSTANTS
  Mails, Chats, Calls,         \* message ids of mails and WhatsApp messages; calls
  Speeches,                    \* what is said in a call
  Agents, MaxOpen,             \* support agents, max_open_tickets
  Workers,                     \* requests being served
  AutoDraft, AutoReply,        \* supportAIAutoDraft, supportAIAutoReply
  MaxTurns,                    \* voiceAgentMaxTurns
  MaxTickets, MaxRequests,     \* bounds
  NoAgent, NoMessage

ASSUME TicketsAssumption ==
  /\ AutoDraft \in BOOLEAN /\ AutoReply \in BOOLEAN
  /\ MaxOpen \in Nat /\ MaxTurns \in Nat \ {0} /\ MaxTickets \in Nat /\ MaxRequests \in Nat
  /\ NoAgent \notin Agents /\ NoMessage \notin Mails \cup Chats \cup Calls

VARIABLES
  ticket,                      \* support.ticket
  call,                        \* support.call_session
  active,                      \* active agents
  work,                        \* the requests in progress
  told,                        \* texts of the AI that reached a person without an administrator
  requests                     \* requests served (bounded)

ticketVars == <<ticket, call, active, work, told, requests>>

NoDraft == [status |-> "none", text |-> ""]
NoCall == [known |-> FALSE, ticket |-> 0, turns |-> 0, status |-> "in_progress",
           transcript |-> {}, first |-> {}]
Idle == [pc |-> "idle", kind |-> "", message |-> NoMessage, ticket |-> 0, support |-> TRUE,
         speech |-> {}, turns |-> 0, agent |-> NoAgent, draft |-> NoDraft, result |-> NoDraft]

TicketsInit ==
  /\ ticket = <<>>
  /\ call = [c \in Calls |-> NoCall]
  /\ active = Agents
  /\ work = [w \in Workers |-> Idle]
  /\ told = {}
  /\ requests = 0

Tickets == DOMAIN ticket
At(w, pc) == work[w].pc = pc
Step(w, to) == work' = [work EXCEPT ![w] = to]
Goes(w, pc) == Step(w, [work[w] EXCEPT !.pc = pc])

\* A request arrives at a free worker.
Serves(w, job) ==
  /\ At(w, "idle") /\ requests < MaxRequests
  /\ requests' = requests + 1
  /\ Step(w, job)

-----------------------------------------------------------------------------
(* Requests.                                                               *)

\* classifySupportTicket: what the words of a text make of it.
Verdicts == BOOLEAN

OpensTicket(w, kind, message, support) ==
  /\ Serves(w, [Idle EXCEPT !.pc = "create", !.kind = kind, !.message = message, !.support = support])
  /\ UNCHANGED <<ticket, call, active, told>>

MemberTicket(w, support) == OpensTicket(w, "member", NoMessage, support)

\* Somebody who receives no access code; the text is the program's.
AccessHelp(w) == OpensTicket(w, "member", NoMessage, TRUE)

\* A mail or WhatsApp message that passes the filter; both are delivered again at will.
MailArrives(w, m) == OpensTicket(w, "mail", m, TRUE)
ChatArrives(w, m) == OpensTicket(w, "chat", m, TRUE)

Upserted(c) == IF call[c].known THEN call[c] ELSE [NoCall EXCEPT !.known = TRUE]

CallStarts(c) ==
  /\ call' = [call EXCEPT ![c] = Upserted(c)]
  /\ UNCHANGED <<ticket, active, work, told, requests>>

\* A turn of a call; the session is read here.
TurnArrives(w, c, s, kind, support) ==
  /\ LET seen == Upserted(c)
         about == support \/ seen.ticket # 0
     IN /\ Serves(w, [Idle EXCEPT !.kind = kind, !.message = c, !.speech = {s},
                        !.ticket = seen.ticket, !.turns = seen.turns,
                        !.pc = IF ~about THEN "turn" ELSE IF seen.ticket = 0 THEN "create" ELSE "append"])
        /\ call' = [call EXCEPT ![c] =
             IF seen.ticket = 0 THEN [seen EXCEPT !.first = @ \cup {s}] ELSE seen]
  /\ UNCHANGED <<ticket, active, told>>

\* Twilio's gather only goes on with what is support; the voice agent brings everything.
TwilioTurn(w, c, s) == TurnArrives(w, c, s, "twilio", TRUE)
AgentTurn(w, c, s, support) == TurnArrives(w, c, s, "agent", support)

\* The caller says goodbye, or Twilio reports the end.
CallEnds(c) ==
  /\ call[c].known
  /\ call' = [call EXCEPT ![c].status = "completed"]
  /\ UNCHANGED <<ticket, active, work, told, requests>>

AdminDrafts(w, t) ==
  /\ Serves(w, [Idle EXCEPT !.pc = "read", !.kind = "draft", !.ticket = t])
  /\ UNCHANGED <<ticket, call, active, told>>

AdminAutoAssigns(w, t) ==
  /\ Serves(w, [Idle EXCEPT !.pc = "choose", !.kind = "assignment", !.ticket = t])
  /\ UNCHANGED <<ticket, call, active, told>>

AdminSends(w, t) ==
  /\ Serves(w, [Idle EXCEPT !.pc = "read", !.kind = "send", !.ticket = t])
  /\ UNCHANGED <<ticket, call, active, told>>

-----------------------------------------------------------------------------
(* CreateTicketWithSource and the assignment.                              *)

\* Bug: two tickets for one message.
BugOf(m) == {}

\* The ticket of a message: the unique index on inbound_message_id.
Of(m) == IF m = NoMessage THEN {} ELSE {t \in Tickets : ticket[t].message = m}

Create(w) ==
  /\ At(w, "create")
  /\ LET in == work[w]
         old == Of(in.message)
         new == [message |-> in.message, support |-> in.support, status |-> "open", agent |-> NoAgent,
                 draft |-> NoDraft, answer |-> "", body |-> in.speech]
     IN IF old = {}
        THEN /\ Len(ticket) < MaxTickets
             /\ ticket' = Append(ticket, new)
             /\ Step(w, [in EXCEPT !.pc = "choose", !.ticket = Len(ticket) + 1])
        ELSE \E t \in old :
               /\ Step(w, [in EXCEPT !.ticket = t, !.draft = ticket[t].draft,
                                     !.pc = IF ticket[t].agent = NoAgent THEN "choose" ELSE "assigned"])
               /\ UNCHANGED ticket
  /\ UNCHANGED <<call, active, told, requests>>

Open(a) == Cardinality({t \in Tickets : ticket[t].agent = a /\ ticket[t].status = "open"})
Free == {a \in active : Open(a) < MaxOpen}

\* AutoAssignTicket: the agent of the statement's snapshot, then the update.
Choose(w) ==
  /\ At(w, "choose")
  /\ \/ Free = {} /\ Goes(w, "assigned")
     \/ \E a \in Free : /\ \A b \in Free : Open(a) <= Open(b)
                        /\ Step(w, [work[w] EXCEPT !.pc = "assign", !.agent = a])
  /\ UNCHANGED <<ticket, call, active, told, requests>>

Assign(w) ==
  /\ At(w, "assign")
  /\ LET in == work[w] IN
     /\ ticket' = [ticket EXCEPT ![in.ticket].agent = in.agent]
     /\ Step(w, [in EXCEPT !.pc = "assigned", !.draft = ticket[in.ticket].draft])
  /\ UNCHANGED <<call, active, told, requests>>

\* Requests the AI drafts on its own.
Drafted == IF AutoDraft THEN {"mail", "member"} ELSE {}

\* What follows the assignment, by the kind of request.
Assigned(w) ==
  /\ At(w, "assigned")
  /\ CASE work[w].kind \in {"twilio", "agent"} -> Goes(w, "link")
       [] work[w].kind = "escalatedTurn" -> Goes(w, "turn")
       [] work[w].kind \in {"chat"} \cup Drafted -> Goes(w, "read")
       [] work[w].kind \in {"escalated", "mail"} \ Drafted -> Goes(w, "reply")
       [] OTHER -> Step(w, Idle)
  /\ UNCHANGED <<ticket, call, active, told, requests>>

-----------------------------------------------------------------------------
(* Turns of a call (handleTwilioVoiceProcess, handleInternalVoiceTurn).    *)

Link(w) ==
  /\ At(w, "link")
  /\ call' = [call EXCEPT ![work[w].message].ticket = work[w].ticket]
  /\ Goes(w, "ask")
  /\ UNCHANGED <<ticket, active, told, requests>>

AppendBody(w) ==
  /\ At(w, "append")
  /\ ticket' = [ticket EXCEPT ![work[w].ticket].body = @ \cup work[w].speech]
  /\ Goes(w, "ask")
  /\ UNCHANGED <<call, active, told, requests>>

\* A turn that ends the call: the last one Twilio's gather allows, or what the agent says.
Final(w, final) == IF work[w].kind = "agent" THEN final ELSE work[w].turns + 1 >= MaxTurns

\* AppendCallTurn: the status is that of this turn, whatever the session's became.
Turn(w, final) ==
  /\ At(w, "turn")
  /\ LET c == work[w].message
     IN call' = [call EXCEPT ![c].transcript = @ \cup work[w].speech, ![c].turns = @ + 1,
                             ![c].status = IF Final(w, final) THEN "completed" ELSE "in_progress"]
  /\ Step(w, Idle)
  /\ UNCHANGED <<ticket, active, told, requests>>

-----------------------------------------------------------------------------
(* The support AI: DraftTicketAI, SendTicketAIDraft, ReplyTicket.          *)

\* Bug: any draft with a text may be sent.
BugReady(d) == d.text # ""
Ready(d) == d.status = "drafted" /\ d.text # ""

\* GetTicket, and what the ticket allows.
Read(w) ==
  /\ At(w, "read")
  /\ LET in == work[w]
         t == ticket[in.ticket]
     IN IF in.kind = "send"
        THEN Step(w, IF t.support /\ Ready(t.draft)
                     THEN [in EXCEPT !.pc = "reply", !.draft = t.draft] ELSE Idle)
        ELSE Goes(w, IF t.support THEN "ask" ELSE "blocked")
  /\ UNCHANGED <<ticket, call, active, told, requests>>

Answers == {[status |-> "drafted", text |-> "help"], [status |-> "escalate", text |-> "unsafe"]}
Failed == [status |-> "error", text |-> ""]

\* voiceAnswerText: a fixed text when the AI escalates or has none.
Heard(d) == IF d.status = "drafted" THEN {d.text} ELSE {}

\* The AI answers or the request to it fails; the next statement saves what came of it.
\* A turn of the voice agent brings its answer along, or none.
Ask(w) ==
  /\ At(w, "ask")
  /\ \/ \E d \in Answers \cup (IF work[w].kind = "agent" THEN {} ELSE {Failed}) :
          /\ Step(w, [work[w] EXCEPT !.pc = "save", !.result = d])
          /\ told' = IF work[w].kind = "twilio" THEN told \cup Heard(d) ELSE told
     \/ work[w].kind = "agent" /\ Goes(w, "turn") /\ UNCHANGED told
  /\ UNCHANGED <<ticket, call, active, requests>>

Block(w) ==
  /\ At(w, "blocked")
  /\ ticket' = [ticket EXCEPT ![work[w].ticket].draft = [status |-> "blocked", text |-> ""]]
  /\ Step(w, Idle)
  /\ UNCHANGED <<call, active, told, requests>>

\* notifyEscalatedTicket: a person is looked for when there is none.
Escalated(in) == in.result.status = "escalate" /\ ticket[in.ticket].agent = NoAgent

\* SaveTicketAIDraft; an escalated ticket nobody has is assigned again.  A mail whose
\* draft failed goes on with the ticket as it was.
SaveDraft(w) ==
  /\ At(w, "save")
  /\ LET in == [work[w] EXCEPT !.draft = IF work[w].kind = "mail" /\ work[w].result = Failed
                                        THEN @ ELSE work[w].result]
         turn == in.kind \in {"twilio", "agent"}
         hand == Escalated(in)
     IN /\ ticket' = [ticket EXCEPT ![in.ticket].draft = in.result]
        /\ CASE turn /\ hand -> Step(w, [in EXCEPT !.pc = "choose", !.kind = "escalatedTurn"])
             [] turn /\ ~hand -> Step(w, [in EXCEPT !.pc = "turn"])
             [] ~turn /\ hand -> Step(w, [in EXCEPT !.pc = "choose",
                                   !.kind = IF in.kind = "mail" THEN "escalated" ELSE "handed"])
             [] ~turn /\ ~hand /\ in.kind \in {"mail", "chat"} -> Step(w, [in EXCEPT !.pc = "reply"])
             [] OTHER -> Step(w, Idle)
  /\ UNCHANGED <<call, active, told, requests>>

\* What the AI answers goes out without an administrator.
Automatic(in) == AutoReply /\ ticket[in.ticket].support /\ Ready(in.draft)

\* ReplyTicket: by the administrator who sends the draft, or on its own for a mail; the
\* answer of a WhatsApp message goes out in the response.
Reply(w) ==
  /\ At(w, "reply")
  /\ LET in == work[w]
         auto == Automatic(in)
     IN /\ ticket' = IF in.kind = "send" \/ (auto /\ in.kind # "chat")
                     THEN [ticket EXCEPT ![in.ticket].answer = in.draft.text, ![in.ticket].status = "answered"]
                     ELSE ticket
        /\ told' = IF auto /\ in.kind # "send" THEN told \cup {in.draft.text} ELSE told
  /\ Step(w, Idle)
  /\ UNCHANGED <<call, active, requests>>

\* A request stops half way.
Stops(w) ==
  /\ work[w].pc # "idle"
  /\ Step(w, Idle)
  /\ UNCHANGED <<ticket, call, active, told, requests>>

-----------------------------------------------------------------------------
(* What an administrator does in one statement.                            *)

AdminReplies(t) ==
  /\ ticket' = [ticket EXCEPT ![t].answer = "human", ![t].status = "answered"]
  /\ UNCHANGED <<call, active, work, told, requests>>

SetStatus(t, status) ==
  /\ ticket' = [ticket EXCEPT ![t].status = status]
  /\ UNCHANGED <<call, active, work, told, requests>>

AdminAssigns(t, a) ==
  /\ a \in active \cup {NoAgent}
  /\ ticket' = [ticket EXCEPT ![t].agent = a]
  /\ UNCHANGED <<call, active, work, told, requests>>

UpsertAgent(a) ==
  /\ active' = IF a \in active THEN active \ {a} ELSE active \cup {a}
  /\ UNCHANGED <<ticket, call, work, told, requests>>

TicketsNext ==
  \/ \E w \in Workers :
       \/ \E support \in Verdicts : MemberTicket(w, support)
       \/ AccessHelp(w)
       \/ \E m \in Mails : MailArrives(w, m)
       \/ \E m \in Chats : ChatArrives(w, m)
       \/ \E c \in Calls, s \in Speeches :
            TwilioTurn(w, c, s) \/ \E support \in Verdicts : AgentTurn(w, c, s, support)
       \/ \E t \in Tickets : AdminDrafts(w, t) \/ AdminSends(w, t) \/ AdminAutoAssigns(w, t)
       \/ Create(w) \/ Choose(w) \/ Assign(w) \/ Assigned(w)
       \/ Link(w) \/ AppendBody(w) \/ \E final \in BOOLEAN : Turn(w, final)
       \/ Read(w) \/ Ask(w) \/ Block(w) \/ SaveDraft(w) \/ Reply(w) \/ Stops(w)
  \/ \E c \in Calls : CallStarts(c) \/ CallEnds(c)
  \/ \E t \in Tickets :
       \/ AdminReplies(t)
       \/ \E status \in {"open", "closed"} : SetStatus(t, status)
       \/ \E a \in Agents \cup {NoAgent} : AdminAssigns(t, a)
  \/ \E a \in Agents : UpsertAgent(a)

TicketsSpec == TicketsInit /\ [][TicketsNext]_ticketVars

-----------------------------------------------------------------------------
(* Safety.                                                                 *)

\* A message, however often it is delivered and to how many processes, has one ticket,
\* and a call is linked to the ticket of that call.
OneTicketPerMessage ==
  /\ \A t, u \in Tickets : ticket[t].message = ticket[u].message /\ t # u => ticket[t].message = NoMessage
  /\ \A c \in Calls : call[c].ticket # 0 => call[c].ticket \in Of(c)

\* What the AI says while it asks for a person never reaches one: not as the answer of a
\* ticket, not on a call, not in a chat, whichever drafts replace each other meanwhile.
NothingUnsafeIsTold ==
  /\ \A t \in Tickets : ticket[t].answer # "unsafe"
  /\ "unsafe" \notin told
=============================================================================
