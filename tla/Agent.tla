------------------------------- MODULE Agent -------------------------------
(***************************************************************************)
(* An investigation: the conversation the AI page shows (ai/session.ts,    *)
(* views/AiView.tsx), the loop that runs the model until it answers        *)
(* (ai/chat.ts), the hypothesis board it writes (ai/hypotheses.ts), the    *)
(* proposals it queues and the sessions it is saved to.  What the tools    *)
(* return and what is sent is module AgentTools; what becomes of a         *)
(* proposal, and how the ledger's entries are linked, is module AiInbox.   *)
(*                                                                         *)
(* The run goes on whatever page or case the analyst turns to.  One browser*)
(* tab: a step goes from one await to the next; saving a session is two,   *)
(* the write asked for and what follows when it is done.                   *)
(***************************************************************************)
EXTENDS AgentTools

CONSTANTS
    Replies,     \* what the model may answer in a turn, for each question asked
    Budget,      \* the tool rounds before it must answer
    Window,      \* its context window, and
    Schemas,     \* the part of it the tools' schemas take
    MaxSends,    \* bounds: the questions asked,
    MaxClicks    \* and what else the analyst does

VARIABLES
    kase,     \* the case the page shows
    chat,     \* the conversation shown (useChat)
    agent,    \* sendMessage and runAgent under way: their local variables
    saving,   \* the writes of sessions under way, in their order
    sessions, \* the aiSessions table: [id -> session]
    nextId,
    listed,   \* the sessions the page lists: copies
    loads,    \* the cases whose list of sessions is being read
    board,    \* [Case -> hypotheses: <<[id, rows]>>]
    queued,   \* the proposals put into the inbox
    sends, clicks

agentVars == <<kase, chat, agent, saving, sessions, nextId, listed, loads, board, queued, sends, clicks>>
tables == <<sessions, nextId, board, queued>>

Blank(s) == [s EXCEPT !.session = 0, !.messages = <<>>, !.seen = {}, !.plan = "none"]
Chat(c) == [case |-> c, busy |-> FALSE, wrapUp |-> FALSE, session |-> 0, messages |-> <<>>, seen |-> {},
            plan |-> "none"]
NotRunning == [pc |-> "off"]

Message == [role |-> "user", calls |-> <<>>, refs |-> {}, suspects |-> FALSE, synthetic |-> FALSE,
            draft |-> FALSE, verified |-> {}, unverified |-> {}, compacted |-> FALSE]
Nudge == [Message EXCEPT !.synthetic = TRUE]
Says == [Message EXCEPT !.role = "assistant"]
ToolSays == [Message EXCEPT !.role = "tool"]

Exposed(msgs) == \E i \in DOMAIN msgs : msgs[i].suspects
kept(msgs) ==
    LET own == {i \in DOMAIN msgs : ~msgs[i].synthetic}
    IN  [n \in 1..Cardinality(own) |-> msgs[Nth(own, n)]]

-----------------------------------------------------------------------------
(* Showing and saving a conversation *)

(* Another case's conversation stays only while it is running. *)
bindChatToCase(s, c) == IF s.case = c \/ s.busy THEN s ELSE Chat(c)

(* What persist writes, and to which session, is settled when it is called. *)
persist(s, r, then) ==
    [id |-> s.session, then |-> then,
     row |-> [case |-> r.case, messages |-> kept(r.msgs), seen |-> r.seen, plan |-> r.told]]

(* The list of sessions is read again; a page without clicks left needs none. *)
Lists(c) == IF clicks' < MaxClicks THEN loads' = loads \cup c /\ UNCHANGED listed ELSE loads' = {} /\ listed' = <<>>

(* The row is added, or written where it still exists, the conversation shown is now that session's, and
   the page binds the conversation and lists the sessions again. *)
Saved ==
    /\ saving # <<>>
    /\ LET p == Head(saving)
           id == IF p.id = 0 THEN nextId ELSE p.id
           added == IF p.id = 0 THEN {nextId} ELSE {}
           Row(i) == IF i \in added THEN p.row ELSE IF i = id THEN [p.row EXCEPT !.case = sessions[i].case]
                     ELSE sessions[i]
       IN  /\ sessions' = [i \in DOMAIN sessions \cup added |-> Row(i)]
           /\ nextId' = nextId + Cardinality(added)
           /\ chat' = bindChatToCase([chat EXCEPT !.session = id], kase)
           /\ agent' = IF p.then = "run" THEN [agent EXCEPT !.pc = "turn"] ELSE agent
    /\ saving' = Tail(saving)
    /\ UNCHANGED <<kase, board, queued, sends, clicks>> /\ Lists({kase})

(* A question asked, or a playbook started, which leaves the conversation before.  Only the conversation of
   this case goes on; the session shown stays, whoever's it is. *)
StartFrom_Faulty(s, playbook) == \* faulty: what the conversation before may cite is kept
    LET same == s.case = kase /\ ~playbook
    IN  [msgs |-> (IF same THEN s.messages ELSE <<>>) \o <<Message>>, seen |-> s.seen,
         told |-> IF playbook THEN "playbook" ELSE IF same THEN s.plan ELSE "none"]

StartFrom(s, playbook) ==
    LET same == s.case = kase /\ ~playbook
    IN  [msgs |-> (IF same THEN s.messages ELSE <<>>) \o <<Message>>, seen |-> IF same THEN s.seen ELSE {},
         told |-> IF playbook THEN "playbook" ELSE IF same THEN s.plan ELSE "none"]

Begin_Faulty(from) == \* faulty: a run starts as if it had read nothing yet
    [pc |-> "first", case |-> kase, iter |-> 0, wrapping |-> FALSE, aborted |-> FALSE, cut |-> FALSE,
     empty |-> FALSE, leaks |-> 0, uncited |-> FALSE, cache |-> {}, todo |-> <<>>, sent |-> <<>>,
     exposed |-> FALSE, plan |-> from.told, msgs |-> from.msgs, seen |-> from.seen, told |-> from.told]

Begin(from) ==
    [pc |-> "first", case |-> kase, iter |-> 0, wrapping |-> FALSE, aborted |-> FALSE, cut |-> FALSE,
     empty |-> FALSE, leaks |-> 0, uncited |-> FALSE, cache |-> {}, todo |-> <<>>, sent |-> <<>>,
     exposed |-> Exposed(from.msgs), plan |-> from.told, msgs |-> from.msgs, seen |-> from.seen, told |-> from.told]

sendMessage(playbook) ==
    /\ sends < MaxSends /\ ~chat.busy /\ agent.pc = "off"
    /\ LET s == IF playbook THEN Blank(chat) ELSE chat
           r == Begin(StartFrom(s, playbook))
       IN  /\ agent' = r
           /\ chat' = [s EXCEPT !.case = kase, !.busy = TRUE, !.wrapUp = FALSE, !.messages = r.msgs, !.plan = r.told]
           /\ saving' = Append(saving, persist(s, r, "run"))
    /\ sends' = sends + 1
    /\ UNCHANGED <<kase, sessions, nextId, listed, loads, board, queued, clicks>>

-----------------------------------------------------------------------------
(* The run *)

Turns == Budget + 1
Push(r, ms) == [r EXCEPT !.msgs = @ \o ms]

Shows(r) == chat' = [chat EXCEPT !.messages = r.msgs, !.seen = r.seen, !.plan = r.told]
Goes(r) == agent' = r /\ Shows(r) /\ UNCHANGED saving

(* The run is over: what it said is shown and saved. *)
Ends(r) ==
    /\ agent' = NotRunning
    /\ chat' = [chat EXCEPT !.messages = r.msgs, !.seen = r.seen, !.plan = r.told, !.busy = FALSE, !.wrapUp = FALSE]
    /\ saving' = Append(saving, persist(chat, r, "end"))

NextTurn(r) == IF r.iter + 1 < Turns THEN Goes([r EXCEPT !.iter = @ + 1, !.pc = "turn"])
               ELSE Ends(Push(r, <<Says>>))

Untouched == UNCHANGED <<kase, sessions, nextId, listed, loads, sends, clicks>>

(* A turn is asked for: the last one, or the one the analyst asked for, without tools. *)
AskTurn ==
    /\ agent.pc = "turn"
    /\ LET asked == ~agent.wrapping /\ (agent.iter >= Budget \/ chat.wrapUp)
           r == IF asked THEN Push([agent EXCEPT !.wrapping = TRUE], <<Nudge>>) ELSE agent
       IN  Goes([r EXCEPT !.pc = "wait",
                   !.sent = fitToBudget(r.msgs, conversationBudget(Window, Schemas, ~r.wrapping))])
    /\ UNCHANGED <<board, queued>> /\ Untouched

(* Its citations, and those whose row the case does not hold. *)
Answer(r, cites) ==
    [Says EXCEPT !.verified = verifiedIn(cites, r.seen), !.unverified = cites \ r.seen]

(* An answer that cites nothing the tools returned goes back once, while a turn is left. *)
sendBack(r, cites) ==
    /\ r.seen # {} /\ r.iter < Turns - 1 /\ verifiedIn(cites, r.seen) = {} /\ ~r.uncited

(* The text without calls: sent back, or the answer. *)
Answers(r, cites) ==
    IF sendBack(r, cites)
    THEN /\ NextTurn(Push([r EXCEPT !.uncited = TRUE], <<[Says EXCEPT !.draft = TRUE], Nudge>>))
    ELSE Ends(Push(r, <<Answer(r, cites)>>))

(* A call written into the text was not run: it is asked for again, twice; an empty reply, once. *)
ReplyArrives(reply) ==
    /\ agent.pc = "wait" /\ ~agent.aborted
    /\ LET calls == IF agent.wrapping THEN <<>> ELSE reply.calls
           empty == ~reply.text /\ reply.calls = <<>>
           leak == reply.leak /\ calls = <<>> /\ ~agent.wrapping /\ agent.leaks < 2
       IN  \/ /\ empty /\ ~agent.empty
              /\ NextTurn(Push([agent EXCEPT !.empty = TRUE], <<Nudge>>))
           \/ /\ ~empty /\ leak
              /\ NextTurn(Push([agent EXCEPT !.leaks = @ + 1], <<Says, Nudge>>))
           \/ /\ empty => agent.empty
              /\ ~leak /\ calls = <<>>
              /\ Answers(agent, reply.cites)
           \/ /\ calls # <<>>
              /\ Goes(Push([agent EXCEPT !.pc = "tools", !.todo = calls, !.cut = FALSE], <<[Says EXCEPT !.calls = calls]>>))
    /\ UNCHANGED <<board, queued>> /\ Untouched

(* The model server cannot be reached, refuses, or has no such model. *)
ModelFails ==
    /\ agent.pc = "wait" /\ ~agent.aborted
    /\ Ends(Push(agent, <<Says>>))
    /\ UNCHANGED <<board, queued>> /\ Untouched

(* The analyst stopped it while the model was answering or a tool was reading. *)
Aborted ==
    /\ agent.pc \in {"wait", "tools"} /\ agent.aborted
    /\ \/ agent.pc = "wait"
       \/ agent.pc = "tools" /\ ~agent.cut /\ agent.todo # <<>> /\ agent.todo[1] \notin agent.cache
    /\ Ends(agent)
    /\ UNCHANGED <<board, queued>> /\ Untouched

-----------------------------------------------------------------------------
(* One tool call *)

Agents == {"update_plan", "record_hypothesis", "finish", "propose_row_mark", "propose_rule"}
Proposes == {"propose_row_mark", "propose_rule"}
REPEATABLE == {"update_plan", "record_hypothesis", "finish"} \cup Proposes

Done(r) == [r EXCEPT !.todo = Tail(@)]
Result(r, m) == Goes(Done(Push(r, <<m>>)))
Refused(r) == Result(r, ToolSays) /\ UNCHANGED <<board, queued>>

(* Every call left gets a result after a stop. *)
StopsCall(r) ==
    /\ Goes([Done(Push(r, <<ToolSays>>)) EXCEPT !.cut = TRUE])
    /\ UNCHANGED <<board, queued>>

(* The same call again is answered with a note. *)
RepeatsCall(r) == Goes(Done(Push(r, <<ToolSays>>))) /\ UNCHANGED <<board, queued>>

ReadsCase(r, call) ==
    LET shown == read(r.case, call)
        refs == refsIn(call, shown)
        suspects == findInstructions(shown)
        failed == call.tool \in {"process_tree", "logon_session", "get_chain", "get_story"} /\ shown = {}
        cached == IF failed THEN r.cache ELSE r.cache \cup {call}
    IN  /\ Result([r EXCEPT !.seen = @ \cup refs, !.exposed = @ \/ suspects, !.cache = cached],
                  [ToolSays EXCEPT !.refs = refs, !.suspects = suspects])
        /\ UNCHANGED <<board, queued>>

(* What the model is told of the plan is shown at the end of the turn. *)
UpdatesPlan(r) == Result([r EXCEPT !.plan = "model"], ToolSays) /\ UNCHANGED <<board, queued>>

(* A hypothesis is added under the number after the highest. *)
recordHypothesis(r, call) ==
    LET b == board[r.case]
        id == 1 + FoldLeft(LAMBDA top, h : IF h.id > top THEN h.id ELSE top, 0, b)
    IN  /\ board' = [board EXCEPT ![r.case] = Append(b, [id |-> id, rows |-> checkCites(call.rows, r.seen).ok])]
        /\ Result(r, ToolSays) /\ UNCHANGED queued

(* A proposal cites rows the conversation has seen; a rule cites what its test found. *)
Queues(r, call) ==
    LET tested == IF call.tool = "propose_rule" THEN testRule(r.case) ELSE {}
        cites == IF call.tool = "propose_rule" THEN {} ELSE checkCites(call.rows, r.seen).ok
    IN  IF call.tool = "propose_row_mark" /\ cites = {} THEN Refused(r)
        ELSE /\ queued' = queued \cup {[case |-> r.case, tool |-> call.tool, cites |-> cites,
                                        exposed |-> r.exposed, read |-> Exposed(r.msgs)]}
             /\ Result([r EXCEPT !.seen = @ \cup tested], [ToolSays EXCEPT !.refs = tested])
             /\ UNCHANGED board

(* finish is sent back as an answer is, and the calls after it go on; otherwise the run is over. *)
Finishes(r, call) ==
    /\ IF sendBack(r, call.rows)
       THEN Result([r EXCEPT !.uncited = TRUE], ToolSays)
       ELSE Ends(Push([r EXCEPT !.told = r.plan], <<ToolSays, Answer(r, call.rows)>>))
    /\ UNCHANGED <<board, queued>>

ToolCall ==
    /\ agent.pc = "tools" /\ agent.todo # <<>>
    /\ LET call == Head(agent.todo)
           again == call \in agent.cache /\ call.tool \notin REPEATABLE
       IN  \/ agent.aborted /\ StopsCall(agent)
           \/ ~agent.aborted /\ again /\ RepeatsCall(agent)
           \/ /\ ~agent.aborted /\ ~again
              /\ \/ call.tool \notin Agents /\ ReadsCase(agent, call)
                 \/ call.tool = "update_plan" /\ UpdatesPlan(agent)
                 \/ call.tool = "record_hypothesis" /\ recordHypothesis(agent, call)
                 \/ call.tool = "finish" /\ Finishes(agent, call)
                 \/ call.tool \in Proposes /\ Queues(agent, call)
    /\ Untouched

RoundOver ==
    /\ agent.pc = "tools" /\ agent.todo = <<>>
    /\ NextTurn([agent EXCEPT !.told = agent.plan])
    /\ UNCHANGED <<board, queued>> /\ Untouched

-----------------------------------------------------------------------------
(* The page *)

Click == clicks < MaxClicks /\ clicks' = clicks + 1
Kept == UNCHANGED <<saving, tables, sends>>

SwitchCase(c) ==
    /\ Click /\ c # kase
    /\ kase' = c /\ chat' = bindChatToCase(chat, c) /\ Lists({c})
    /\ UNCHANGED agent /\ Kept

(* No answer is dropped: the list read last is shown, whichever case it is of. *)
ListArrives(c) ==
    /\ c \in loads
    /\ loads' = loads \ {c}
    /\ listed' = [i \in {i \in DOMAIN sessions : sessions[i].case = c} |-> sessions[i]]
    /\ UNCHANGED <<kase, chat, agent, saving, tables, sends, clicks>>

newChatSession ==
    /\ Click /\ ~chat.busy
    /\ chat' = Blank(chat)
    /\ Lists({}) /\ UNCHANGED <<kase, agent>> /\ Kept

openChatSession(id) ==
    /\ Click /\ ~chat.busy
    /\ chat' = [chat EXCEPT !.session = id, !.messages = listed[id].messages, !.case = listed[id].case,
                            !.seen = listed[id].seen, !.plan = listed[id].plan]
    /\ Lists({}) /\ UNCHANGED <<kase, agent>> /\ Kept

(* A session may be deleted while it runs. *)
DeleteSession(id) ==
    /\ Click
    /\ sessions' = [i \in DOMAIN sessions \ {id} |-> sessions[i]]
    /\ chat' = IF chat.session = id THEN Blank(chat) ELSE chat
    /\ Lists({kase})
    /\ UNCHANGED <<kase, agent, saving, nextId, board, queued, sends>>

stopChat ==
    /\ Click /\ agent.pc # "off" /\ ~agent.aborted
    /\ agent' = [agent EXCEPT !.aborted = TRUE]
    /\ Lists({}) /\ UNCHANGED <<kase, chat>> /\ Kept

wrapUpChat ==
    /\ Click /\ chat.busy /\ ~chat.wrapUp
    /\ chat' = [chat EXCEPT !.wrapUp = TRUE]
    /\ Lists({}) /\ UNCHANGED <<kase, agent>> /\ Kept

removeHypothesis(c, i) ==
    /\ Click /\ c = kase
    /\ board' = [board EXCEPT ![c] = RemoveAt(@, i)]
    /\ Lists({}) /\ UNCHANGED <<kase, chat, agent, saving, sessions, nextId, queued, sends>>

-----------------------------------------------------------------------------
AgentInit ==
    /\ kase \in Case /\ chat = Chat(kase) /\ agent = NotRunning /\ saving = <<>>
    /\ sessions = <<>> /\ nextId = 1 /\ listed = <<>> /\ loads = {}
    /\ board = [c \in Case |-> <<>>] /\ queued = {}
    /\ sends = 0 /\ clicks = 0

AgentNext ==
    \/ \E playbook \in BOOLEAN : sendMessage(playbook)
    \/ Saved \/ AskTurn \/ ModelFails \/ Aborted \/ ToolCall \/ RoundOver
    \/ agent.pc = "wait" /\ \E reply \in Replies[sends] : \E got \in Delivered(reply) : ReplyArrives(got)
    \/ \E c \in Case : SwitchCase(c) \/ ListArrives(c)
    \/ newChatSession \/ stopChat \/ wrapUpChat
    \/ \E id \in DOMAIN listed : openChatSession(id) \/ DeleteSession(id)
    \/ \E c \in Case : \E i \in DOMAIN board[c] : removeHypothesis(c, i)

AgentSpec == AgentInit /\ [][AgentNext]_agentVars

-----------------------------------------------------------------------------
(* Properties *)

Transcripts == {chat.messages} \cup {sessions[i].messages : i \in DOMAIN sessions}
               \cup (IF agent.pc = "off" THEN {} ELSE {agent.msgs})

ReturnedBefore(msgs, i) == UNION {msgs[j].refs : j \in {j \in 1..i - 1 : msgs[j].role = "tool"}}

(* A citation is shown as verified only where a tool returned its row earlier in the same conversation:
   whatever conversation was shown, left, opened again or saved between two questions. *)
VerifiedWasReturned ==
    \A msgs \in Transcripts : \A i \in DOMAIN msgs : msgs[i].verified \subseteq ReturnedBefore(msgs, i)

(* What a model proposes after its conversation has held text addressed to a model is marked, in a later
   run of a conversation left and opened again too. *)
ExposureIsMarked == \A p \in queued : p.read => p.exposed

(* What is sent of a conversation is its first message, then whole rounds up to the newest: a result never
   goes without its call, a call never without the results it got. *)
SentInRounds ==
    agent.pc = "wait" =>
        LET all == rounds(agent.msgs)
            sent == rounds(agent.sent)
            n == Len(all) - Len(sent)
        IN  /\ n >= 0 /\ sent # <<>>
            /\ \A k \in DOMAIN sent : LET from == all[IF k = 1 THEN 1 ELSE k + n] IN sent[k] \in {from, Compacted(from)}
=============================================================================
