----------------------------- MODULE AgentTools -----------------------------
(***************************************************************************)
(* What the model of an investigation is sent and what it may cite: the    *)
(* results of the tools it calls (ai/tools.ts), the refs in them and the   *)
(* text in them that addresses a model (ai/evidence.ts), what a model      *)
(* server makes of its reply (ai/transport.ts), and the part of a          *)
(* conversation that fits the model's window (ai/context.ts).              *)
(*                                                                         *)
(* A row is a number, as in the refs "ev:1"; two cases may use the same    *)
(* one.  A call is the tool's name and what it asks for, a reply of the    *)
(* model is its text (whether there is any, what it cites, whether a call  *)
(* was written into it) and its calls.  A message weighs 1; the result of  *)
(* a tool that shows rows weighs RESULT until it is compacted.             *)
(***************************************************************************)
EXTENDS Integers, Sequences, FiniteSets, SequencesExt

CONSTANTS
    Case,        \* the cases of the browser
    RowsOf,      \* [Case -> set of rows]
    ParentOf,    \* [row -> row]: the process that started a process, 0 for none
    LogonOf,     \* [row -> logon session]
    ChainOf,     \* [Case -> the steps of its chain, most telling first]
    StoryOf,     \* [Case -> the rows of the steps of its story]
    Matched,     \* [Case -> the rows of its finding, and of a rule the model tests]
    Baited,      \* the rows whose text addresses a model
    MAX_ROWS,    \* the rows a search returns
    MAX_UP,      \* how many ancestors of a process are looked up
    MAX_STEPS,   \* the steps of a chain that are told
    SAMPLE_ROWS, \* the rows a finding's or a tested rule's answer tells
    RESULT,      \* the weight of a tool result that is not compacted
    KEEP_ROUNDS  \* the newest tool rounds that stay whole

UpTo(s, n) == SubSeq(s, 1, IF Len(s) < n THEN Len(s) ELSE n)
FirstOf(rows, n) == {r \in rows : Cardinality({q \in rows : q < r}) < n}

-----------------------------------------------------------------------------
(* The read tools: the rows each one shows *)

(* The ancestors are looked up one by one and stop where one is not in the case. *)
ancestors(c, row) ==
    LET up[n \in 0..MAX_UP] == IF n = 0 THEN {ParentOf[row]} \cap RowsOf[c]
                               ELSE up[n - 1] \cup ({ParentOf[p] : p \in up[n - 1]} \cap RowsOf[c])
    IN  up[MAX_UP - 1]

processTree(c, row) ==
    LET children == {r \in RowsOf[c] : ParentOf[r] = row}
    IN  (RowsOf[c] \cap {row}) \cup children \cup (IF row \in RowsOf[c] THEN ancestors(c, row) ELSE {})

logonSession(c, logon) == {r \in RowsOf[c] : LogonOf[r] = logon}

getChain(c) == ToSet(UpTo(ChainOf[c], MAX_STEPS))

getStory(c) == StoryOf[c]

testRule(c) == FirstOf(Matched[c], SAMPLE_ROWS)

searched(c, rows) == FirstOf(rows \cap RowsOf[c], MAX_ROWS)

(* A search by filter, or by a pattern over a field. *)
Searches == {"search_events", "search_mails", "regex_test"}

(* What counts, groups, lists indicators or rules, or looks a value up shows no row. *)
read(c, call) ==
    CASE call.tool \in Searches -> searched(c, call.rows)
      [] call.tool = "process_tree" -> UNION {processTree(c, r) : r \in call.rows}
      [] call.tool = "logon_session" -> UNION {logonSession(c, l) : l \in call.rows}
      [] call.tool = "get_chain" -> getChain(c)
      [] call.tool = "get_story" -> getStory(c)
      [] call.tool \in {"get_finding", "test_rule", "propose_rule"} -> testRule(c)
      [] OTHER -> {}

(* The refs the conversation may cite from now on: those under a key "ref" or "rows".  A story names the
   rows of its steps under "refs". *)
refsIn(call, shown) == IF call.tool = "get_story" THEN {} ELSE shown

findInstructions(shown) == shown \cap Baited # {}

-----------------------------------------------------------------------------
(* Citations *)

verifiedIn(cites, seen) == cites \cap seen

checkCites(cites, seen) == [ok |-> cites \cap seen, unseen |-> cites \ seen]

-----------------------------------------------------------------------------
(* What arrives of a reply *)

Words == [text |-> TRUE, leak |-> FALSE, cites |-> {}, calls |-> <<>>]

(* The stream ended before its last line: what came is taken for the whole reply. *)
CutShort(reply) == [reply EXCEPT !.cites = {}, !.calls = <<>>, !.leak = FALSE]

(* The server's template has no tools: the turn is asked again without them, once. *)
WithoutTools(reply) == IF reply.calls = <<>> THEN reply ELSE Words

Delivered(reply) == {reply, CutShort(reply), WithoutTools(reply)}

-----------------------------------------------------------------------------
(* What of a conversation is sent *)

Weight(m) == IF m.role = "tool" /\ m.refs # {} /\ ~m.compacted THEN RESULT ELSE 1

compactToolResult(m) == IF Weight(m) = 1 THEN m ELSE [m EXCEPT !.compacted = TRUE]

(* A tool's result belongs to the turn of the assistant that only such results separate it from; every other
   message begins a round: a user message, or an assistant's turn with the results that answer it. *)
Joins(msgs, i) ==
    msgs[i].role = "tool" /\ \E a \in 1..i - 1 : msgs[a].role = "assistant" /\ \A j \in a + 1..i - 1 : msgs[j].role = "tool"
Heads(msgs) == {i \in DOMAIN msgs : ~Joins(msgs, i)}
Nth(ks, n) == CHOOSE k \in ks : Cardinality({j \in ks : j <= k}) = n

RoundEnd(msgs, k) == IF k = Cardinality(Heads(msgs)) THEN Len(msgs) ELSE Nth(Heads(msgs), k + 1) - 1
rounds(msgs) == [k \in 1..Cardinality(Heads(msgs)) |-> SubSeq(msgs, Nth(Heads(msgs), k), RoundEnd(msgs, k))]

Compacted(round) == [i \in DOMAIN round |-> compactToolResult(round[i])]
Newest(set, n) == {x \in set : Cardinality({y \in set : y > x}) < n}
Weighs(msgs) == FoldLeft(LAMBDA sum, m : sum + Weight(m), 0, msgs)

(* All but the newest tool rounds are compacted, then, when it is still too much, all but the newest one. *)
ToolRounds(msgs) == {h \in Heads(msgs) : msgs[h].role = "assistant" /\ h + 1 \in DOMAIN msgs \ Heads(msgs)}
InRound(msgs, h, i) == h <= i /\ \A j \in h + 1..i : j \notin Heads(msgs)
Keeping(msgs, n) ==
    [i \in DOMAIN msgs |-> IF \E h \in Newest(ToolRounds(msgs), n) : InRound(msgs, h, i) THEN msgs[i] ELSE compactToolResult(msgs[i])]
Shaped(msgs, budget) == IF Weighs(Keeping(msgs, KEEP_ROUNDS)) <= budget THEN Keeping(msgs, KEEP_ROUNDS) ELSE Keeping(msgs, 1)

(* Then the oldest rounds after the first message are left out, one by one, down to two. *)
LeaveOut(msgs, n) ==
    IF n = 0 THEN msgs
    ELSE SubSeq(msgs, 1, Nth(Heads(msgs), 2) - 1) \o SubSeq(msgs, Nth(Heads(msgs), n + 2), Len(msgs))

fitToBudget_Faulty(msgs, budget) == \* faulty: the oldest messages are left out, not the oldest rounds
    LET all == Shaped(msgs, budget)
        From(n) == IF n = 0 THEN all ELSE SubSeq(all, 1, 1) \o SubSeq(all, n + 2, Len(all))
        Fits(n) == Weighs(From(n)) <= budget \/ Len(all) - n <= 2
    IN  From(CHOOSE n \in 0..Len(all) : Fits(n) /\ \A k \in 0..n - 1 : ~Fits(k))

Fits(msgs, budget, n) == Weighs(LeaveOut(msgs, n)) <= budget \/ Cardinality(Heads(msgs)) - n <= 2
fitToBudget(msgs, budget) ==
    LET all == Shaped(msgs, budget)
    IN  LeaveOut(all, CHOOSE n \in 0..Len(all) : Fits(all, budget, n) /\ \A k \in 0..n - 1 : ~Fits(all, budget, k))

conversationBudget(window, schemas, tools) == window - (IF tools THEN schemas ELSE 0)
=============================================================================
