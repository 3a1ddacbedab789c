------------------------------ MODULE MC_Agent ------------------------------
(* Investigations of two cases: A with a process tree, a chain and a story, and a row that addresses the
   model; B, whose rows go by some of the same numbers. *)
EXTENDS Agent

Asks(tool, rows) == [tool |-> tool, rows |-> rows]
Says1(cites) == [Words EXCEPT !.cites = cites]
Calls(calls) == [Words EXCEPT !.text = FALSE, !.calls = calls]

MCAgentRows == [A |-> {1, 2, 3}, B |-> {1, 4}]
MCParentOf == <<0, 1, 2, 1>>
MCLogonOf == <<1, 1, 2, 2>>
MCChainOf == [A |-> <<3, 1>>, B |-> <<>>]
MCStoryOf == [A |-> {2}, B |-> {}]
MCMatched == [A |-> {1, 2}, B |-> {4}]

MCFinishing == Calls(<<Asks("get_chain", {}), Asks("propose_row_mark", {1, 3}), Asks("update_plan", {}),
                       Asks("finish", {3}), Asks("process_tree", {2})>>)
MCReplies ==
    <<{Says1({1}), MCFinishing,
       Calls(<<Asks("search_events", {1, 2}), Asks("search_events", {1, 2}), Asks("record_hypothesis", {1, 3})>>)},
      {[Words EXCEPT !.text = FALSE], [Words EXCEPT !.leak = TRUE], MCFinishing,
       Calls(<<Asks("get_story", {}), Asks("propose_rule", {}), Asks("propose_row_mark", {2}),
               Asks("logon_session", {2})>>)}>>

MCAgentInit == AgentInit /\ kase = "A"
=============================================================================
