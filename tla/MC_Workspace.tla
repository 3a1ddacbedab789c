----------------------------- MODULE MC_Workspace -----------------------------
(* The analyst's pages over an open case: the stories, the report and the pages that look into the rows.
   The parts share the case and no variable of these models, so a behaviour follows one of them, chosen at
   its start, and the run explores the sum of their states. *)
EXTENDS MC_Stories, MC_Report, MC_Explore

VARIABLE part

MCInit ==
    /\ part \in {"stories", "report", "explore"}
    /\ StoryInit /\ ReportInit /\ ExploreInit
    /\ part # "stories" => engine = MCJoined /\ snapshot = None
    /\ part # "report" => kase = "a"
    /\ part # "explore" => scope.kase = "A"

MCNext ==
    /\ part' = part
    /\ \/ part = "stories" /\ StoryNext /\ UNCHANGED <<reportVars, exploreVars>>
       \/ part = "report" /\ ReportNext /\ UNCHANGED <<storyVars, exploreVars>>
       \/ part = "explore" /\ ExploreNext /\ UNCHANGED <<storyVars, reportVars>>

MCSpec == MCInit /\ [][MCNext]_<<part, storyVars, reportVars, exploreVars>>
==============================================================================
