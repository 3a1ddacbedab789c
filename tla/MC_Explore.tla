------------------------------ MODULE MC_Explore ------------------------------
(* Two cases: one whose newest event comes last in the order of ingestion and beyond the cap of the
   event-ID index, with an event that has no time; one nearly empty. *)
EXTENDS Explore

MCColumns == {"id", "ts", "eventId", "risk", "user", "host", "ip", "to", "from", "query", "flags"}
MCRelates == [o \in {"eq"} |-> {}]
MCVal(id, code, user, host) ==
    [x \in {"id", "eventId", "user", "host", "ip", "to", "flags", "risk", "bodyText"} |->
        CASE x = "id" -> {id} [] x = "eventId" -> code [] x \in {"user", "to"} -> user [] x = "host" -> host [] OTHER -> {}]
MCRow3(id, ts, code, user, host, text) ==
    [id |-> id, ts |-> ts, val |-> MCVal(id, code, user, host), raw |-> {}, text |-> text, body |-> {}]
MCEventRows == {MCRow3(1, 3, {40}, {20}, {30}, {}), MCRow3(2, 0, {40}, {20}, {30}, {50}), MCRow3(3, 5, {40}, {}, {31}, {}), MCRow3(4, 7, {40}, {21}, {30}, {})}
MCMailRows == {[MCRow3(1, 4, {}, {20}, {}, {}) EXCEPT !.body = {50}], MCRow3(2, 6, {}, {21}, {}, {})}
MCPageRows(events, mails) == [page \in {"events", "mails"} |-> IF page = "events" THEN events ELSE mails]
MCRowsIn == [k \in {"A", "B"} |-> IF k = "A" THEN <<MCPageRows({e \in MCEventRows : e.id < 4}, MCMailRows), MCPageRows(MCEventRows, MCMailRows)>>
                                  ELSE <<MCPageRows({MCRow3(9, 2, {40}, {}, {30}, {})}, {})>>]
MCFoundIn == [k \in {"A", "B"} |-> IF k = "A" THEN {[id |-> 1, entities |-> {20}]} ELSE {}]
MCEntities == {[kind |-> "user", value |-> 20]}
MCFacet == {[page |-> "events", field |-> "eventId", value |-> 40, to |-> 0, negate |-> FALSE],
            [page |-> "mails", field |-> "flags", value |-> 60, to |-> 0, negate |-> TRUE]}
MCRanges == {<<4, 6>>}
MCStacked == {}
MCAdded == {}
MCSearches == {}
MCAsked == {[NoFilter(Newest) EXCEPT !.text = 50]}
==============================================================================
