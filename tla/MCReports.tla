------------------------------ MODULE MCReports ------------------------------
(***************************************************************************)
(* Two rows, one of which a search and both filters leave out, and a third  *)
(* of either kind that comes at any time; pages of one and two rows; two    *)
(* calls at a time.                                                         *)
(***************************************************************************)
EXTENDS Reports

Row(hit) == [status |-> 200, hit |-> hit, provider |-> IF hit THEN "openai" ELSE "gemini",
             words |-> IF hit THEN {"gpt"} ELSE {}]
MCClicks == [p \in Pages |-> 3]
MCRows == {Row(hit) : hit \in BOOLEAN}
MCFirstLog == <<Row(TRUE), Row(FALSE)>>
=============================================================================
