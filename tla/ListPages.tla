------------------------------ MODULE ListPages ------------------------------
(***************************************************************************)
(* helpers.slim_list and model_cost_map, and an agent that reads a listing *)
(* page by page.                                                           *)
(*                                                                         *)
(* Three counts meet in an answer: the rows of the page that are returned, *)
(* the rows the page had, and the rows the proxy has, which some endpoints *)
(* report beside the page.  The caller's `limit` cuts each page after the  *)
(* proxy has cut the listing into pages; model_cost_map filters the whole  *)
(* map by name first.                                                      *)
(***************************************************************************)
EXTENDS Integers, SequencesExt

CONSTANTS
    Rows,       \* rows of listings
    Listings,   \* what the proxy may have: sequences of rows
    Fields,     \* the slim entry's fields
    Sizes,      \* page sizes an agent asks for, or the proxy's own
    Limits,     \* values of `limit`
    None

\* A row is a dict with its columns, a string (the hash of a key), or a list
\* of dicts with their columns.
Row(is, id, columns) == [is |-> is, id |-> id, columns |-> columns]
Bare(id) == Row("str", id, {})

\* No two rows of a listing have the same id, and no count is None.
ASSUME ListAssumption ==
    /\ None \notin Nat
    /\ Sizes \subseteq Nat \ {0}
    /\ Limits \subseteq Int
    /\ \A row \in Rows : row = Row(row.is, row.id, row.columns)
    /\ Listings \subseteq Seq(Rows)
    /\ \A l \in Listings : \A i, j \in 1..Len(l) : l[i].id = l[j].id => i = j

\* A bare list, an envelope without more than the rows, one with a count, or
\* the cost map, whose rows are keyed by their ids.
Envelopes == {"none", "rows", "counted", "map"}

VARIABLES
    listing,    \* the rows the proxy has
    envelope,   \* how the endpoint answers
    size,       \* the page size
    limit,      \* and the caller's limit
    filter,     \* the ids that contain the caller's filter, None without one
    page,       \* the page that is asked for
    pc,         \* "ready", "asked", "received", "answered", then "ready" or "done"
    response,   \* the proxy's page
    answer,     \* what the agent got last
    seen,       \* the rows it has got
    cut,        \* how many rows it was told were cut
    warned      \* was a page marked truncated?

vars == <<listing, envelope, size, limit, filter, page, pc, response, answer, seen, cut, warned>>

request == <<listing, envelope, size, limit, filter>>
reader == <<seen, cut, warned>>

container == envelope \in {"rows", "counted"}

(***************************************************************************)
(* slim_list                                                               *)
(***************************************************************************)

\* _slim: a row that is not a dict passes through as it is.
Slim(row) == IF row.is = "dict" THEN [row EXCEPT !.columns = @ \cap Fields] ELSE row

\* Iterating a dict where the rows should be yields its keys.
RowsOf(r) == IF r.is = "list" THEN r.rows ELSE <<Bare(0)>>

\* "if filter": an empty filter is none.
Wanted(row) == filter = None \/ row.id \in filter

Capped(rows, n) == IF n > 0 /\ n < Len(rows) THEN SubSeq(rows, 1, n) ELSE rows

\* Faulty Matching: the limit is applied before the filter.
MatchingCapped(rows) == SelectSeq(Capped(rows, limit), Wanted)

\* {k: v for k, v in cost_map.items() if needle in k.lower()}
Matching(rows) ==
    LET kept[i \in 0..Len(rows)] ==
          IF i = 0 THEN <<>>
          ELSE IF Wanted(rows[i]) THEN Append(kept[i - 1], rows[i]) ELSE kept[i - 1]
    IN kept[Len(rows)]

\* _truncate
Truncated(rows, n) ==
    [data |-> Capped(rows, n), total |-> Len(rows), returned |-> Len(Capped(rows, n)),
     truncated |-> Len(rows) > Len(Capped(rows, n))]

\* Subscripting the response and iterating the rows raise what they raise.
\* The cost map's items are only asked for to filter or to cut them.
Raises(r) ==
    \/ r.is = "null"
    \/ r.is = "other" /\ container
    \/ r.is = "other" /\ envelope = "map" /\ (filter # None \/ limit > 0)

\* The fields of the envelope beside the rows: its count, if it has one.
PageInfo(r) == IF envelope = "counted" THEN r.count ELSE None

\* The rows of an answer; the cost map's are not slimmed.
Entries(r) ==
    LET rows == Matching(RowsOf(r)) IN
    [i \in DOMAIN rows |-> IF envelope = "map" THEN rows[i] ELSE Slim(rows[i])]

\* What is cut, and what is beside the rows.
Shaped(out, info) ==
    [data |-> out.data, total |-> out.total, returned |-> out.returned,
     truncated |-> out.truncated, page_info |-> info]

\* Faulty Answer: the envelope is merged into the answer.
AnswerMerged(r) ==
    Shaped([Truncated(Entries(r), limit) EXCEPT
              !.total = IF envelope = "counted" THEN r.count ELSE @], PageInfo(r))

\* What is beside the rows is kept apart from the counts of the cut.
Answer(r) == Shaped(Truncated(Entries(r), limit), PageInfo(r))

\* Whatever is raised, the agent has no rows.
Raised == None

(***************************************************************************)
(* The proxy and the agent                                                 *)
(***************************************************************************)

Ids(rows) == {r.id : r \in rows}

\* An endpoint that reports no count answers with the whole listing.
Init ==
    /\ listing \in Listings
    /\ envelope \in Envelopes
    /\ size \in (IF envelope = "counted" THEN Sizes ELSE {Len(listing) + 1})
    /\ limit \in Limits
    /\ filter \in (IF envelope = "map" THEN {None} \cup SUBSET Ids(ToSet(listing)) ELSE {None})
    /\ page = 1 /\ pc = "ready"
    /\ response = None /\ answer = None
    /\ seen = {} /\ cut = 0 /\ warned = FALSE

Ask ==
    /\ pc = "ready"
    /\ pc' = "asked"
    /\ UNCHANGED <<request, page, response, answer, reader>>

Smaller(m, n) == IF m < n THEN m ELSE n

PageRows(n) == SubSeq(listing, (n - 1) * size + 1, Smaller(n * size, Len(listing)))

\* The page asked for, or something else: a dict where the rows should be,
\* a dict of other keys, null.
Serve ==
    /\ pc = "asked"
    /\ response' \in
         {[is |-> "list", rows |-> PageRows(page), count |-> Len(listing)]}
         \cup {[is |-> odd, rows |-> <<>>, count |-> 0] : odd \in {"dict", "other", "null"}}
    /\ pc' = "received"
    /\ UNCHANGED <<request, page, answer, reader>>

Shape ==
    /\ pc = "received" /\ ~Raises(response)
    /\ LET out == Answer(response) IN
         /\ answer' = out
         /\ seen' = seen \cup {out.data[i] : i \in DOMAIN out.data}
         /\ cut' = cut + (out.total - out.returned)
         /\ warned' = (warned \/ out.truncated)
    /\ pc' = "answered"
    /\ UNCHANGED <<request, page, response>>

\* A KeyError or a TypeError.
Raise ==
    /\ pc = "received" /\ Raises(response)
    /\ answer' = Raised
    /\ pc' = "done"
    /\ UNCHANGED <<request, page, response, reader>>

\* Does the agent know of rows on later pages?
MoreReported == IF answer.page_info = None THEN FALSE ELSE page * size < answer.page_info

\* The agent turns the page until the reported count is reached.
Turn ==
    /\ pc = "answered" /\ MoreReported
    /\ page' = page + 1
    /\ pc' = "ready"
    /\ UNCHANGED <<request, response, answer, reader>>

Stop ==
    /\ pc = "answered" /\ ~MoreReported
    /\ pc' = "done"
    /\ UNCHANGED <<request, page, response, answer, reader>>

Over == pc = "done" /\ UNCHANGED vars

Next == Ask \/ Serve \/ Shape \/ Raise \/ Turn \/ Stop \/ Over

Spec == Init /\ [][Next]_vars

(***************************************************************************)
(* Properties                                                              *)
(***************************************************************************)

\* Did the reading so far go through regular pages?  An odd page reports no
\* later page, so it is the last one.
Regular == response # None /\ response.is = "list"

\* "the caller cannot miss that data was truncated" (_truncate): whoever has
\* read to the last page reported, without a page that is marked truncated,
\* has every row the filter asks for, and a mark means that one is missing.
\* The mark is about one page and one limit, the rows about all pages.
NothingMissedSilently ==
    pc = "done" /\ Regular => (warned <=> Ids(seen) # Ids({r \in ToSet(listing) : Wanted(r)}))

\* What was got and what was reported as cut add up to what the pages read
\* so far had of what was asked for, whatever the page size, the limit and the
\* filter: the counts of the cut, of the filter and of the proxy are not mixed.
CutsCounted ==
    pc \in {"answered", "done"} /\ Regular =>
        Cardinality(Ids(seen)) + cut
            = Cardinality({i \in 1..Smaller(page * size, Len(listing)) : Wanted(listing[i])})
=============================================================================
