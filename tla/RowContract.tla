----------------------------- MODULE RowContract -----------------------------
(***************************************************************************)
(* What the server promises to agents that update one row at the same      *)
(* time, with nothing said of parameters, bodies, echoes and verification. *)
(*                                                                         *)
(* Each call names some columns and what they are to hold.  It takes       *)
(* effect at most once, in one step, on columns that it names and on no    *)
(* other, and leaves there what it asked for.  "ok" vouches for the        *)
(* columns of Promises: they were written.  An error promises nothing: the *)
(* update may have been made, or may be made later.                        *)
(***************************************************************************)
CONSTANTS
    Calls,
    Columns,
    Contents,   \* what a column may hold
    Promises    \* Promises[c]: the columns the answer "ok" to c vouches for

VARIABLES
    wants,      \* what each call asks for, column by column
    status,     \* "idle", "open", "ok" or "error"
    row,        \* the row
    done,       \* the calls that have taken effect
    kept        \* the columns each of them wrote

rvars == <<wants, status, row, done, kept>>

Updates == UNION {[D -> Contents] : D \in SUBSET Columns}

Init ==
    /\ \A c \in Calls : DOMAIN wants[c] = {}
    /\ status = [c \in Calls |-> "idle"]
    /\ row \in [Columns -> Contents]
    /\ done = {}
    /\ kept = [c \in Calls |-> {}]

Ask(c) ==
    /\ status[c] = "idle"
    /\ \E u \in Updates : wants' = [wants EXCEPT ![c] = u]
    /\ status' = [status EXCEPT ![c] = "open"]
    /\ UNCHANGED <<row, done, kept>>

\* The whole update at once, also when the call has been answered with an
\* error; some of its columns may be dropped.
Update(c) ==
    /\ status[c] \in {"open", "error"}
    /\ c \notin done
    /\ \E written \in SUBSET DOMAIN wants[c] :
         /\ row' = [f \in Columns |-> IF f \in written THEN wants[c][f] ELSE row[f]]
         /\ kept' = [kept EXCEPT ![c] = written]
    /\ done' = done \cup {c}
    /\ UNCHANGED <<wants, status>>

Succeed(c) ==
    /\ status[c] = "open"
    /\ c \in done /\ Promises[c] \cap DOMAIN wants[c] \subseteq kept[c]
    /\ status' = [status EXCEPT ![c] = "ok"]
    /\ UNCHANGED <<wants, row, done, kept>>

\* Also a call whose parameters are refused before it asks for anything.
Fail(c) ==
    /\ status[c] \in {"idle", "open"}
    /\ status' = [status EXCEPT ![c] = "error"]
    /\ UNCHANGED <<wants, row, done, kept>>

Next == \E c \in Calls : Ask(c) \/ Update(c) \/ Succeed(c) \/ Fail(c)

Spec == Init /\ [][Next]_rvars
=============================================================================
