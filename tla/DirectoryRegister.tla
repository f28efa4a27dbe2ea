-------------------------- MODULE DirectoryRegister --------------------------
(***************************************************************************)
(* What the symbol directory promises whoever searches it, with no bucket,  *)
(* no manifest and no refresh in sight: it is one register that is replaced *)
(* as a whole.  A search looks at it once and shows the page of what it     *)
(* has seen, however long it takes over it, or fails.                       *)
(***************************************************************************)
CONSTANTS Search, Directory, Query,
          Page      \* the page of a directory for a query

VARIABLES
    current,  \* the directory, or {} before there is one
    phase, query,
    view,     \* the directory a search has seen, or {}
    shown     \* the page it has shown

searchVars == <<phase, query, view, shown>>
vars == <<current, searchVars>>

Init ==
    /\ current = {}
    /\ phase = [s \in Search |-> "idle"]
    /\ query = [s \in Search |-> <<>>]
    /\ view = [s \in Search |-> {}]
    /\ shown = [s \in Search |-> <<>>]

Replace(d) ==
    /\ current' = d
    /\ UNCHANGED searchVars

Ask(s) ==
    /\ phase[s] = "idle"
    /\ \E q \in Query : query' = [query EXCEPT ![s] = q]
    /\ phase' = [phase EXCEPT ![s] = "asked"]
    /\ UNCHANGED <<current, view, shown>>

Sees(s, d) ==
    \/ phase[s] = "asked" /\ current # {} /\ d = current
    \/ phase[s] = "looking" /\ d = view[s]

Look(s) ==
    /\ phase[s] = "asked" /\ current # {}
    /\ phase' = [phase EXCEPT ![s] = "looking"]
    /\ view' = [view EXCEPT ![s] = current]
    /\ UNCHANGED <<current, query, shown>>

Show(s, d) ==
    /\ Sees(s, d)
    /\ phase' = [phase EXCEPT ![s] = "answered"]
    /\ view' = [view EXCEPT ![s] = d]
    /\ shown' = [shown EXCEPT ![s] = Page[d][query[s]]]
    /\ UNCHANGED <<current, query>>

Fail(s) ==
    /\ phase[s] \in {"asked", "looking"}
    /\ phase' = [phase EXCEPT ![s] = "failed"]
    /\ view' = [view EXCEPT ![s] = {}]
    /\ UNCHANGED <<current, query, shown>>

Next ==
    \/ \E d \in Directory : Replace(d)
    \/ \E s \in Search : \/ Ask(s) \/ Look(s) \/ Fail(s)
                         \/ \E d \in Directory : Show(s, d)

Spec == Init /\ [][Next]_vars
=============================================================================
