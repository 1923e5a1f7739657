-------------------------------- MODULE Webhooks --------------------------------
(***************************************************************************)
(* Webhook destinations of a tenant (src/routes/console-webhooks.ts) and   *)
(* the page that keeps a copy of them (dashboard/src/routes/tenant/        *)
(* webhooks.tsx): its list query, the optimistic toggle, the deletion.     *)
(*                                                                         *)
(* The page's create sends "events" where the server wants "event_filter", *)
(* and is always refused; so is the toggle's PATCH, which has no route.    *)
(* Only other clients create.                                              *)
(***************************************************************************)
EXTENDS Integers, FiniteSets

CONSTANTS
    Ids,        \* webhooks
    Calls,      \* POSTs under way
    Toggles,    \* toggles of the page under way
    Cap,        \* webhooks of an environment
    None

VARIABLES
    rows,       \* tenant_webhooks; a row keeps the switch it was created with
    gone,       \* ids that were used
    call,       \* POSTs: idle, or past the count
    cache,      \* page: the list, each row with its switch
    fetch,      \* page: the list query under way
    errored,    \* page: the last list query failed
    toggle,     \* page: toggles, with the list they would put back
    removing,   \* page: deletions under way
    unseen      \* history: rows changed without the page's doing, since it last read

vars == <<rows, gone, call, cache, fetch, errored, toggle, removing, unseen>>
page == <<cache, fetch, errored, toggle, removing>>

RowsOf(i) == {r \in rows : r.id = i}
Listed == rows
Quiet == [at |-> "none"]

Init ==
    /\ rows = {} /\ gone = {} /\ call = [c \in Calls |-> "idle"]
    /\ cache = None /\ fetch = Quiet /\ errored = FALSE
    /\ toggle = [t \in Toggles |-> Quiet] /\ removing = [i \in Ids |-> "no"]
    /\ unseen = FALSE

-----------------------------------------------------------------------------
(* The server *)

CountWebhooks(c) ==
    /\ call[c] = "idle" /\ Cardinality(rows) < Cap
    /\ call' = [call EXCEPT ![c] = "insert"]
    /\ UNCHANGED <<rows, gone, page, unseen>>

InsertWebhook(c, i) ==
    /\ call[c] = "insert" /\ RowsOf(i) = {} /\ i \notin gone
    /\ \E on \in BOOLEAN : rows' = rows \cup {[id |-> i, enabled |-> on]}
    /\ unseen' = TRUE
    /\ call' = [call EXCEPT ![c] = "idle"]
    /\ UNCHANGED <<gone, page>>

CallFails(c) ==
    /\ call[c] = "insert" /\ call' = [call EXCEPT ![c] = "idle"]
    /\ UNCHANGED <<rows, gone, page, unseen>>

\* Any other client.
DeleteWebhook(i) ==
    /\ RowsOf(i) # {} /\ rows' = rows \ RowsOf(i) /\ gone' = gone \cup {i} /\ unseen' = TRUE
    /\ UNCHANGED <<call, page>>

-----------------------------------------------------------------------------
(* The page's list query *)

\* Mount, or a query gone stale.
Refetch ==
    /\ fetch = Quiet /\ fetch' = [at |-> "asked"]
    /\ UNCHANGED <<rows, gone, call, cache, errored, toggle, removing, unseen>>

\* invalidateQueries: an answer under way is dropped, and asked for again.
Invalidated == fetch' = [at |-> "asked"]

ListWebhooks ==
    /\ fetch.at = "asked" /\ fetch' = [at |-> "answered", list |-> Listed]
    /\ unseen' = FALSE
    /\ UNCHANGED <<rows, gone, call, cache, errored, toggle, removing>>

ListArrives ==
    /\ fetch.at = "answered"
    /\ cache' = fetch.list /\ fetch' = Quiet /\ errored' = FALSE
    /\ UNCHANGED <<rows, gone, call, toggle, removing, unseen>>

ListFails ==
    /\ fetch.at # "none" /\ fetch' = Quiet /\ errored' = TRUE
    /\ UNCHANGED <<rows, gone, call, cache, toggle, removing, unseen>>

-----------------------------------------------------------------------------
(* The page's mutations *)

\* onMutate: cancel the list query, keep the list, flip the switch in it.
ToggleStarts(t, i) ==
    /\ toggle[t] = Quiet /\ cache # None /\ \E r \in cache : r.id = i
    /\ \A u \in Toggles : toggle[u].at # "none" => toggle[u].id # i
    /\ fetch' = Quiet
    /\ toggle' = [toggle EXCEPT ![t] = [at |-> "sent", id |-> i, prev |-> cache]]
    /\ cache' = {IF r.id = i THEN [r EXCEPT !.enabled = ~@] ELSE r : r \in cache}
    /\ errored' = FALSE
    /\ UNCHANGED <<rows, gone, call, removing, unseen>>

\* onError restores the list it kept; onSettled invalidates.
ToggleKeepsQuiet(t) ==
    /\ toggle[t].at = "sent"
    /\ cache' = toggle[t].prev /\ errored' = FALSE /\ fetch' = fetch
    /\ toggle' = [toggle EXCEPT ![t] = Quiet]
    /\ UNCHANGED <<rows, gone, call, removing, unseen>>
ToggleFails(t) ==
    /\ toggle[t].at = "sent"
    /\ cache' = toggle[t].prev /\ errored' = FALSE /\ Invalidated
    /\ toggle' = [toggle EXCEPT ![t] = Quiet]
    /\ UNCHANGED <<rows, gone, call, removing, unseen>>

RemoveStarts(i) ==
    /\ cache # None /\ (\E r \in cache : r.id = i) /\ removing[i] = "no"
    /\ removing' = [removing EXCEPT ![i] = "sent"]
    /\ UNCHANGED <<rows, gone, call, cache, fetch, errored, toggle, unseen>>

\* The DELETE, if there is a row: the handler of any other client's, too.
DeletesOwn(i) ==
    /\ removing[i] = "sent" /\ RowsOf(i) # {}
    /\ rows' = rows \ RowsOf(i) /\ gone' = gone \cup {i}
    /\ removing' = [removing EXCEPT ![i] = "done"]
    /\ UNCHANGED <<call, cache, fetch, errored, toggle, unseen>>

RemoveOk(i) ==
    /\ removing[i] = "done" /\ removing' = [removing EXCEPT ![i] = "no"]
    /\ Invalidated
    /\ UNCHANGED <<rows, gone, call, cache, errored, toggle, unseen>>

\* Refused, not found, or the answer is lost: a message, and the list stays.
RemoveFails(i) ==
    /\ removing[i] # "no" /\ removing' = [removing EXCEPT ![i] = "no"]
    /\ unseen' = (unseen \/ removing[i] = "done")
    /\ UNCHANGED <<rows, gone, call, cache, fetch, errored, toggle>>

Next ==
    \/ \E c \in Calls : CountWebhooks(c) \/ CallFails(c) \/ \E i \in Ids : InsertWebhook(c, i)
    \/ \E i \in Ids : DeleteWebhook(i) \/ RemoveStarts(i) \/ DeletesOwn(i) \/ RemoveOk(i)
                      \/ RemoveFails(i)
    \/ \E t \in Toggles : ToggleFails(t) \/ \E i \in Ids : ToggleStarts(t, i)
    \/ Refetch \/ ListWebhooks \/ ListArrives \/ ListFails

-----------------------------------------------------------------------------
(* Properties *)

TypeOK ==
    /\ rows \subseteq [id : Ids, enabled : BOOLEAN] /\ gone \subseteq Ids
    /\ \A r \in rows : r.id \notin gone /\ RowsOf(r.id) = {r}
    /\ call \in [Calls -> {"idle", "insert"}]
    /\ cache = None \/ \A r \in cache : r.id \in Ids
    /\ fetch.at \in {"none", "asked", "answered"}
    /\ removing \in [Ids -> {"no", "sent", "done"}]

AtRest == fetch = Quiet /\ (\A t \in Toggles : toggle[t] = Quiet) /\ \A i \in Ids : removing[i] = "no"

\* Whatever toggles, deletions and list queries crossed: once nothing is under way
\* the page shows the server's rows, with their switches, unless the list failed to
\* load or changed behind its back (webhooks.tsx:40-75).
PageSettles == AtRest /\ cache # None /\ ~errored /\ ~unseen => cache = Listed

\* The count comes before the INSERT: the cap is exceeded by concurrent POSTs, by
\* no more than their number (console-webhooks.ts:283-311).
WebhooksNearCap ==
    Cardinality(rows) + Cardinality({c \in Calls : call[c] = "insert"})
        <= Cap - 1 + Cardinality(Calls)

WebhooksHold == PageSettles /\ WebhooksNearCap
=============================================================================
