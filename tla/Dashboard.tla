------------------------------ MODULE Dashboard -------------------------------
(***************************************************************************)
(* DashboardApi.getRecentEvents over the outbox of EventStream: a client   *)
(* turns pages, older and newer, by the ids at the ends of the page it     *)
(* has, while events are inserted, commit out of order and are cleaned up. *)
(* Clients and replays only read, so a behaviour has either a client or    *)
(* replays, the first choice of all.                                       *)
(***************************************************************************)
EXTENDS EventStream

CONSTANT Limit    \* the events of a page, 8 unless options.limit is given

ASSUME LimitAssumption == Limit \in Nat \ {0}

VARIABLES
    viewer,      \* "replays", or whether the client has a page
    pagination,  \* of that page; 0 stands for null
    span,        \* the ids on, and between, the pages it has turned
    shown,       \* the events of these pages
    due          \* the rows that have been there since it opened the first one

clientVars == <<viewer, pagination, span, shown, due>>
dashboardVars == <<vars, clientVars>>

NoPage == [firstId |-> 0, lastId |-> 0, hasMore |-> FALSE]

DashboardTypeOK ==
    /\ TypeOK
    /\ viewer \in {"replays", "away", "paging"}
    /\ pagination \in [firstId : Events \cup {0}, lastId : Events \cup {0},
                       hasMore : BOOLEAN]
    /\ pagination.lastId <= pagination.firstId
    /\ span \in SUBSET Events
    /\ shown \in SUBSET Events
    /\ due \in SUBSET Events

DashboardInit ==
    /\ Init
    /\ viewer \in {"replays", "away"}
    /\ pagination = NoPage
    /\ span = {}
    /\ shown = {}
    /\ due = {}

------------------------------------------------------------------------------
(***************************************************************************)
(* One request.  A cursor is <<"newest">>, <<"before", id>> or             *)
(* <<"after", id>>.                                                        *)
(***************************************************************************)
Newest == <<"newest", 0>>
OlderThan(id) == <<"before", id>>
NewerThan(id) == <<"after", id>>

Within(cursor, id) ==
    /\ cursor[1] = "before" => id < cursor[2]
    /\ cursor[1] = "after" => id > cursor[2]

Sought(cursor) == {e \in Visible : Within(cursor, e)}

Nearer(cursor, d, e) == IF cursor[1] = "after" THEN d < e ELSE d > e

\* The answers of findRecent: the n rows next to the cursor.
FindRecent(cursor, n) ==
    {S \in SUBSET Sought(cursor) :
        /\ Cardinality(S) <= n
        /\ Cardinality(S) < n => S = Sought(cursor)
        /\ \A d \in S, e \in Sought(cursor) \ S : Nearer(cursor, d, e)}

NewestOf(S) == {e \in S : \A d \in S : d <= e}
OldestOf(S) == {e \in S : \A d \in S : e <= d}

\* Mutant of Items: slice(0, limit) whichever way the client goes.
ItemsFromTheFront(cursor, events) ==
    IF Cardinality(events) <= Limit THEN events ELSE events \ OldestOf(events)

\* One row more was asked for than is shown: slice(1) drops the newest of rows
\* after the cursor, slice(0, limit) the oldest of the others.
Items(cursor, events) ==
    IF Cardinality(events) <= Limit THEN events
    ELSE events \ (IF cursor[1] = "after" THEN NewestOf(events) ELSE OldestOf(events))

IdOf(S) == IF S = {} THEN 0 ELSE CHOOSE e \in S : TRUE

\* What a client may take the answer for: all that lies between the cursor
\* and the far end of the page, or all beyond the cursor if there is no more.
Covered(cursor, items, more) ==
    {e \in Events :
        /\ Within(cursor, e)
        /\ more => \E i \in items : e = i \/ Nearer(cursor, e, i)}

GetRecentEvents(cursor) ==
    \E events \in FindRecent(cursor, Limit + 1) :
        LET more == Cardinality(events) > Limit
            items == Items(cursor, events)
        IN  /\ pagination' = [firstId |-> IdOf(NewestOf(items)),
                        lastId |-> IdOf(OldestOf(items)),
                        hasMore |-> more]
            /\ span' = span \cup Covered(cursor, items, more)
            /\ shown' = shown \cup items

------------------------------------------------------------------------------
\* A client begins with the newest events, or at an id it knows.
Open ==
    /\ viewer = "away"
    /\ viewer' = "paging"
    /\ due' = Visible
    /\ \/ GetRecentEvents(Newest)
       \/ \E id \in Events :
            GetRecentEvents(OlderThan(id)) \/ GetRecentEvents(NewerThan(id))

LoadOlder ==
    /\ viewer = "paging" /\ pagination.lastId # 0
    /\ GetRecentEvents(OlderThan(pagination.lastId))
    /\ UNCHANGED <<viewer, due>>

LoadNewer ==
    /\ viewer = "paging" /\ pagination.firstId # 0
    /\ GetRecentEvents(NewerThan(pagination.firstId))
    /\ UNCHANGED <<viewer, due>>

Leave ==
    /\ viewer = "paging"
    /\ viewer' = "away"
    /\ pagination' = NoPage /\ span' = {} /\ shown' = {} /\ due' = {}

ClientStep ==
    /\ Open \/ LoadOlder \/ LoadNewer \/ Leave
    /\ UNCHANGED vars

OutboxStep ==
    /\ \/ \E e \in Events : BeginTransaction(e) \/ Insert(e) \/ Commit(e) \/ Complete(e)
       \/ \E dead \in SUBSET Events : Cleanup(dead)
    /\ due' = {e \in due : rows'[e] # "DELETED"}
    /\ UNCHANGED <<viewer, pagination, span, shown>>

ReplaysStep ==
    /\ viewer = "replays"
    /\ \/ \E r \in Replays :
            \/ Replay(r) \/ StreamPage(r)
            \/ ReplayToState(r) \/ FoldPage(r) \/ Save(r)
            \/ Abandon(r)
       \/ DeleteSnapshot
    /\ UNCHANGED clientVars

DashboardNext == OutboxStep \/ ReplaysStep \/ ClientStep

DashboardSpec == DashboardInit /\ [][DashboardNext]_dashboardVars

------------------------------------------------------------------------------
\* However a client turns the pages, and whatever is inserted, committed late
\* or deleted meanwhile: an event that was there all the time is on one of its
\* pages if it lies between two of them, or beyond one that said there was no
\* more.
PagesSkipNothing == due \cap span \subseteq shown
==============================================================================
