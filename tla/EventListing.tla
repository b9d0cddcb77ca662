---------------------------- MODULE EventListing ----------------------------
(***************************************************************************)
(* The listing of events, page by page: EventRepository.list_events,       *)
(* EventService.list_events and PaginatedResponse.                         *)
(*                                                                         *)
(* A page takes two statements, a count and a slice, and each sees what is *)
(* committed when it runs.  A client walks through the pages while the     *)
(* events change:                                                          *)
(*                                                                         *)
(*   idle -> count -> items -> count -> ... -> items -> done -> idle       *)
(*                                                                         *)
(* Of a row only the status and the start date matter.  The search by text *)
(* and the last date select rows as the status and the first date do and   *)
(* are left out.                                                           *)
(***************************************************************************)
EXTENDS EventRules, Sequences, FiniteSetsExt

CONSTANTS Events,
          Dates,           \* start dates
          Statuses,        \* statuses the events may take
          StatusFilters,   \* status of EventListParams, AnyStatus for none
          DateFilters,     \* start_date_from of EventListParams
          Limits,          \* limit of EventListParams
          NoEvent

AnyStatus == "any"

ASSUME ListingAssumption ==
  /\ IsFiniteSet(Events)
  /\ Dates \subseteq Int
  /\ Statuses \subseteq EventStatus
  /\ StatusFilters \subseteq EventStatus \cup {AnyStatus}
  /\ DateFilters \subseteq Int
  /\ Limits \subseteq 1 .. 100

VARIABLES table,    \* the committed rows of events
          params,   \* the EventListParams of the walk
          walk,     \* how far the walk has come
          hist      \* history: what has happened to the listing since the walk began

vars == <<table, params, walk, hist>>

Row == [status : Statuses, start_date : Dates]
Params == [status : StatusFilters, start_date_from : DateFilters,
           descending : BOOLEAN, limit : Limits]

\* A page number grows only while there are pages.
Pages == 1 .. Cardinality(Events) + 1

TypeOK == /\ table \in [Events -> Row \cup {NoEvent}]
          /\ params \in Params
          /\ walk.pc \in {"idle", "count", "items", "done"}
          /\ walk.page \in Pages
          /\ walk.total \in 0 .. Cardinality(Events)
          /\ Len(walk.items) <= params.limit
          /\ walk.returned \in [Events -> 0 .. Cardinality(Events) + 1]
          /\ hist \in [always : SUBSET Events, left : BOOLEAN, came : BOOLEAN,
                       gap : BOOLEAN, quiet : BOOLEAN, tied : BOOLEAN]

-----------------------------------------------------------------------------
(* The statements *)

\* list_events hides cancelled events unless a status is asked for.
Selects(p, row) ==
  /\ row # NoEvent
  /\ IF p.status = AnyStatus THEN row.status # "cancelled" ELSE row.status = p.status
  /\ row.start_date >= p.start_date_from

Listed == {e \in Events : Selects(params, table[e])}

\* Mutant: the count without the filters.
TotalOfAll == Cardinality({e \in Events : table[e] # NoEvent})

Total == Cardinality(Listed)

Precedes(d, e) ==
  IF params.descending THEN table[d].start_date > table[e].start_date
                       ELSE table[d].start_date < table[e].start_date

\* Mutant: a SELECT without ORDER BY.
OrdersAny ==
  {s \in [1 .. Cardinality(Listed) -> Listed] :
     \A i, j \in DOMAIN s : i < j => s[i] # s[j]}

\* The orders a SELECT may return the rows in: by start_date, and rows of one
\* date in any order.
Orders ==
  {s \in [1 .. Cardinality(Listed) -> Listed] :
     \A i, j \in DOMAIN s : i < j => s[i] # s[j] /\ ~Precedes(s[j], s[i])}

\* Mutant: pages counted from zero.
OffsetFromZero == walk.page * params.limit

Offset == (walk.page - 1) * params.limit

\* Mutant: a page without LIMIT.
SliceUnlimited(s) == SubSeq(s, Offset + 1, Len(s))

Slice(s) == SubSeq(s, Offset + 1, Min({Offset + params.limit, Len(s)}))

\* Mutant: the last, partial page forgotten.
PageCountFull(total) == total \div params.limit

PageCount(total) == (total + params.limit - 1) \div params.limit

-----------------------------------------------------------------------------
(* The walk *)

Tied == \E d, e \in Listed : d # e /\ table[d].start_date = table[e].start_date

NothingReturned == [e \in Events |-> 0]
Idle == [pc |-> "idle", page |-> 1, total |-> 0, items |-> <<>>, returned |-> NothingReturned]
Unobserved == [always |-> {}, left |-> FALSE, came |-> FALSE, gap |-> FALSE,
               quiet |-> TRUE, tied |-> FALSE]

Init == /\ table \in [Events -> Row \cup {NoEvent}]
        /\ params \in Params
        /\ walk = Idle
        /\ hist = Unobserved

BeginWalk ==
  /\ walk.pc = "idle"
  /\ walk' = [Idle EXCEPT !.pc = "count"]
  /\ hist' = [Unobserved EXCEPT !.always = Listed, !.tied = Tied]
  /\ UNCHANGED <<table, params>>

CountEvents ==
  /\ walk.pc = "count"
  /\ walk' = [walk EXCEPT !.pc = "items", !.total = Total, !.items = <<>>]
  /\ hist' = [hist EXCEPT !.quiet = TRUE]
  /\ UNCHANGED <<table, params>>

\* The second statement and PaginatedResponse.build.  The client asks for the
\* next page while this one says there is one.
ListEvents ==
  /\ walk.pc = "items"
  /\ \E s \in Orders :
       LET items == Slice(s)
           more == walk.page < PageCount(walk.total)
       IN walk' = [walk EXCEPT
                     !.pc = IF more THEN "count" ELSE "done",
                     !.page = IF more THEN @ + 1 ELSE @,
                     !.items = items,
                     !.returned = [e \in Events |->
                                     @[e] + Cardinality({i \in DOMAIN items : items[i] = e})]]
  /\ UNCHANGED <<table, params, hist>>

\* The next walk may ask for something else.
EndWalk ==
  /\ walk.pc = "done"
  /\ walk' = Idle
  /\ hist' = Unobserved
  /\ params' \in Params
  /\ UNCHANGED table

-----------------------------------------------------------------------------
(* The other requests *)

\* A request of a manager commits the row of an event.
Store(e, row) ==
  /\ table' = [table EXCEPT ![e] = row]
  /\ UNCHANGED <<params, walk>>
  /\ LET before == Selects(params, table[e])
         after == Selects(params, row)
         moved == before /\ after /\ table[e].start_date # row.start_date
         left == moved \/ (before /\ ~after)
         came == moved \/ (after /\ ~before)
     IN hist' = IF walk.pc = "idle" THEN hist
                ELSE [hist EXCEPT
                        !.always = IF after THEN @ ELSE @ \ {e},
                        !.left = @ \/ left,
                        !.came = @ \/ came,
                        !.gap = @ \/ (came /\ walk.pc = "items"),
                        !.quiet = FALSE,
                        !.tied = @ \/ Tied']

\* create_event: a draft, or published at once.
CreateEvent(e, row) ==
  table[e] = NoEvent /\ row.status \in {"draft", "published"} /\ Store(e, row)

\* update_event or delete_event.  What was decided from a stale read may overwrite
\* any status (module EventBooking, StatusMachine), but none leads back to draft.
ChangeEvent(e, row) ==
  /\ table[e] # NoEvent /\ (row.status = table[e].status \/ row.status # "draft")
  /\ Store(e, row)

Write(e, row) == CreateEvent(e, row) \/ ChangeEvent(e, row)

Next == \/ BeginWalk \/ CountEvents \/ ListEvents \/ EndWalk
        \/ \E e \in Events, row \in Row : Write(e, row)

Spec == Init /\ [][Next]_vars

-----------------------------------------------------------------------------
(* Properties *)

\* A walk through a listing that stands still, its dates all different, returns
\* every listed event once and nothing else (event_repository.py, list_events).
StillWalkComplete ==
  walk.pc = "done" /\ ~hist.left /\ ~hist.came /\ ~hist.tied =>
    \A e \in Events : walk.returned[e] = IF e \in Listed THEN 1 ELSE 0

\* An event that stays listed is skipped only if another one has left its place,
\* or has come between the count and the slice of a page (schemas/common.py,
\* pages), or shares a date with one.
SkippedOnlyByLeaving ==
  walk.pc = "done" /\ ~hist.left /\ ~hist.gap /\ ~hist.tied =>
    \A e \in hist.always : walk.returned[e] >= 1

\* An event is returned twice only if one has come into the listing, or moved in
\* it, since the walk began, or shares a date with another.
RepeatedOnlyByComing ==
  ~hist.came /\ ~hist.tied => \A e \in Events : walk.returned[e] <= 1

\* The total and the items of a page agree when nothing was committed between
\* their two statements.
PageMatchesTotal ==
  [][walk.pc = "items" /\ walk'.pc \in {"count", "done"} /\ hist.quiet =>
       Len(walk'.items) = Min({params.limit, Max({0, walk.total - Offset})})]_vars
=============================================================================
