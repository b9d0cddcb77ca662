------------------------- MODULE EventListingProofs -------------------------
(***************************************************************************)
(* What a walk through the pages of EventListing returns, for any events,  *)
(* dates, filters and page sizes.                                          *)
(***************************************************************************)
EXTENDS EventListing, FiniteSetTheorems, SequenceTheorems, TLAPS

(***************************************************************************)
(* Arithmetic of pages.                                                    *)
(***************************************************************************)

\* Where a page begins, and where it ends.
LEMMA PageEnds ==
  ASSUME NEW p \in Nat \ {0}, NEW l \in Nat \ {0}
  PROVE  (p - 1) * l \in Nat /\ (p - 1) * l + l = p * l
<1>1. p - 1 \in Nat
  OBVIOUS
<1>2. \A m, k \in Nat : m * k \in Nat
  OBVIOUS
<1>3. (p - 1) * l \in Nat
  BY <1>1, <1>2
<1>4. (p - 1) * l + l = p * l
  OBVIOUS
<1> QED BY <1>3, <1>4

\* The pages counted hold all rows, and there are no more of them than rows.
LEMMA PagesCover ==
  ASSUME NEW total \in Nat, params.limit \in Nat \ {0}
  PROVE  /\ PageCount(total) \in Nat
         /\ total <= PageCount(total) * params.limit
         /\ PageCount(total) <= total
BY DEF PageCount

\* The smaller of two numbers.
LEMMA MinOfTwo ==
  ASSUME NEW a \in Int, NEW b \in Int
  PROVE  Min({a, b}) = IF a <= b THEN a ELSE b
BY DEF Min

\* The larger of two numbers.
LEMMA MaxOfTwo ==
  ASSUME NEW a \in Int, NEW b \in Int
  PROVE  Max({a, b}) = IF a >= b THEN a ELSE b
BY DEF Max

(***************************************************************************)
(* Types.  A walk returns an event at most once a page.                    *)
(***************************************************************************)

\* The pages a walk has returned.
PagesDone == IF walk.pc = "done" THEN walk.page ELSE walk.page - 1

TypeInv ==
  /\ table \in [Events -> Row \cup {NoEvent}]
  /\ params \in Params
  /\ walk \in [pc : {"idle", "count", "items", "done"}, page : Nat \ {0},
               total : 0 .. Cardinality(Events), items : Seq(Events),
               returned : [Events -> Nat]]
  /\ hist \in [always : SUBSET Events, left : BOOLEAN, came : BOOLEAN,
               gap : BOOLEAN, quiet : BOOLEAN, tied : BOOLEAN]
  /\ walk.page <= Cardinality(Events) + 1
  /\ Len(walk.items) <= params.limit
  /\ \A e \in Events : walk.returned[e] <= PagesDone

\* The listing is finite, no larger than the table.
LEMMA ListedFinite ==
  /\ Cardinality(Events) \in Nat
  /\ IsFiniteSet(Listed) /\ Listed \subseteq Events
  /\ Cardinality(Listed) \in 0 .. Cardinality(Events)
<1>1. Listed \in SUBSET Events
  BY DEF Listed
<1>2. IsFiniteSet(Events) /\ Cardinality(Events) \in Nat
  BY ListingAssumption, FS_CardinalityType
<1>3. IsFiniteSet(Listed) /\ Cardinality(Listed) <= Cardinality(Events)
  BY <1>1, <1>2, FS_Subset
<1>4. Cardinality(Listed) \in Nat
  BY <1>3, FS_CardinalityType
<1> QED BY <1>1, <1>2, <1>3, <1>4

\* A page has room for one event at least.
LEMMA LimitType ==
  ASSUME NEW p \in Params
  PROVE  p.limit \in Nat \ {0}
<1>1. p.limit \in Limits
  BY DEF Params
<1>2. p.limit \in 1 .. 100
  BY <1>1, ListingAssumption
<1> QED BY <1>2

\* The slice of a page begins where the pages before it end.
LEMMA ParamTypes ==
  ASSUME TypeInv
  PROVE  /\ params.limit \in Nat \ {0}
         /\ walk.page \in Nat \ {0}
         /\ Offset \in Nat
         /\ Offset + params.limit = walk.page * params.limit
<1>1. params.limit \in Nat \ {0}
  BY LimitType DEF TypeInv
<1>2. walk.page \in Nat \ {0}
  BY DEF TypeInv
<1> QED BY <1>1, <1>2, PageEnds DEF Offset

\* A listed event is a row with a date.
LEMMA ListedRow ==
  ASSUME TypeInv, NEW e \in Listed
  PROVE  e \in Events /\ table[e] \in Row /\ table[e].start_date \in Int
<1>1. e \in Events /\ table[e] # NoEvent
  BY DEF Listed, Selects
<1>2. table[e] \in Row
  BY <1>1 DEF TypeInv
<1> QED BY <1>1, <1>2, ListingAssumption DEF Row

-----------------------------------------------------------------------------
(***************************************************************************)
(* The place of an event in the listing.  Where no two listed events share *)
(* a date every SELECT returns them in one order, and the place of each is *)
(* the number of events before it.                                         *)
(***************************************************************************)
Before(e) == {d \in Listed : Precedes(d, e)}
Rank(e) == Cardinality(Before(e))

\* A place is a number.
LEMMA RankType ==
  ASSUME NEW e
  PROVE  IsFiniteSet(Before(e)) /\ Rank(e) \in Nat
<1>1. Before(e) \subseteq Listed
  BY DEF Before
<1> QED BY <1>1, ListedFinite, FS_Subset, FS_CardinalityType DEF Rank

\* A SELECT returns every listed event at one place.
LEMMA OrderIsBijection ==
  ASSUME NEW s \in Orders
  PROVE  /\ \A i, j \in 1 .. Cardinality(Listed) : s[i] = s[j] => i = j
         /\ \A e \in Listed : \E i \in 1 .. Cardinality(Listed) : s[i] = e
<1> DEFINE n == Cardinality(Listed)
<1>1. n \in Nat /\ IsFiniteSet(Listed) /\ IsFiniteSet(1 .. n) /\ Cardinality(1 .. n) = n
  BY ListedFinite, FS_Interval
<1>2. s \in [1 .. n -> Listed]
  BY DEF Orders
<1>3. \A i, j \in 1 .. n : s[i] = s[j] => i = j
  <2> SUFFICES ASSUME NEW i \in 1 .. n, NEW j \in 1 .. n, s[i] = s[j]
               PROVE  i = j
    OBVIOUS
  <2>1. i < j => s[i] # s[j]
    BY <1>2 DEF Orders
  <2>2. j < i => s[j] # s[i]
    BY <1>2 DEF Orders
  <2> QED BY <1>1, <2>1, <2>2
<1>4. s \in Injection(1 .. n, Listed)
  BY <1>2, <1>3 DEF Injection, IsInjective
<1>5. s \in Surjection(1 .. n, Listed)
  BY <1>1, <1>4, FS_Injection
<1> QED BY <1>3, <1>5 DEF Surjection

\* Where no dates are shared, a SELECT returns each event at its place.
LEMMA OrderIsRank ==
  ASSUME TypeInv, ~Tied, NEW s \in Orders, NEW i \in 1 .. Cardinality(Listed)
  PROVE  s[i] \in Listed /\ Rank(s[i]) = i - 1
<1> DEFINE n == Cardinality(Listed)
           e == s[i]
           f == [j \in 1 .. i - 1 |-> s[j]]
<1>1. n \in Nat /\ s \in [1 .. n -> Listed] /\ e \in Listed /\ i \in Nat
  BY ListedFinite DEF Orders
<1>2. \A j \in 1 .. i - 1 : s[j] \in Before(e)
  <2> SUFFICES ASSUME NEW j \in 1 .. i - 1 PROVE s[j] \in Before(e)
    OBVIOUS
  <2>1. j \in 1 .. n /\ j < i /\ s[j] \in Listed
    BY <1>1
  <2>2. s[j] # e /\ ~Precedes(e, s[j])
    BY <1>1, <2>1 DEF Orders
  <2>3. table[s[j]].start_date # table[e].start_date
    BY <1>1, <2>1, <2>2 DEF Tied
  <2>4. Precedes(s[j], e)
    BY <1>1, <2>1, <2>2, <2>3, ListedRow DEF Precedes
  <2> QED BY <2>1, <2>4 DEF Before
<1>3. \A d \in Before(e) : \E j \in 1 .. i - 1 : s[j] = d
  <2> SUFFICES ASSUME NEW d \in Before(e) PROVE \E j \in 1 .. i - 1 : s[j] = d
    OBVIOUS
  <2>1. d \in Listed /\ Precedes(d, e)
    BY DEF Before
  <2>2. PICK j \in 1 .. n : s[j] = d
    BY <2>1, OrderIsBijection
  <2>3. j # i
    BY <1>1, <2>1, <2>2, ListedRow DEF Precedes
  <2>4. ~(i < j)
    BY <1>1, <2>1, <2>2 DEF Orders
  <2>5. j \in 1 .. i - 1
    BY <1>1, <2>3, <2>4
  <2> QED BY <2>2, <2>5
<1>4. \A j, k \in 1 .. i - 1 : s[j] = s[k] => j = k
  BY <1>1, OrderIsBijection
<1>5. f \in Bijection(1 .. i - 1, Before(e))
  <2>1. f \in Injection(1 .. i - 1, Before(e))
    BY <1>2, <1>4 DEF Injection, IsInjective
  <2>2. f \in Surjection(1 .. i - 1, Before(e))
    BY <1>2, <1>3 DEF Surjection
  <2> QED BY <2>1, <2>2 DEF Bijection
<1>6. IsFiniteSet(1 .. i - 1) /\ Cardinality(1 .. i - 1) = i - 1
  <2>1. /\ IsFiniteSet(1 .. i - 1)
        /\ Cardinality(1 .. i - 1) = IF 1 > i - 1 THEN 0 ELSE (i - 1) - 1 + 1
    <3>1. 1 \in Int /\ i - 1 \in Int
      BY <1>1
    <3> QED BY <3>1, FS_Interval
  <2> QED BY <1>1, <2>1
<1>7. Cardinality(Before(e)) = i - 1
  <2>1. ExistsBijection(1 .. i - 1, Before(e))
    BY <1>5 DEF ExistsBijection
  <2> QED BY <1>6, <2>1, FS_Bijection
<1> QED BY <1>1, <1>7 DEF Rank

\* The place of a listed event is one of the listing.
LEMMA RankBelowTotal ==
  ASSUME TypeInv, NEW e \in Listed
  PROVE  Rank(e) < Total
<1>1. e \notin Before(e)
  BY ListedRow DEF Before, Precedes
<1>2. Before(e) \in SUBSET (Listed \ {e})
  BY <1>1 DEF Before
<1>3. /\ IsFiniteSet(Listed \ {e})
      /\ Cardinality(Listed \ {e}) = Cardinality(Listed) - 1
  BY ListedFinite, FS_RemoveElement
<1>4. Rank(e) <= Cardinality(Listed \ {e})
  BY <1>2, <1>3, FS_Subset DEF Rank
<1> QED BY <1>3, <1>4, ListedFinite, RankType DEF Total

-----------------------------------------------------------------------------
(***************************************************************************)
(* The slice of a page.                                                    *)
(***************************************************************************)
Hits(items, e) == Cardinality({i \in DOMAIN items : items[i] = e})

\* A slice holds what the order has at the places of the page, and nothing else.
LEMMA SliceShape ==
  ASSUME TypeInv, NEW s \in Orders
  PROVE  /\ Slice(s) \in Seq(Events)
         /\ Len(Slice(s)) = Min({params.limit, Max({0, Total - Offset})})
         /\ Len(Slice(s)) <= params.limit
         /\ \A i \in 1 .. Len(Slice(s)) :
              i + Offset \in 1 .. Total /\ Slice(s)[i] = s[i + Offset]
         /\ \A k \in 1 .. Total :
              Offset < k /\ k <= Offset + params.limit =>
                k - Offset \in 1 .. Len(Slice(s))
<1> DEFINE o == Offset
           l == params.limit
           last == Min({o + l, Total})
           t == SubSeq(s, o + 1, last)
<1>1. o \in Nat /\ l \in Nat \ {0} /\ Total \in Nat
  BY ParamTypes, ListedFinite DEF Total
<1>2. s \in [1 .. Total -> Listed]
  BY DEF Orders, Total
<1>3. Len(s) = Total
  BY <1>1, <1>2
<1>4. last = IF o + l <= Total THEN o + l ELSE Total
  BY <1>1, MinOfTwo
<1>5. last \in Nat /\ last <= Total /\ last <= o + l
  BY <1>1, <1>4
<1>6. Slice(s) = t
  BY <1>3 DEF Slice
<1> HIDE DEF last
<1>7. \A i \in o + 1 .. last : i \in 1 .. Total /\ s[i] \in Events
  BY <1>1, <1>2, <1>5, ListedFinite
<1>8. /\ t \in Seq(Events)
      /\ Len(t) = IF o + 1 <= last THEN last - (o + 1) + 1 ELSE 0
      /\ \A i \in 1 .. last - (o + 1) + 1 : t[i] = s[(o + 1) + i - 1]
  <2>1. o + 1 \in Int /\ last \in Int
    BY <1>1, <1>5
  <2> QED BY <1>7, <2>1, SubSeqProperties
<1> HIDE DEF t, o, l
<1>9. Len(t) = IF o < last THEN last - o ELSE 0
  BY <1>1, <1>5, <1>8
<1>10. \A i \in 1 .. Len(t) : i + o \in 1 .. Total /\ t[i] = s[i + o]
  <2> SUFFICES ASSUME NEW i \in 1 .. Len(t)
               PROVE  i + o \in 1 .. Total /\ t[i] = s[i + o]
    OBVIOUS
  <2>1. i \in 1 .. last - (o + 1) + 1 /\ (o + 1) + i - 1 = i + o
    BY <1>1, <1>5, <1>9
  <2>2. i + o \in 1 .. Total
    BY <1>1, <1>5, <1>9
  <2> QED BY <1>8, <2>1, <2>2
<1>11. Max({0, Total - o}) = IF 0 >= Total - o THEN 0 ELSE Total - o
  BY <1>1, MaxOfTwo
<1>12. Len(t) = Min({l, Max({0, Total - o})})
  <2> DEFINE m == Max({0, Total - o})
  <2>1. m \in Int
    BY <1>1, <1>11
  <2>2. Min({l, m}) = IF l <= m THEN l ELSE m
    BY <1>1, <2>1, MinOfTwo
  <2>3. Len(t) = IF l <= m THEN l ELSE m
    BY <1>1, <1>4, <1>9, <1>11
  <2> QED BY <2>2, <2>3
<1>13. \A k \in 1 .. Total : o < k /\ k <= o + l => k - o \in 1 .. Len(t)
  BY <1>1, <1>4, <1>9
<1>14. Len(t) <= l
  BY <1>1, <1>5, <1>9
<1> QED BY <1>6, <1>8, <1>10, <1>12, <1>13, <1>14 DEF o, l

\* A page returns an event at most once, and only a listed one.
LEMMA HitsOnce ==
  ASSUME TypeInv, NEW s \in Orders, NEW e
  PROVE  /\ Hits(Slice(s), e) \in {0, 1}
         /\ e \notin Listed => Hits(Slice(s), e) = 0
         /\ Hits(Slice(s), e) = 1 <=> \E i \in 1 .. Len(Slice(s)) : Slice(s)[i] = e
<1> DEFINE t == Slice(s)
           at == {i \in DOMAIN t : t[i] = e}
<1>1. t \in Seq(Events) /\ DOMAIN t = 1 .. Len(t) /\ Len(t) \in Nat
  BY SliceShape
<1>2. \A i \in 1 .. Len(t) : i + Offset \in 1 .. Total /\ t[i] = s[i + Offset]
  BY SliceShape
<1>3. \A i, j \in at : i = j
  <2> SUFFICES ASSUME NEW i \in at, NEW j \in at PROVE i = j
    OBVIOUS
  <2>1. i \in 1 .. Len(t) /\ j \in 1 .. Len(t) /\ t[i] = t[j]
    BY <1>1
  <2>2. s[i + Offset] = s[j + Offset]
    BY <1>2, <2>1
  <2>3. i + Offset = j + Offset
    BY <1>2, <2>1, <2>2, OrderIsBijection DEF Total
  <2> QED BY <1>1, <2>1, <2>3, ParamTypes
<1>4. \A i \in at : e \in Listed
  <2> SUFFICES ASSUME NEW i \in at PROVE e \in Listed
    OBVIOUS
  <2>1. i \in 1 .. Len(t) /\ t[i] = e
    BY <1>1
  <2>2. s \in [1 .. Total -> Listed]
    BY DEF Orders, Total
  <2> QED BY <1>2, <2>1, <2>2
<1>5. CASE at = {}
  <2>1. Hits(t, e) = 0
    BY <1>5, FS_EmptySet DEF Hits
  <2>2. ~\E i \in 1 .. Len(t) : t[i] = e
    BY <1>1, <1>5
  <2> QED BY <2>1, <2>2
<1>6. CASE at # {}
  <2>1. PICK i \in at : TRUE
    BY <1>6
  <2>2. at = {i}
    BY <1>3, <2>1
  <2>3. Cardinality(at) = 1
    BY <2>2, FS_Singleton
  <2> QED BY <1>1, <1>4, <2>1, <2>3 DEF Hits
<1> QED BY <1>5, <1>6

\* Where no dates are shared, a page returns the events placed on it.
LEMMA HitsAreRanks ==
  ASSUME TypeInv, ~Tied, NEW s \in Orders, NEW e \in Listed
  PROVE  Hits(Slice(s), e) = 1 <=> Offset <= Rank(e) /\ Rank(e) < Offset + params.limit
<1> DEFINE t == Slice(s)
<1>1. /\ Offset \in Nat /\ params.limit \in Nat \ {0} /\ Total \in Nat
      /\ Rank(e) \in Nat /\ Len(t) \in Nat
  BY ParamTypes, ListedFinite, RankType, SliceShape DEF Total
<1>2. Hits(t, e) = 1 <=> \E i \in 1 .. Len(t) : t[i] = e
  BY HitsOnce
<1>3. ASSUME NEW i \in 1 .. Len(t), t[i] = e
      PROVE  Offset <= Rank(e) /\ Rank(e) < Offset + params.limit
  <2>1. i + Offset \in 1 .. Total /\ s[i + Offset] = e
    BY <1>3, SliceShape
  <2>2. Rank(s[i + Offset]) = (i + Offset) - 1
    BY <2>1, OrderIsRank DEF Total
  <2>3. i <= params.limit /\ i \in Nat /\ i >= 1
    BY <1>1, SliceShape
  <2> QED BY <1>1, <2>1, <2>2, <2>3
<1>4. ASSUME Offset <= Rank(e), Rank(e) < Offset + params.limit
      PROVE  \E i \in 1 .. Len(t) : t[i] = e
  <2>1. PICK k \in 1 .. Total : s[k] = e
    BY OrderIsBijection DEF Total
  <2>2. Rank(e) = k - 1
    BY <2>1, OrderIsRank DEF Total
  <2>3. Offset < k /\ k <= Offset + params.limit /\ k \in Nat
    BY <1>1, <1>4, <2>1, <2>2
  <2>4. k - Offset \in 1 .. Len(t)
    BY <2>1, <2>3, SliceShape
  <2>5. t[k - Offset] = s[(k - Offset) + Offset]
    BY <2>4, SliceShape
  <2>6. (k - Offset) + Offset = k
    BY <1>1, <2>3
  <2> QED BY <2>1, <2>4, <2>5, <2>6
<1> QED BY <1>2, <1>3, <1>4

-----------------------------------------------------------------------------
(***************************************************************************)
(* What holds during a walk: what its observer has seen, the total of the  *)
(* page asked for, and where the events returned and not returned stand.   *)
(***************************************************************************)
Observed ==
  /\ hist.always \subseteq Listed
  /\ ~hist.left /\ ~hist.came => Listed \subseteq hist.always
  /\ ~hist.tied => ~Tied
  /\ hist.gap => hist.came

\* A total is still the number of rows unless one has come or left since.
Counted ==
  walk.pc = "items" /\ (hist.quiet \/ (~hist.left /\ ~hist.gap)) => walk.total = Total

\* Nothing is returned that was not listed.
ReturnedListed ==
  ~hist.left => \A e \in Events : walk.returned[e] = 0 \/ e \in Listed

\* The events returned stand on the pages done, unless one has come before them.
ReturnedBehind ==
  ~hist.came /\ ~hist.tied =>
    \A e \in Events :
      /\ walk.returned[e] <= 1
      /\ walk.returned[e] = 1 /\ e \in Listed => Rank(e) < PagesDone * params.limit

\* The events still to be returned stand on the pages to come, unless one has left
\* a place before them.
AwaitedAhead ==
  ~hist.left /\ ~hist.gap /\ ~hist.tied =>
    \A e \in hist.always :
      \/ walk.returned[e] >= 1
      \/ walk.pc # "done" /\ Rank(e) >= PagesDone * params.limit

Walking == Observed /\ Counted /\ ReturnedListed /\ ReturnedBehind /\ AwaitedAhead

WalkInv == IF walk.pc = "idle" THEN walk = Idle /\ hist = Unobserved ELSE Walking

(***************************************************************************)
(* What the steps do.                                                      *)
(***************************************************************************)

\* A page goes on from where the last one ended.
LEMMA ListEventsStep ==
  ASSUME TypeInv, ListEvents
  PROVE  \E s \in Orders :
           /\ walk.pc = "items"
           /\ walk' = [pc |-> walk'.pc, page |-> walk'.page, total |-> walk.total,
                       items |-> Slice(s), returned |-> walk'.returned]
           /\ \/ /\ walk.page < PageCount(walk.total)
                 /\ walk'.pc = "count" /\ walk'.page = walk.page + 1
              \/ /\ ~(walk.page < PageCount(walk.total))
                 /\ walk'.pc = "done" /\ walk'.page = walk.page
           /\ walk'.returned =
                [e \in Events |-> walk.returned[e] + Hits(Slice(s), e)]
           /\ table' = table /\ params' = params /\ hist' = hist
<1>1. walk = [pc |-> walk.pc, page |-> walk.page, total |-> walk.total,
              items |-> walk.items, returned |-> walk.returned]
  BY DEF TypeInv
<1>2. PICK s \in Orders :
        walk' = [walk EXCEPT
                   !.pc = IF walk.page < PageCount(walk.total) THEN "count" ELSE "done",
                   !.page = IF walk.page < PageCount(walk.total)
                              THEN walk.page + 1 ELSE walk.page,
                   !.items = Slice(s),
                   !.returned = [e \in Events |-> walk.returned[e] + Hits(Slice(s), e)]]
  BY DEF ListEvents, Hits
<1> DEFINE more == walk.page < PageCount(walk.total)
           r == [e \in Events |-> walk.returned[e] + Hits(Slice(s), e)]
<1>3. walk' = [pc |-> IF more THEN "count" ELSE "done",
               page |-> IF more THEN walk.page + 1 ELSE walk.page,
               total |-> walk.total, items |-> Slice(s), returned |-> r]
  <2> HIDE DEF r
  <2> QED BY <1>1, <1>2 DEF r
<1>4. walk.pc = "items" /\ table' = table /\ params' = params /\ hist' = hist
  BY DEF ListEvents
<1> HIDE DEF r
<1>5. /\ walk'.pc = IF more THEN "count" ELSE "done"
      /\ walk'.page = IF more THEN walk.page + 1 ELSE walk.page
      /\ walk'.total = walk.total /\ walk'.items = Slice(s) /\ walk'.returned = r
  BY <1>3
<1>6. walk' = [pc |-> walk'.pc, page |-> walk'.page, total |-> walk.total,
               items |-> Slice(s), returned |-> walk'.returned]
  BY <1>3, <1>5
<1> QED BY <1>4, <1>5, <1>6 DEF r

\* The page that is returned is the next one.
LEMMA PageStep ==
  ASSUME TypeInv, ListEvents
  PROVE  PagesDone = walk.page - 1 /\ PagesDone' = walk.page
<1>1. walk.page \in Nat \ {0}
  BY DEF TypeInv
<1>2. walk.pc = "items"
  BY ListEventsStep
<1>3. \/ walk'.pc = "count" /\ walk'.page = walk.page + 1
      \/ walk'.pc = "done" /\ walk'.page = walk.page
  BY ListEventsStep
<1> QED BY <1>1, <1>2, <1>3 DEF PagesDone

\* A write keeps the history true of what it did to the listing.
LEMMA WriteStep ==
  ASSUME TypeInv, NEW e \in Events, NEW row \in Row, Write(e, row), walk.pc # "idle"
  PROVE  /\ walk' = walk /\ params' = params
         /\ table' = [table EXCEPT ![e] = row]
         /\ ~hist'.left => /\ ~hist.left /\ Listed \subseteq Listed'
                           /\ \A d \in Listed : table'[d].start_date = table[d].start_date
         /\ ~hist'.came => /\ ~hist.came /\ Listed' \subseteq Listed
                           /\ \A d \in Listed' : table'[d].start_date = table[d].start_date
         /\ ~hist'.gap => ~hist.gap /\ (walk.pc = "items" => Listed' \subseteq Listed)
         /\ ~hist'.tied => ~hist.tied /\ ~Tied'
         /\ (hist.gap => hist.came) => (hist'.gap => hist'.came)
         /\ ~hist'.quiet
         /\ hist'.always = IF Selects(params, row) THEN hist.always ELSE hist.always \ {e}
         /\ hist' \in [always : SUBSET Events, left : BOOLEAN, came : BOOLEAN,
                       gap : BOOLEAN, quiet : BOOLEAN, tied : BOOLEAN]
<1> DEFINE before == Selects(params, table[e])
           after == Selects(params, row)
           moved == before /\ after /\ table[e].start_date # row.start_date
           left == moved \/ (before /\ ~after)
           came == moved \/ (after /\ ~before)
<1>1. walk' = walk /\ params' = params /\ table' = [table EXCEPT ![e] = row]
  BY DEF Write, CreateEvent, ChangeEvent, Store
<1>2. hist \in [always : SUBSET Events, left : BOOLEAN, came : BOOLEAN,
                gap : BOOLEAN, quiet : BOOLEAN, tied : BOOLEAN]
  BY DEF TypeInv
<1>3. hist' = [hist EXCEPT
                 !.always = IF after THEN hist.always ELSE hist.always \ {e},
                 !.left = hist.left \/ left,
                 !.came = hist.came \/ came,
                 !.gap = hist.gap \/ (came /\ walk.pc = "items"),
                 !.quiet = FALSE,
                 !.tied = hist.tied \/ Tied']
  BY DEF Write, CreateEvent, ChangeEvent, Store
<1>4. Listed' = IF after THEN Listed \cup {e} ELSE Listed \ {e}
  <2>1. table'[e] = row /\ \A d \in Events \ {e} : table'[d] = table[d]
    BY <1>1 DEF TypeInv
  <2>2. \A d \in Events : d \in Listed' <=> Selects(params, table'[d])
    BY <1>1 DEF Listed, Selects
  <2> QED BY <2>1, <2>2 DEF Listed
<1>5. e \in Listed <=> before
  BY DEF Listed
<1>6. table'[e] = row /\ \A d \in Events : d # e => table'[d] = table[d]
  BY <1>1 DEF TypeInv
<1>7. Listed \subseteq Events
  BY DEF Listed
<1> HIDE DEF before, after
<1>8. /\ ~left => /\ Listed \subseteq Listed'
                  /\ \A d \in Listed : table'[d].start_date = table[d].start_date
      /\ ~came => /\ Listed' \subseteq Listed
                  /\ \A d \in Listed' : table'[d].start_date = table[d].start_date
  BY <1>4, <1>5, <1>6, <1>7
<1> DEFINE T == Tied'
<1> HIDE DEF left, came, T
<1>9. /\ hist'.always = IF after THEN hist.always ELSE hist.always \ {e}
      /\ hist'.left = (hist.left \/ left)
      /\ hist'.came = (hist.came \/ came)
      /\ hist'.gap = (hist.gap \/ (came /\ walk.pc = "items"))
      /\ hist'.quiet = FALSE
      /\ hist'.tied = (hist.tied \/ T)
  BY <1>2, <1>3 DEF T
<1>10. hist' \in [always : SUBSET Events, left : BOOLEAN, came : BOOLEAN,
                  gap : BOOLEAN, quiet : BOOLEAN, tied : BOOLEAN]
  <2> DEFINE l == hist.left \/ left
             c == hist.came \/ came
             g == hist.gap \/ (came /\ walk.pc = "items")
             t == hist.tied \/ T
             a == IF after THEN hist.always ELSE hist.always \ {e}
  <2>1. l \in BOOLEAN /\ c \in BOOLEAN /\ g \in BOOLEAN /\ t \in BOOLEAN
    OBVIOUS
  <2>2. a \in SUBSET Events
    BY <1>2
  <2> HIDE DEF l, c, g, t, a
  <2>3. hist' = [hist EXCEPT !.always = a, !.left = l, !.came = c, !.gap = g,
                             !.quiet = FALSE, !.tied = t]
    BY <1>3 DEF l, c, g, t, a, T
  <2>4. hist' = [always |-> a, left |-> l, came |-> c, gap |-> g, quiet |-> FALSE,
                 tied |-> t]
    BY <1>2, <2>3
  <2> QED BY <2>1, <2>2, <2>4
<1> QED BY <1>1, <1>8, <1>9, <1>10 DEF T, after

\* Rows that leave the listing, and move no others, push no event back.
LEMMA RankFalls ==
  ASSUME Listed' \subseteq Listed, params' = params, NEW e \in Listed',
         \A d \in Listed' : table'[d].start_date = table[d].start_date
  PROVE  Rank(e)' <= Rank(e)
<1>1. Before(e)' \in SUBSET Before(e)
  BY DEF Before, Precedes
<1>2. Cardinality(Before(e)') <= Cardinality(Before(e))
  BY <1>1, RankType, FS_Subset
<1> QED BY <1>2 DEF Rank

\* Rows that come into the listing, and move no others, draw no event forward.
LEMMA RankRises ==
  ASSUME Listed \subseteq Listed', params' = params, NEW e \in Listed,
         \A d \in Listed : table'[d].start_date = table[d].start_date
  PROVE  Rank(e) <= Rank(e)'
<1>1. Listed' \in SUBSET Events
  BY DEF Listed
<1>2. Before(e) \in SUBSET (Before(e)') /\ Before(e)' \in SUBSET (Listed')
  BY DEF Before, Precedes
<1>3. IsFiniteSet(Before(e)')
  BY <1>1, <1>2, ListingAssumption, FS_Subset
<1>4. Cardinality(Before(e)) <= Cardinality(Before(e)')
  BY <1>2, <1>3, FS_Subset
<1> QED BY <1>4 DEF Rank

\* The places of the next state are places.
LEMMA RankTypeNext ==
  ASSUME NEW e
  PROVE  Rank(e)' \in Nat
<1>1. Listed' \in SUBSET Events /\ Before(e)' \in SUBSET (Listed')
  BY DEF Listed, Before
<1>2. IsFiniteSet(Before(e)')
  BY <1>1, ListingAssumption, FS_Subset
<1> QED BY <1>2, FS_CardinalityType DEF Rank

(***************************************************************************)
(* The types are kept.                                                     *)
(***************************************************************************)
\* A client between two walks has been returned nothing.
LEMMA IdleType ==
  /\ Idle \in [pc : {"idle", "count", "items", "done"}, page : Nat \ {0},
               total : 0 .. Cardinality(Events), items : Seq(Events),
               returned : [Events -> Nat]]
  /\ Unobserved \in [always : SUBSET Events, left : BOOLEAN, came : BOOLEAN,
                     gap : BOOLEAN, quiet : BOOLEAN, tied : BOOLEAN]
  /\ Idle.page = 1 /\ Idle.pc = "idle" /\ Idle.items = <<>>
  /\ \A e \in Events : Idle.returned[e] = 0
<1>1. NothingReturned \in [Events -> Nat] /\ \A e \in Events : NothingReturned[e] = 0
  BY DEF NothingReturned
<1>2. <<>> \in Seq(Events)
  OBVIOUS
<1> QED BY <1>1, <1>2, ListedFinite DEF Idle, Unobserved

\* The types hold at first.
LEMMA TypeInit ==
  ASSUME Init
  PROVE  TypeInv
<1>1. params.limit \in Nat \ {0}
  BY LimitType DEF Init
<1>2. walk = Idle /\ hist = Unobserved /\ params \in Params
      /\ table \in [Events -> Row \cup {NoEvent}]
  BY DEF Init
<1>3. PagesDone = 0
  BY <1>2, IdleType DEF PagesDone
<1> QED BY <1>1, <1>2, <1>3, IdleType, ListedFinite DEF TypeInv

\* Every step keeps the types: an event is on a page once, and no page follows the
\* last one counted.
LEMMA TypeStep ==
  ASSUME TypeInv, Next
  PROVE  TypeInv'
<1> DEFINE Walks == [pc : {"idle", "count", "items", "done"}, page : Nat \ {0},
                     total : 0 .. Cardinality(Events), items : Seq(Events),
                     returned : [Events -> Nat]]
           Hists == [always : SUBSET Events, left : BOOLEAN, came : BOOLEAN,
                     gap : BOOLEAN, quiet : BOOLEAN, tied : BOOLEAN]
           Small(w) == \A e \in Events :
                         w.returned[e] <= IF w.pc = "done" THEN w.page ELSE w.page - 1
<1>1. /\ walk \in Walks /\ hist \in Hists /\ params \in Params
      /\ table \in [Events -> Row \cup {NoEvent}]
      /\ walk.page <= Cardinality(Events) + 1 /\ Len(walk.items) <= params.limit
      /\ Small(walk)
  BY DEF TypeInv, PagesDone
<1>2. /\ params.limit \in Nat \ {0} /\ Cardinality(Events) \in Nat
      /\ Idle \in Walks /\ Unobserved \in Hists
  BY ParamTypes, ListedFinite, IdleType
<1>3. SUFFICES /\ walk' \in Walks /\ hist' \in Hists /\ params' \in Params
               /\ table' \in [Events -> Row \cup {NoEvent}]
               /\ walk'.page <= Cardinality(Events) + 1
               /\ Len(walk'.items) <= params'.limit
               /\ Small(walk')
  BY DEF TypeInv, PagesDone
<1> HIDE DEF Hists
<1>4. CASE BeginWalk
  <2>1. /\ walk' = [Idle EXCEPT !.pc = "count"]
        /\ hist' = [Unobserved EXCEPT !.always = Listed, !.tied = Tied]
        /\ table' = table /\ params' = params
    BY <1>4 DEF BeginWalk
  <2>2. /\ walk' \in Walks /\ walk'.page = 1 /\ walk'.items = <<>>
        /\ walk'.pc = "count" /\ walk'.returned = Idle.returned
    BY <1>2, <2>1, IdleType
  <2>3. Listed \in SUBSET Events /\ Tied \in BOOLEAN
    BY DEF Listed, Tied
  <2>4. hist' \in Hists
    <3> DEFINE L == Listed
               t == Tied
    <3>1. L \in SUBSET Events /\ t \in BOOLEAN
      BY <2>3
    <3> HIDE DEF L, t
    <3>2. hist' = [always |-> L, left |-> FALSE, came |-> FALSE, gap |-> FALSE,
                   quiet |-> TRUE, tied |-> t]
      BY <2>1 DEF Unobserved, L, t
    <3> QED BY <3>1, <3>2 DEF Hists
  <2>5. Small(walk')
    BY <2>2, IdleType
  <2>6. walk'.page <= Cardinality(Events) + 1 /\ Len(walk'.items) <= params'.limit
    <3>1. Len(<<>>) = 0
      OBVIOUS
    <3> QED BY <1>2, <2>1, <2>2, <3>1
  <2> QED BY <1>1, <2>1, <2>2, <2>4, <2>5, <2>6
<1>5. CASE CountEvents
  <2>1. /\ walk' = [walk EXCEPT !.pc = "items", !.total = Total, !.items = <<>>]
        /\ hist' = [hist EXCEPT !.quiet = TRUE]
        /\ table' = table /\ params' = params /\ walk.pc = "count"
    BY <1>5 DEF CountEvents
  <2>2. Total \in 0 .. Cardinality(Events)
    BY ListedFinite DEF Total
  <2>3. walk' = [pc |-> "items", page |-> walk.page, total |-> Total, items |-> <<>>,
                 returned |-> walk.returned]
    BY <1>1, <2>1
  <2>4. walk.page \in Nat \ {0} /\ walk.returned \in [Events -> Nat] /\ <<>> \in Seq(Events)
    BY <1>1
  <2>5. walk' \in Walks
    BY <2>2, <2>3, <2>4
  <2>6. /\ walk'.page = walk.page /\ walk'.items = <<>>
        /\ walk'.pc = "items" /\ walk'.returned = walk.returned
    BY <2>3
  <2>7. hist' \in Hists
    BY <1>1, <2>1 DEF Hists
  <2>8. Small(walk')
    BY <1>1, <2>1, <2>6
  <2>9. Len(walk'.items) <= params'.limit
    <3>1. Len(<<>>) = 0
      OBVIOUS
    <3> QED BY <1>2, <2>1, <2>6, <3>1
  <2> QED BY <1>1, <2>1, <2>5, <2>6, <2>7, <2>8, <2>9
<1>6. CASE ListEvents
  <2>1. PICK s \in Orders :
          /\ walk.pc = "items"
          /\ walk' = [pc |-> walk'.pc, page |-> walk'.page, total |-> walk.total,
                      items |-> Slice(s), returned |-> walk'.returned]
          /\ \/ /\ walk.page < PageCount(walk.total)
                /\ walk'.pc = "count" /\ walk'.page = walk.page + 1
             \/ /\ ~(walk.page < PageCount(walk.total))
                /\ walk'.pc = "done" /\ walk'.page = walk.page
          /\ walk'.returned = [e \in Events |-> walk.returned[e] + Hits(Slice(s), e)]
          /\ table' = table /\ params' = params /\ hist' = hist
    BY <1>6, ListEventsStep
  <2>2. Slice(s) \in Seq(Events) /\ Len(Slice(s)) <= params.limit
    BY SliceShape
  <2>3. \A e \in Events : Hits(Slice(s), e) \in {0, 1}
    BY HitsOnce
  <2>4. /\ walk'.returned \in [Events -> Nat]
        /\ \A e \in Events : walk'.returned[e] <= walk.returned[e] + 1
    <3>1. \A e \in Events : walk.returned[e] \in Nat
      BY <1>1
    <3>2. \A e \in Events :
            /\ walk.returned[e] + Hits(Slice(s), e) \in Nat
            /\ walk.returned[e] + Hits(Slice(s), e) <= walk.returned[e] + 1
      BY <2>3, <3>1
    <3>3. walk'.returned = [e \in Events |-> walk.returned[e] + Hits(Slice(s), e)]
      BY <2>1
    <3> QED BY <3>2, <3>3
  <2>5. PageCount(walk.total) <= Cardinality(Events) /\ PageCount(walk.total) \in Nat
    <3>1. walk.total \in Nat /\ walk.total <= Cardinality(Events)
      BY <1>1, <1>2
    <3>2. PageCount(walk.total) \in Nat /\ PageCount(walk.total) <= walk.total
      BY <1>2, <3>1, PagesCover
    <3> QED BY <1>2, <3>1, <3>2
  <2>6. walk'.page \in Nat \ {0} /\ walk'.page <= Cardinality(Events) + 1
    BY <1>1, <1>2, <2>1, <2>5
  <2>7. walk' \in Walks
    <3>1. walk'.pc \in {"count", "done"} /\ walk.total \in 0 .. Cardinality(Events)
      BY <1>1, <2>1
    <3> QED BY <2>1, <2>2, <2>4, <2>6, <3>1
  <2>8. Small(walk')
    <3> SUFFICES ASSUME NEW e \in Events
                 PROVE  walk'.returned[e] <=
                          IF walk'.pc = "done" THEN walk'.page ELSE walk'.page - 1
      OBVIOUS
    <3>1. walk.returned[e] \in Nat /\ walk'.returned[e] \in Nat /\ walk.page \in Nat
      BY <1>1, <2>4
    <3>2. walk.returned[e] <= walk.page - 1
      BY <1>1, <2>1
    <3> QED BY <2>1, <2>4, <3>1, <3>2
  <2>9. walk'.items = Slice(s)
    BY <2>1
  <2> QED BY <1>1, <2>1, <2>2, <2>6, <2>7, <2>8, <2>9
<1>7. CASE EndWalk
  <2>1. walk' = Idle /\ hist' = Unobserved /\ params' \in Params /\ table' = table
    BY <1>7 DEF EndWalk
  <2>2. params'.limit \in Nat \ {0}
    BY <2>1, LimitType
  <2>3. Small(walk')
    BY <2>1, IdleType
  <2> QED BY <1>1, <1>2, <2>1, <2>2, <2>3, IdleType
<1>8. CASE \E e \in Events, row \in Row : Write(e, row)
  <2>1. PICK e \in Events, row \in Row : Write(e, row)
    BY <1>8
  <2>2. walk' = walk /\ params' = params /\ table' = [table EXCEPT ![e] = row]
    BY <2>1 DEF Write, CreateEvent, ChangeEvent, Store
  <2>3. CASE walk.pc = "idle"
    <3>1. hist' = hist
      BY <2>1, <2>3 DEF Write, CreateEvent, ChangeEvent, Store
    <3> QED BY <1>1, <2>2, <3>1
  <2>4. CASE walk.pc # "idle"
    <3>1. hist' \in Hists
      BY <2>1, <2>4, WriteStep DEF Hists
    <3> QED BY <1>1, <2>2, <3>1
  <2> QED BY <2>3, <2>4
<1> QED BY <1>4, <1>5, <1>6, <1>7, <1>8 DEF Next

(***************************************************************************)
(* Each step keeps what holds during a walk.                               *)
(***************************************************************************)
\* A step that writes no row and keeps the parameters leaves the listing alone.
LEMMA SameListing ==
  ASSUME table' = table, params' = params
  PROVE  /\ Listed' = Listed /\ Total' = Total /\ (Tied' <=> Tied)
         /\ \A e : Rank(e)' = Rank(e)
BY DEF Listed, Selects, Total, Tied, Rank, Before, Precedes

\* Nothing is returned yet and everything stands on the pages to come.
LEMMA BeginWalkKeeps ==
  ASSUME TypeInv, BeginWalk
  PROVE  Walking' /\ walk'.pc # "idle"
<1>1. /\ walk' = [Idle EXCEPT !.pc = "count"]
      /\ hist' = [Unobserved EXCEPT !.always = Listed, !.tied = Tied]
      /\ table' = table /\ params' = params
  BY DEF BeginWalk
<1>2. /\ walk'.pc = "count" /\ walk'.page = 1
      /\ \A e \in Events : walk'.returned[e] = 0
  BY <1>1, IdleType DEF Idle
<1>3. Listed' = Listed /\ (Tied' <=> Tied) /\ \A e : Rank(e)' = Rank(e)
  BY <1>1, SameListing
<1>4. PagesDone' = 0 /\ 0 * params'.limit = 0
  <2>1. params'.limit \in Nat
    BY <1>1, ParamTypes
  <2> QED BY <1>2, <2>1 DEF PagesDone
<1>5. /\ hist'.always = Listed /\ hist'.tied = Tied /\ ~hist'.left /\ ~hist'.came
      /\ ~hist'.gap
  BY <1>1 DEF Unobserved
<1>6. Observed'
  BY <1>3, <1>5 DEF Observed
<1>7. Counted' /\ ReturnedListed'
  BY <1>2 DEF Counted, ReturnedListed
<1>8. ReturnedBehind'
  BY <1>2 DEF ReturnedBehind
<1>9. AwaitedAhead'
  <2> SUFFICES ASSUME NEW e \in hist'.always
               PROVE  walk'.pc # "done" /\ Rank(e)' >= PagesDone' * params'.limit
    BY DEF AwaitedAhead
  <2>1. Rank(e)' \in Nat
    BY <1>3, RankType
  <2> QED BY <1>2, <1>4, <2>1
<1> QED BY <1>2, <1>6, <1>7, <1>8, <1>9 DEF Walking

\* The count sees the listing as it is.
LEMMA CountEventsKeeps ==
  ASSUME TypeInv, Walking, CountEvents
  PROVE  Walking' /\ walk'.pc # "idle"
<1>1. /\ walk.pc = "count"
      /\ walk' = [walk EXCEPT !.pc = "items", !.total = Total, !.items = <<>>]
      /\ hist' = [hist EXCEPT !.quiet = TRUE]
      /\ table' = table /\ params' = params
  BY DEF CountEvents
<1>2. /\ walk'.pc = "items" /\ walk'.page = walk.page /\ walk'.total = Total
      /\ walk'.returned = walk.returned
  BY <1>1 DEF TypeInv
<1>3. /\ Listed' = Listed /\ Total' = Total /\ (Tied' <=> Tied)
      /\ \A e : Rank(e)' = Rank(e)
  BY <1>1, SameListing
<1>4. PagesDone' = PagesDone
  BY <1>1, <1>2 DEF PagesDone
<1>5. /\ hist'.always = hist.always /\ hist'.left = hist.left /\ hist'.came = hist.came
      /\ hist'.gap = hist.gap /\ hist'.tied = hist.tied
  BY <1>1 DEF TypeInv
<1>6. Observed'
  BY <1>3, <1>5 DEF Walking, Observed
<1>7. Counted'
  BY <1>2, <1>3 DEF Counted
<1>8. ReturnedListed'
  BY <1>2, <1>3, <1>5 DEF Walking, ReturnedListed
<1>9. ReturnedBehind'
  BY <1>1, <1>2, <1>3, <1>4, <1>5 DEF Walking, ReturnedBehind
<1>10. AwaitedAhead'
  BY <1>1, <1>2, <1>3, <1>4, <1>5 DEF Walking, AwaitedAhead
<1> QED BY <1>2, <1>6, <1>7, <1>8, <1>9, <1>10 DEF Walking

\* A page returns what stands on it, and the last one leaves nothing ahead.
LEMMA ListEventsKeeps ==
  ASSUME TypeInv, Walking, ListEvents
  PROVE  Walking' /\ walk'.pc # "idle"
<1> DEFINE end == walk.page * params.limit
<1>1. PICK s \in Orders :
        /\ walk.pc = "items"
        /\ \/ walk.page < PageCount(walk.total) /\ walk'.pc = "count"
           \/ ~(walk.page < PageCount(walk.total)) /\ walk'.pc = "done"
        /\ walk'.returned = [e \in Events |-> walk.returned[e] + Hits(Slice(s), e)]
        /\ table' = table /\ params' = params /\ hist' = hist
  BY ListEventsStep
<1>2. /\ Listed' = Listed /\ Total' = Total /\ (Tied' <=> Tied)
      /\ \A e : Rank(e)' = Rank(e)
  BY <1>1, SameListing
<1>3. /\ PagesDone * params.limit = Offset /\ PagesDone' * params'.limit = end
      /\ Offset \in Nat /\ end \in Nat /\ Offset + params.limit = end
      /\ params.limit \in Nat \ {0} /\ walk.page \in Nat \ {0}
  <2>1. PagesDone = walk.page - 1 /\ PagesDone' = walk.page
    BY PageStep
  <2>2. /\ params.limit \in Nat \ {0} /\ walk.page \in Nat \ {0} /\ Offset \in Nat
        /\ Offset + params.limit = end
    BY ParamTypes
  <2>3. end \in Nat
    BY <2>2
  <2> QED BY <1>1, <2>1, <2>2, <2>3 DEF Offset
<1> HIDE DEF end
<1>4. \A e \in Events : /\ walk.returned[e] \in Nat
                        /\ Hits(Slice(s), e) \in {0, 1}
                        /\ e \notin Listed => Hits(Slice(s), e) = 0
                        /\ walk'.returned[e] = walk.returned[e] + Hits(Slice(s), e)
  BY <1>1, HitsOnce DEF TypeInv
<1>5. ASSUME ~hist.tied, NEW e \in Listed
      PROVE  /\ Hits(Slice(s), e) = 1 <=> Offset <= Rank(e) /\ Rank(e) < end
             /\ Rank(e) \in Nat /\ e \in Events
  <2>1. ~Tied
    BY <1>5 DEF Walking, Observed
  <2> QED BY <1>3, <2>1, HitsAreRanks, RankType, ListedFinite
<1>6. Observed'
  BY <1>1, <1>2 DEF Walking, Observed
<1>7. Counted'
  BY <1>1 DEF Counted
<1>8. ReturnedListed'
  BY <1>1, <1>2, <1>4 DEF Walking, ReturnedListed
<1>9. ReturnedBehind'
  <2> SUFFICES ASSUME ~hist.came, ~hist.tied, NEW e \in Events
               PROVE  /\ walk'.returned[e] <= 1
                      /\ walk'.returned[e] = 1 /\ e \in Listed => Rank(e) < end
    BY <1>1, <1>2, <1>3 DEF ReturnedBehind
  <2>1. /\ walk.returned[e] <= 1
        /\ walk.returned[e] = 1 /\ e \in Listed => Rank(e) < Offset
    BY <1>3 DEF Walking, ReturnedBehind
  <2>2. CASE e \notin Listed
    BY <1>4, <2>1, <2>2
  <2>3. CASE e \in Listed
    BY <1>3, <1>4, <1>5, <2>1, <2>3
  <2> QED BY <2>2, <2>3
<1>10. AwaitedAhead'
  <2> SUFFICES ASSUME ~hist.left, ~hist.gap, ~hist.tied, NEW e \in hist.always,
                      ~(walk'.returned[e] >= 1)
               PROVE  walk'.pc # "done" /\ Rank(e) >= end
    BY <1>1, <1>2, <1>3 DEF AwaitedAhead
  <2>1. e \in Listed
    BY DEF Walking, Observed
  <2>2. /\ Hits(Slice(s), e) = 1 <=> Offset <= Rank(e) /\ Rank(e) < end
        /\ Rank(e) \in Nat /\ e \in Events
    BY <1>5, <2>1
  <2>3. walk.returned[e] >= 1 \/ Rank(e) >= Offset
    BY <1>3 DEF Walking, AwaitedAhead
  <2>4. Rank(e) >= end
    BY <1>3, <1>4, <2>2, <2>3
  <2>5. ASSUME ~(walk.page < PageCount(walk.total)) PROVE FALSE
    <3>1. walk.total = Total
      BY <1>1 DEF Walking, Counted
    <3>2. Total \in Nat
      BY ListedFinite DEF Total
    <3>3. /\ PageCount(Total) \in Nat
          /\ Total <= PageCount(Total) * params.limit
      BY <1>3, <3>2, PagesCover
    <3>4. PageCount(Total) * params.limit <= end
      <4>1. \A a, b \in Nat, l \in Nat : a <= b => a * l <= b * l
        OBVIOUS
      <4>2. PageCount(Total) <= walk.page
        BY <1>3, <2>5, <3>1, <3>3
      <4> QED BY <1>3, <3>3, <4>1, <4>2 DEF end
    <3>5. PageCount(Total) * params.limit \in Nat
      BY <1>3, <3>3
    <3>6. Rank(e) < Total
      BY <2>1, RankBelowTotal
    <3> QED BY <1>3, <2>2, <2>4, <3>2, <3>3, <3>4, <3>5, <3>6
  <2> QED BY <1>1, <2>4, <2>5
<1> QED BY <1>1, <1>6, <1>7, <1>8, <1>9, <1>10 DEF Walking

\* A commit of another request changes the listing under the walk.
LEMMA WriteKeeps ==
  ASSUME TypeInv, Walking, walk.pc # "idle",
         NEW e \in Events, NEW row \in Row, Write(e, row)
  PROVE  Walking' /\ walk'.pc # "idle"
<1>1. /\ walk' = walk /\ params' = params
      /\ ~hist'.left => /\ ~hist.left /\ Listed \subseteq Listed'
                        /\ \A d \in Listed : table'[d].start_date = table[d].start_date
      /\ ~hist'.came => /\ ~hist.came /\ Listed' \subseteq Listed
                        /\ \A d \in Listed' : table'[d].start_date = table[d].start_date
      /\ ~hist'.gap => ~hist.gap /\ (walk.pc = "items" => Listed' \subseteq Listed)
      /\ ~hist'.tied => ~hist.tied /\ ~Tied'
      /\ (hist.gap => hist.came) => (hist'.gap => hist'.came)
      /\ ~hist'.quiet
      /\ hist'.always = IF Selects(params, row) THEN hist.always ELSE hist.always \ {e}
  BY WriteStep
<1>2. PagesDone' = PagesDone
  BY <1>1 DEF PagesDone
<1>3. /\ PagesDone * params.limit \in Nat
      /\ \A d : Rank(d) \in Nat /\ Rank(d)' \in Nat
  <2>1. PagesDone \in Nat /\ params.limit \in Nat
    <3>1. walk.page \in Nat \ {0}
      BY ParamTypes
    <3> QED BY <3>1, ParamTypes DEF PagesDone
  <2>2. PagesDone * params.limit \in Nat
    <3>1. \A m, k \in Nat : m * k \in Nat
      OBVIOUS
    <3> QED BY <2>1, <3>1
  <2> QED BY <2>2, RankType, RankTypeNext
<1>4. \A d \in Listed : d # e => d \in Listed'
  <2>1. table' = [table EXCEPT ![e] = row]
    BY WriteStep
  <2> QED BY <1>1, <2>1 DEF Listed, Selects, TypeInv
<1>5. e \in Listed' <=> Selects(params, row)
  <2>1. table' = [table EXCEPT ![e] = row]
    BY WriteStep
  <2>2. table'[e] = row
    BY <2>1 DEF TypeInv
  <2> QED BY <1>1, <2>2 DEF Listed, Selects
<1>6. Observed'
  <2>1. hist'.always \subseteq Listed'
    BY <1>1, <1>4, <1>5 DEF Walking, Observed
  <2>2. ASSUME ~hist'.left, ~hist'.came PROVE Listed' \subseteq hist'.always
    <3>1. Listed' = Listed /\ Listed \subseteq hist.always
      BY <1>1, <2>2 DEF Walking, Observed
    <3> QED BY <1>1, <1>5, <3>1
  <2> QED BY <1>1, <2>1, <2>2 DEF Walking, Observed
<1>7. Counted'
  <2> SUFFICES ASSUME walk.pc = "items", ~hist'.left, ~hist'.gap
               PROVE  walk.total = Total'
    BY <1>1 DEF Counted
  <2>1. Listed' = Listed
    BY <1>1
  <2> QED BY <1>1, <2>1 DEF Walking, Counted, Total
<1>8. ReturnedListed'
  BY <1>1 DEF Walking, ReturnedListed
<1>9. ReturnedBehind'
  <2> SUFFICES ASSUME ~hist'.came, ~hist'.tied, NEW d \in Events
               PROVE  /\ walk.returned[d] <= 1
                      /\ walk.returned[d] = 1 /\ d \in Listed' =>
                           Rank(d)' < PagesDone * params.limit
    BY <1>1, <1>2 DEF ReturnedBehind
  <2>1. /\ walk.returned[d] <= 1
        /\ walk.returned[d] = 1 /\ d \in Listed => Rank(d) < PagesDone * params.limit
    BY <1>1 DEF Walking, ReturnedBehind
  <2>2. d \in Listed' => d \in Listed /\ Rank(d)' <= Rank(d)
    BY <1>1, RankFalls
  <2> QED BY <1>3, <2>1, <2>2
<1>10. AwaitedAhead'
  <2> SUFFICES ASSUME ~hist'.left, ~hist'.gap, ~hist'.tied, NEW d \in hist'.always
               PROVE  \/ walk.returned[d] >= 1
                      \/ walk.pc # "done" /\ Rank(d)' >= PagesDone * params.limit
    BY <1>1, <1>2 DEF AwaitedAhead
  <2>1. d \in hist.always /\ d \in Listed
    BY <1>1 DEF Walking, Observed
  <2>2. \/ walk.returned[d] >= 1
        \/ walk.pc # "done" /\ Rank(d) >= PagesDone * params.limit
    BY <1>1, <2>1 DEF Walking, AwaitedAhead
  <2>3. Rank(d) <= Rank(d)'
    BY <1>1, <2>1, RankRises
  <2> QED BY <1>3, <2>2, <2>3
<1> QED BY <1>1, <1>6, <1>7, <1>8, <1>9, <1>10 DEF Walking

\* Every step keeps the invariant of the walk.
LEMMA WalkStep ==
  ASSUME TypeInv, WalkInv, Next
  PROVE  WalkInv'
<1>1. CASE BeginWalk
  BY <1>1, BeginWalkKeeps DEF WalkInv
<1>2. CASE CountEvents
  <2>1. walk.pc # "idle"
    BY <1>2 DEF CountEvents
  <2> QED BY <1>2, <2>1, CountEventsKeeps DEF WalkInv
<1>3. CASE ListEvents
  <2>1. walk.pc # "idle"
    BY <1>3 DEF ListEvents
  <2> QED BY <1>3, <2>1, ListEventsKeeps DEF WalkInv
<1>4. CASE EndWalk
  <2>1. walk' = Idle /\ hist' = Unobserved /\ walk'.pc = "idle"
    BY <1>4, IdleType DEF EndWalk
  <2> QED BY <2>1 DEF WalkInv, Idle, Unobserved, NothingReturned
<1>5. CASE \E e \in Events, row \in Row : Write(e, row)
  <2>1. PICK e \in Events, row \in Row : Write(e, row)
    BY <1>5
  <2>2. CASE walk.pc = "idle"
    <3>1. walk' = walk /\ hist' = hist
      BY <2>1, <2>2 DEF Write, CreateEvent, ChangeEvent, Store
    <3> QED BY <2>2, <3>1 DEF WalkInv, Idle, Unobserved, NothingReturned
  <2>3. CASE walk.pc # "idle"
    BY <2>1, <2>3, WriteKeeps DEF WalkInv
  <2> QED BY <2>2, <2>3
<1> QED BY <1>1, <1>2, <1>3, <1>4, <1>5 DEF Next

-----------------------------------------------------------------------------
(***************************************************************************)
(* The theorems.                                                           *)
(***************************************************************************)

\* The types hold, and during a walk what it has returned stands where WalkInv says,
\* whatever create_event, update_event and delete_event commit between its pages.
THEOREM ListingInvariant == Spec => [](TypeInv /\ WalkInv)
<1>1. Init => TypeInv /\ WalkInv
  BY TypeInit, IdleType DEF WalkInv, Init
<1>2. TypeInv /\ WalkInv /\ [Next]_vars => TypeInv' /\ WalkInv'
  <2> SUFFICES ASSUME TypeInv, WalkInv, [Next]_vars PROVE TypeInv' /\ WalkInv'
    OBVIOUS
  <2>1. CASE Next
    BY <2>1, TypeStep, WalkStep
  <2>2. CASE UNCHANGED vars
    <3>1. table' = table /\ params' = params /\ walk' = walk /\ hist' = hist
      BY <2>2 DEF vars
    <3>2. /\ Listed' = Listed /\ Total' = Total /\ (Tied' <=> Tied)
          /\ \A e : Rank(e)' = Rank(e)
      BY <3>1, SameListing
    <3>3. PagesDone' = PagesDone
      BY <3>1 DEF PagesDone
    <3>4. TypeInv'
      BY <3>1, <3>3 DEF TypeInv
    <3>5. Observed' = Observed /\ Counted' = Counted /\ ReturnedListed' = ReturnedListed
      BY <3>1, <3>2 DEF Observed, Counted, ReturnedListed
    <3>6. ReturnedBehind' = ReturnedBehind /\ AwaitedAhead' = AwaitedAhead
      BY <3>1, <3>2, <3>3 DEF ReturnedBehind, AwaitedAhead
    <3> QED BY <3>1, <3>4, <3>5, <3>6
          DEF WalkInv, Walking, Idle, Unobserved, NothingReturned
  <2> QED BY <2>1, <2>2
<1> QED BY <1>1, <1>2, PTL DEF Spec

\* TypeOK: a walk asks for no page after the last, a page is no longer than the
\* limit, and no event is returned more often than there are pages.
THEOREM ListingTypeCorrect == Spec => []TypeOK
<1>1. TypeInv => TypeOK
  <2> SUFFICES ASSUME TypeInv PROVE TypeOK
    OBVIOUS
  <2>1. walk.page \in Nat \ {0} /\ Cardinality(Events) \in Nat
    BY ListedFinite DEF TypeInv
  <2>2. walk.page \in Pages
    BY <2>1 DEF TypeInv, Pages
  <2>3. walk.returned \in [Events -> 0 .. Cardinality(Events) + 1]
    <3>1. PagesDone <= walk.page /\ PagesDone \in Int
      BY <2>1 DEF PagesDone
    <3>2. \A e \in Events : walk.returned[e] \in 0 .. Cardinality(Events) + 1
      <4> SUFFICES ASSUME NEW e \in Events
                   PROVE  walk.returned[e] \in 0 .. Cardinality(Events) + 1
        OBVIOUS
      <4>1. /\ walk.returned[e] \in Nat /\ walk.returned[e] <= PagesDone
            /\ walk.page <= Cardinality(Events) + 1
        BY DEF TypeInv
      <4> QED BY <2>1, <3>1, <4>1
    <3>3. walk.returned \in [Events -> Nat]
      BY DEF TypeInv
    <3> QED BY <3>2, <3>3
  <2> QED BY <2>2, <2>3 DEF TypeInv, TypeOK
<1> QED BY <1>1, ListingInvariant, PTL

\* A walk over a listing that stands still, its dates all different, returns each
\* listed event exactly once (EventRepository.list_events).
THEOREM StillWalks == Spec => []StillWalkComplete
<1>1. TypeInv /\ WalkInv => StillWalkComplete
  <2> SUFFICES ASSUME TypeInv, WalkInv, walk.pc = "done", ~hist.left, ~hist.came,
                      ~hist.tied, NEW e \in Events
               PROVE  walk.returned[e] = IF e \in Listed THEN 1 ELSE 0
    BY DEF StillWalkComplete
  <2>1. Observed /\ ReturnedListed /\ ReturnedBehind /\ AwaitedAhead
    BY DEF WalkInv, Walking
  <2>2. walk.returned[e] \in Nat /\ walk.returned[e] <= 1
    BY <2>1 DEF TypeInv, ReturnedBehind
  <2>3. CASE e \notin Listed
    BY <2>1, <2>3 DEF ReturnedListed
  <2>4. CASE e \in Listed
    <3>1. e \in hist.always /\ ~hist.gap
      BY <2>1, <2>4 DEF Observed
    <3>2. walk.returned[e] >= 1
      BY <2>1, <3>1 DEF AwaitedAhead
    <3> QED BY <2>2, <2>4, <3>2
  <2> QED BY <2>3, <2>4
<1> QED BY <1>1, ListingInvariant, PTL

\* An event that stays listed throughout a walk is skipped only where another has
\* left its place, or has come between count and slice, or shares a date.
THEOREM SkipsHaveACause == Spec => []SkippedOnlyByLeaving
<1>1. TypeInv /\ WalkInv => SkippedOnlyByLeaving
  BY DEF WalkInv, Walking, AwaitedAhead, SkippedOnlyByLeaving
<1> QED BY <1>1, ListingInvariant, PTL

\* An event is returned twice only where one has come into the listing or moved in
\* it, or shares a date with another.
THEOREM RepeatsHaveACause == Spec => []RepeatedOnlyByComing
<1>1. TypeInv /\ WalkInv => RepeatedOnlyByComing
  <2> SUFFICES ASSUME TypeInv, WalkInv, ~hist.came, ~hist.tied, NEW e \in Events
               PROVE  walk.returned[e] <= 1
    BY DEF RepeatedOnlyByComing
  <2>1. CASE walk.pc = "idle"
    BY <2>1, IdleType DEF WalkInv
  <2>2. CASE walk.pc # "idle"
    BY <2>2 DEF WalkInv, Walking, ReturnedBehind
  <2> QED BY <2>1, <2>2
<1> QED BY <1>1, ListingInvariant, PTL

\* A page is as long as its total says if nothing was committed between the count
\* and the slice (EventService.list_events, PaginatedResponse.build).
THEOREM PagesMatchTotals == Spec => PageMatchesTotal
<1> DEFINE A == walk.pc = "items" /\ walk'.pc \in {"count", "done"} /\ hist.quiet =>
                  Len(walk'.items) = Min({params.limit, Max({0, walk.total - Offset})})
<1>1. TypeInv /\ WalkInv /\ [Next]_vars => [A]_vars
  <2> SUFFICES ASSUME TypeInv, WalkInv, Next, walk.pc = "items",
                      walk'.pc \in {"count", "done"}, hist.quiet
               PROVE  Len(walk'.items) = Min({params.limit, Max({0, walk.total - Offset})})
    OBVIOUS
  <2>1. ListEvents
    BY DEF Next, BeginWalk, CountEvents, EndWalk, Write, CreateEvent, ChangeEvent, Store
  <2>2. PICK s \in Orders : walk'.items = Slice(s)
    <3>1. PICK s \in Orders :
            walk' = [pc |-> walk'.pc, page |-> walk'.page, total |-> walk.total,
                     items |-> Slice(s), returned |-> walk'.returned]
      BY <2>1, ListEventsStep
    <3>2. walk'.items = Slice(s)
      BY <3>1
    <3> QED BY <3>2
  <2>3. walk.total = Total
    BY DEF WalkInv, Walking, Counted
  <2> QED BY <2>2, <2>3, SliceShape
<1> QED BY <1>1, ListingInvariant, PTL DEF Spec, PageMatchesTotal
=============================================================================
