------------------------------- MODULE Reports -------------------------------
(***************************************************************************)
(* The reports read from the table orders: the dashboard of the day and of *)
(* the last days (store.rs), the rekap and the cards of a day              *)
(* (daily_report.rs, daily_infographic.rs, carrier_day_list.rs) and the    *)
(* cancel report. Each is a handful of queries with filters of their own;  *)
(* they are operators on the table of Desk, and the properties say where   *)
(* their numbers agree, or where the code says they do. Wording, rankings  *)
(* of products and layout are left out, and of the cards what they say of  *)
(* costs and of products: product_names.rs takes names apart.              *)
(***************************************************************************)
EXTENDS Desk, Functions, Sequences

CONSTANTS
    Carrier,  \* the words of an order's carrier, by the first class they match
    Platform, \* its marketplace; "" when BigSeller gives none
    Amount,   \* its amount
    Code,     \* the end of its number, as the pick list shows it
    Items,    \* its lines: sets of [no, sku, variant, name, qty, amount, extra];
              \* every line has a sku
    Catalog,  \* cost of each article; an article or a sku is a sequence of the
              \* segments between its dashes
    InCancel, \* orders of which some other column than the state says that they
              \* are canceled, or about to be
    SkuCap,   \* rows of a rekap (LIMIT 200)
    ReportCap, \* rows of a cancel report (LIMIT 5000)
    GroupCap, \* urgent orders looked at for a card (LIMIT 200)
    MaxCard   \* orders on a card (MAX_CARD_ORDERS)

Classes == {"instant", "anteraja", "spx", "jnt", "jne", "sicepat", "other"}

\* A missing quantity is 1 (map.rs:186).
ASSUME ReportsAssumption ==
    /\ Carrier \in [Orders -> Classes] /\ Amount \in [Orders -> Nat]
    /\ DOMAIN Platform = Orders /\ DOMAIN Code = Orders /\ DOMAIN Items = Orders
    /\ \A o \in Orders :
         /\ IsFiniteSet(Items[o])
         /\ \A l \in Items[o] : /\ l.sku \in Seq(STRING) /\ l.extra \in BOOLEAN
                                /\ l.qty \in Nat /\ l.amount \in Nat
    /\ InCancel \subseteq Orders
    /\ SkuCap \in Nat /\ ReportCap \in Nat /\ GroupCap \in Nat /\ MaxCard \in Nat

Stored == {o \in Orders : row[o].state # "absent"}
Canceled == {o \in Stored : row[o].state = "canceled"}
Archived == {o \in Stored : row[o].state = "archived"}

Total(f, S) == SumFunctionOnSet(f, S)
SumOf(f) == Total(f, DOMAIN f)
Worth(S) == Total(Amount, S)
Count(key, S) == [k \in {key[o] : o \in S} |-> Cardinality({o \in S : key[o] = k})]
\* The counts by carrier have no class for Anteraja, which is urgent all the
\* same (is_urgent_carrier).
KeyCarrier == [o \in Orders |-> IF Carrier[o] = "anteraja" THEN "other" ELSE Carrier[o]]
Urgent(o) == Carrier[o] \in {"instant", "anteraja"}
KeyState == [o \in Orders |-> row[o].state]
Named == [o \in Orders |-> IF Platform[o] = "" THEN "lainnya" ELSE Platform[o]]

\* The lines of some orders, each with its order; additions are the gifts of
\* the shop.
LinesOf(S) == UNION {{[order |-> o, line |-> l] : l \in Items[o]} : o \in S}
Paid(L) == {x \in L : ~x.line.extra}
Qty(L) == SumOf([x \in L |-> x.line.qty])
Revenue(L) == SumOf([x \in L |-> x.line.amount])

\* The article a line is looked up by (HPP_MATCH_SQL): the longest one in the
\* catalog of the sku itself and its first three and two segments, with the
\* zero marketplaces begin it with turned into a letter. Of the leading parts
\* of one sku the longest is the one of most segments.
Fixed(s) == IF Len(s) > 1 /\ s[1] = "0B" THEN [s EXCEPT ![1] = "OB"] ELSE s
Lead(s, n) == SubSeq(s, 1, n)
Longest(A) == {a \in A \cap DOMAIN Catalog : \A b \in A \cap DOMAIN Catalog : Len(b) <= Len(a)}
DashboardArt(sku) ==
    LET s == Fixed(sku)
    IN  Longest({s} \cup {Lead(s, n) : n \in 2 .. 3 \cap 1 .. Len(s)})

\* What the lines cost whose sku has an article.
Cost(art) ==
    LET C(x) == x.line.qty * Catalog[CHOOSE a \in art[x] : TRUE]
    IN  SumOf([x \in {y \in DOMAIN art : art[y] # {}} |-> C(x)])
DashboardCost(L) == Cost([x \in L |-> DashboardArt(x.line.sku)])
Covered(L) == {x \in L : DashboardArt(x.line.sku) # {}}
Margin(L) == Revenue(Covered(L)) - DashboardCost(L)

\* ORDER BY ordered_at DESC NULLS LAST LIMIT n: what it may leave of some orders.
Capped(S, n) == IF Cardinality(S) < n THEN Cardinality(S) ELSE n
Comes(o, p) ==
    row[p].ordered = None \/ (row[o].ordered # None /\ row[o].ordered >= row[p].ordered)
Newest(S, n) ==
    {T \in SUBSET S : /\ Cardinality(T) = Capped(S, n)
                      /\ \A o \in T, p \in S \ T : Comes(o, p)}

----------------------------------------------------------------------------
(* Of a day: rows count by ordered_at, or first_seen_at when it is NULL.   *)

When(o) == IF row[o].ordered # None THEN row[o].ordered ELSE row[o].first
Between(a, b) == {o \in Stored : When(o) >= a /\ When(o) < b}

\* day_bounds_utc: [start, end) of day d.
\* Mutant: the end belongs to the day.
OfDayAndNext(d) == Between(d * DayLen, (d + 1) * DayLen + 1)
OfDay(d) == Between(d * DayLen, (d + 1) * DayLen)

\* load_daily_rekap: rows of a sku, a variant and a name, those of the largest
\* quantities up to SkuCap, and item_qty adds up what is on them. Its counts
\* by state and by platform are left out.
RekapKey(l) == <<l.sku, l.variant, l.name>>
Rekap(d) ==
    LET S == OfDay(d) \ Canceled
        L == LinesOf(S)
        Of(k) == {x \in L : RekapKey(x.line) = k}
        keys == {RekapKey(x.line) : x \in L}
        shown == {T \in SUBSET keys :
                    /\ Cardinality(T) = Capped(keys, SkuCap)
                    /\ \A k \in T, j \in keys \ T : Qty(Of(k)) >= Qty(Of(j))}
        rows == CHOOSE T \in shown : TRUE
    IN  [orders |-> Cardinality(S), gmv |-> Worth(S), rows |-> rows,
         qty |-> SumOf([k \in rows |-> Qty(Of(k))])]

\* load_carrier_day_list
CarrierDayList(d) == Count(KeyCarrier, OfDay(d) \ Canceled)

\* load_window_stats: of a part of a day, and what was canceled of it.
WindowStats(a, b) ==
    LET S == Between(a, b) \ Canceled
        C == Between(a, b) \cap Canceled
    IN  [orders |-> Cardinality(S), gmv |-> Worth(S), qty |-> Qty(LinesOf(S)),
         carriers |-> Count(KeyCarrier, {o \in S : KeyCarrier[o] # "other"}),
         cancels |-> Cardinality(C), cancelGmv |-> Worth(C)]

\* load_daily_infographic: the day so far, beside the day before until the
\* same time of it.
Infographic ==
    LET start == DayStart(now)
    IN  [current |-> WindowStats(start, now + 1),
         previous |-> WindowStats(start - DayLen, now + 1 - DayLen)]

\* load_urgent_orders: what the group may get when it asks for the urgent
\* orders, the first MaxCard of the newest that can be loaded.
GroupCards ==
    LET urgent == {o \in Between(DayStart(now), now + 1) :
                      row[o].state \in {"new", "processing", "pickup"} /\ Urgent(o)}
    IN  {T \in SUBSET urgent : /\ Cardinality(T) <= MaxCard
                               /\ \E N \in Newest(urgent, GroupCap) : T \subseteq N}

\* aggregate_summary_rows: the pick list of some orders, a row for each sku, in
\* it what goes into each package and how much of that is urgent.
PickList(S) ==
    LET L == {x \in LinesOf(S) : x.line.qty > 0}
        Of(s) == {x \in L : x.line.sku = s}
        InPack(P, c) == Qty({x \in P : Code[x.order] = c})
        Packs(P) == [c \in {Code[x.order] : x \in P} |-> InPack(P, c)]
    IN  [s \in {x.line.sku : x \in L} |->
            [qty |-> Qty(Of(s)), packs |-> Packs(Of(s)),
             instant |-> Packs({x \in Of(s) : Urgent(x.order)})]]

\* cancel_daily_report: what its rows may be.
CancelReports(d) == Newest({o \in OfDay(d) : o \in Canceled \cup InCancel}, ReportCap)

----------------------------------------------------------------------------
(* The dashboard: rows without ordered_at are on none of its numbers.      *)

Dated == {o \in Stored : row[o].ordered # None}

\* today_stats
TodayStats ==
    LET S == {o \in Dated \ (Canceled \cup Archived) : row[o].ordered >= DayStart(now)}
    IN  [carriers |-> Count(Carrier, S), orders |-> SumOf(Count(Carrier, S)),
         platforms |-> Count(Named, S), items |-> Qty(Paid(LinesOf(S)))]

\* analytics: the window goes back n times 24 hours from now.
Window(n) == {o \in Dated \ Archived : row[o].ordered >= now - n * DayLen}
Sold(n) == Window(n) \ Canceled
Sales(n) == Paid(LinesOf(Sold(n)))

AnalyticsTotals(n) ==
    [orders |-> Cardinality(Sold(n)), canceled |-> Cardinality(Window(n) \cap Canceled),
     qty |-> Qty(Sales(n)), covered |-> Qty(Covered(Sales(n))),
     revenue |-> Revenue(Sales(n)), cost |-> DashboardCost(Sales(n)),
     margin |-> Margin(Sales(n))]

\* The bars of the last n calendar days; what is of no such day is dropped.
OnDay(d) == {o \in Orders : Day(row[o].ordered) = d}
AnalyticsDaily(n) ==
    [d \in Day(now) - n + 1 .. Day(now) |->
        LET S == Sold(n) \cap OnDay(d)
        IN  [orders |-> Cardinality(S), revenue |-> Revenue(Paid(LinesOf(S))),
             margin |-> Margin(Paid(LinesOf(S)))]]

\* Orders are grouped by the name of their platform, the money by what the
\* column holds: that of an unnamed platform finds no entry.
AnalyticsPlatforms(n) ==
    [p \in {Named[o] : o \in Window(n)} |->
        LET S == {o \in Sold(n) : Named[o] = p}
            L == {x \in Sales(n) : Platform[x.order] = p}
        IN  [orders |-> Cardinality(S), revenue |-> Revenue(L),
             cost |-> DashboardCost(L), margin |-> Margin(L)]]

AnalyticsCarriers(n) == Count(Carrier, Sold(n))
AnalyticsStates(n) == Count(KeyState, Window(n))

----------------------------------------------------------------------------
(* Properties.                                                             *)

\* A bar has the orders the rekap of its day has, but for archived ones and
\* those without a date of their own: the window never cuts a bar.
BarsAreDays(n) ==
    LET bars == AnalyticsDaily(n)
        odd(d) == {o \in OfDay(d) \ Canceled : o \in Archived \/ o \notin Dated}
    IN  \A d \in DOMAIN bars \cap Nat :
            bars[d].orders = Rekap(d).orders - Cardinality(odd(d))

\* Each breakdown is a query of its own, with the window and the states written
\* out again. They add up to the totals, but for the money of the platforms.
BreakdownsAddUp(n) ==
    LET tot == AnalyticsTotals(n)
        plat == AnalyticsPlatforms(n)
        blank == {x \in Sales(n) : Platform[x.order] = ""}
    IN  /\ SumOf(AnalyticsCarriers(n)) = tot.orders
        /\ SumOf(AnalyticsStates(n)) = tot.orders + tot.canceled
        /\ SumOf([p \in DOMAIN plat |-> plat[p].orders]) = tot.orders
        /\ SumOf([p \in DOMAIN plat |-> plat[p].revenue])
             = tot.revenue - Revenue(blank)

\* The day on the dashboard, on its last bar, in the rekap and on the cards.
TodayAgrees ==
    LET d == Day(now)
        instant(T) == {o \in T : Carrier[o] = "instant"}
        byCarrier == Infographic.current.carriers
    IN  /\ TodayStats.orders = AnalyticsDaily(1)[d].orders
        /\ Infographic.current.orders = Rekap(d).orders
        /\ Infographic.current.gmv = Rekap(d).gmv
        /\ SumOf(CarrierDayList(d)) = Rekap(d).orders
        /\ Rekap(d).qty <= Infographic.current.qty
        /\ Cardinality(Rekap(d).rows) < SkuCap => Rekap(d).qty = Infographic.current.qty
        /\ TodayStats.items <= Infographic.current.qty
        /\ \A T \in GroupCards : instant(T) # {} =>
             /\ "instant" \in DOMAIN byCarrier
             /\ Cardinality(instant(T)) <= byCarrier["instant"]

\* The packages of a row add up to it, although two orders may share a code,
\* and the rows to what the day sold; no more is urgent than there is.
PickListAddsUp ==
    LET list == PickList(Between(DayStart(now), now + 1) \ Canceled)
    IN  /\ SumOf([s \in DOMAIN list |-> list[s].qty]) = Infographic.current.qty
        /\ \A s \in DOMAIN list :
             /\ SumOf(list[s].packs) = list[s].qty
             /\ \A c \in DOMAIN list[s].instant : list[s].instant[c] <= list[s].packs[c]

\* Every stored order is of exactly one day, where the rekap counts it or the
\* cancel report lists it, and both only while its cancel is under way; unless
\* the report is full.
EachOrderOnce ==
    /\ \A o \in Stored : \E d \in 0 .. Day(now) :
         o \in OfDay(d) /\ \A e \in 0 .. Day(now) : o \in OfDay(e) => e = d
    /\ \A d \in 0 .. Day(now) : \A T \in CancelReports(d) :
         Cardinality(T) < ReportCap =>
             Rekap(d).orders + Cardinality(T)
               = Cardinality(OfDay(d)) + Cardinality((OfDay(d) \cap InCancel) \ Canceled)

\* Safety. The reports, each with queries and filters of its own, count the same
\* orders, but for those the texts above name.
ReportsAgree == kind = "reports" =>
    /\ EachOrderOnce /\ TodayAgrees /\ PickListAddsUp
    /\ \A n \in 1 .. 2 : BarsAreDays(n) /\ BreakdownsAddUp(n)
=============================================================================
