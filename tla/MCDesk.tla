------------------------------- MODULE MCDesk -------------------------------
EXTENDS Reports, Paper, TLC

\* What becomes of an order, as far as each kind of reader can tell it apart.
MCFlow ==
    [feed |-> {<<"new", "processing">>, <<"processing", "shipped">>},
     events |-> {<<"new", "canceled">>},
     labels |-> {<<"new", "processing">>},
     reports |-> {<<"new", "processing">>, <<"processing", "canceled">>}]
MCBeside ==
    [k \in Readers |-> IF k = "events" THEN Writers ELSE {CHOOSE w \in Writers : TRUE}]
Alike == Permutations(Desks)

MCCarrier == [o \in Orders |-> IF o = 1 THEN "instant" ELSE "anteraja"]
MCPlatform == [o \in Orders |-> IF o = 1 THEN "" ELSE "shopee"]
MCAmount == [o \in Orders |-> 10 * o]
MCCode == [o \in Orders |-> "*RGC0"]
\* The marketplaces name a product each in its own way.
Line(n, s, o, q, a, x) ==
    [no |-> n, sku |-> s, variant |-> "", name |-> <<n, o>>, qty |-> q, amount |-> a,
     extra |-> x]
MCItems ==
    [o \in Orders |->
        {Line(1, <<"0B", "015", "4", "XL", "RED">>, o, o, 8, FALSE),
         Line(2, IF o = 1 THEN <<"MB", "042">> ELSE <<"OB">>, o, 2, 3 - o, o = 2)}]
\* The article of four segments is out of the dashboard's reach, and so is the
\* one of a single segment, but for a sku that is no longer.
MCCatalog ==
    [a \in {<<"OB", "015">>, <<"OB", "015", "4", "XL">>, <<"OB">>} |-> 2 + Len(a)]

\* The paper does not depend on the table: it is looked at once, while nothing
\* is stored yet.
Blank == kind = "reports" /\ now = 0 /\ \A o \in Orders : truth[o] = "absent"

\* Safety. The rows of every Summary List fit its sheets (RowsFit).
SheetsFit ==
    Blank => \A n \in 0 .. MaxRows : \A rows \in [1 .. n -> RowLines] :
                RowsFit(rows, TRUE) /\ RowsFit(rows, FALSE)

\* Safety. What is drawn on a card fits it, whatever orders, notes and lists
\* there are (CardFits, NoteFits, RekapFits).
Notes == UNION {[1 .. n -> Lengths] : n \in 0 .. MaxWords}
OnCard == [words : {w \in Notes : Cardinality({w[i] : i \in DOMAIN w}) <= 1},
           items : Lines, reason : BOOLEAN]
CardsFit ==
    Blank => /\ \A n \in 1 .. MaxOrders : \A orders \in [1 .. n -> OnCard] : CardFits(orders)
             /\ \A words \in Notes : NoteFits(words)
             /\ \A skus \in 0 .. 200 : RekapFits(skus)
             /\ CarrierTotal + 72 <= CarrierBox
             /\ \A k \in 0 .. 4 : CourierRow(k) < EstimateBox
             /\ \A k \in 0 .. 7 : TopRows(k) < EstimateBox
=============================================================================
