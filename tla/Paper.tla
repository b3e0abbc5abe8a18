------------------------------- MODULE Paper -------------------------------
(***************************************************************************)
(* The paper: where the rows of the Summary List fall on its sheets        *)
(* (batch_pdf.rs), and how tall the cards are (instant_notify.rs,          *)
(* cancel_notify.rs, daily_report.rs, carrier_day_list.rs,                 *)
(* daily_infographic.rs). Each of them reckons the room it needs in one    *)
(* place and uses it up in another. Of a text only its length matters.     *)
(* The Summary List is measured in tenths of a millimetre from the lower   *)
(* edge, a card in pixels from the upper one.                              *)
(***************************************************************************)
EXTENDS Integers, Sequences, FiniteSets, Functions

CONSTANTS
    RowLines,  \* bound: lines of packages of a row of the Summary List
    MaxRows,   \* bound: rows of it
    Lengths,   \* bound: lengths of the words of a buyer's note
    MaxWords,  \* bound: words of a note
    Lines,     \* bound: lines of an order on a card
    MaxOrders  \* bound: orders on a card

ASSUME PaperAssumption ==
    /\ RowLines \subseteq Nat /\ Lengths \subseteq Nat \ {0} /\ Lines \subseteq Nat
    /\ MaxRows \in Nat /\ MaxWords \in Nat /\ MaxOrders \in Nat

Least(a, b) == IF a < b THEN a ELSE b
Most(a, b) == IF a < b THEN b ELSE a

\* wrap_parts, and buyer_note_lines without its limit: which of the pieces make
\* each of the lines, for pieces of these lengths. A piece alone may be too long.
Length(line, lens, gap) ==
    SumFunctionOnSet(lens, line) + gap * (Cardinality(line) - 1)
AddTo(lines, i, lens, gap, width) ==
    LET k == Len(lines)
    IN  IF k > 0 /\ Length(lines[k], lens, gap) + gap + lens[i] <= width
        THEN [lines EXCEPT ![k] = @ \cup {i}]
        ELSE Append(lines, {i})
Wrap(lens, gap, width) ==
    LET upTo[i \in 0 .. Len(lens)] ==
            IF i = 0 THEN <<>> ELSE AddTo(upTo[i - 1], i, lens, gap, width)
    IN  upTo[Len(lens)]

----------------------------------------------------------------------------
(* The Summary List.                                                       *)

PageTop == 2970 - 80
ContentBottom == 200
Thumb == 180

\* What the header leaves of a page.
FirstRow == PageTop - 55 - 36

\* The room a row asks for. Mutant: its packages are not counted.
RoomOfThumb(n) == Thumb + 5 + 26
RoomOf(n) == Most(32 + 38 + 32 * n + 16, Thumb + 5) + 26

\* Where it is drawn: the divider below a row whose top is y.
Divider(y, n) ==
    LET text == y - 18 - 38 - (IF n = 0 THEN 0 ELSE 36 + 32 * (n - 1))
    IN  Least(text, y - Thumb) - 5 - 16

\* After the left page of a sheet comes its right one.
NextPage(p, twoUp) ==
    IF twoUp /\ p.col = 0 THEN [sheet |-> p.sheet, col |-> 1, rows |-> <<>>]
    ELSE [sheet |-> p.sheet + 1, col |-> 0, rows |-> <<>>]

\* render_batch_pdf_two_up: the pages of rows of so many lines of packages.
Draw(acc, n, twoUp) ==
    LET full == acc.y - RoomOf(n) < ContentBottom
        here == acc.pages[Len(acc.pages)]
        page == IF full THEN NextPage(here, twoUp) ELSE here
        end == Divider(IF full THEN FirstRow ELSE acc.y, n)
        drawn == [page EXCEPT !.rows = Append(@, [lines |-> n, end |-> end])]
    IN  [pages |-> IF full THEN Append(acc.pages, drawn)
                   ELSE [acc.pages EXCEPT ![Len(acc.pages)] = drawn],
         y |-> end - 26]
NoRows == [pages |-> <<[sheet |-> 1, col |-> 0, rows |-> <<>>]>>, y |-> FirstRow]
Pages(rows, twoUp) ==
    LET upTo[i \in 0 .. Len(rows)] ==
            IF i = 0 THEN NoRows ELSE Draw(upTo[i - 1], rows[i], twoUp)
    IN  upTo[Len(rows)].pages

----------------------------------------------------------------------------
(* The cards.                                                              *)

Pad == 36
ItemHeight == 108 + 22

\* buyer_note_lines, buyer_note_height: no more than four lines are shown.
NoteLines(words) ==
    LET lines == Wrap(words, 1, 76)
    IN  SubSeq(lines, 1, Least(Len(lines), 4))
NoteHeight(words) ==
    IF words = <<>> THEN 0 ELSE 26 * Most(Len(NoteLines(words)), 1) + 14

\* card_to_svg of both cards: the room an order has, and what is drawn of it.
\* Mutant: the card of the instant orders has no room for notes.
InstantRoomBare(o) == 64 + ItemHeight * o.items + 20
InstantRoom(o) == 64 + NoteHeight(o.words) + ItemHeight * o.items + 20
CancelRoom(o) == 64 + (IF o.reason THEN 36 ELSE 0) + ItemHeight * o.items + 20
InstantDrawn(o) == 58 + 14 + NoteHeight(o.words) + ItemHeight * o.items
CancelDrawn(o) == 58 + 14 + (IF o.reason THEN 36 ELSE 4) + ItemHeight * o.items

SumSeq(f) == SumFunctionOnSet(f, DOMAIN f)
BoxOf(room) == Pad + 156 + 20 + room + 24 + 16
InkOf(drawn, orders) == Pad + 156 + 12 + drawn + 8 * Most(Len(orders) - 1, 0)

\* rekap_to_svg: the first 40 groups, and how many more there are.
Shown(skus) == Least(skus, 40)
RekapHeight(skus) == 380 + 44 + 56 * Shown(skus) + (IF skus > Shown(skus) THEN 36 ELSE 0) + 88
RekapInk(skus) == 380 + 44 + 56 * Shown(skus) + (IF skus > Shown(skus) THEN 22 ELSE 0)
RekapFooter(skus) == RekapHeight(skus) - 36

\* carrier_day_list_to_svg: five carriers, and below them the total.
CarrierBox == Pad + 148 + 26 + 128 * 5 + 14 * 4 + 22 + 80 + 24
CarrierTotal == Pad + 148 + 26 + 5 * (128 + 14) - 14 + 12

\* to_svg: the carriers, and beside them up to five products, above a box that
\* is always in the same place.
CourierRow(i) == 550 + 86 * i + 72
TopRows(products) == IF products = 0 THEN 620 ELSE 586 + 78 * (Least(products, 5) - 1) + 24
EstimateBox == 1036

----------------------------------------------------------------------------
(* Properties.                                                             *)

\* A row that no page has room for.
TooTall(n) == FirstRow - RoomOf(n) < ContentBottom

\* Whatever is to be picked, each row ends above the foot of its page, but for
\* one that no page has room for, which a page of its own begins with; only
\* before such a row the first page has a header and nothing else.
RowsFit(rows, twoUp) ==
    LET pages == Pages(rows, twoUp)
    IN  \A i \in DOMAIN pages :
             /\ \A k \in DOMAIN pages[i].rows :
                  LET r == pages[i].rows[k]
                  IN  r.end >= ContentBottom
                        \/ (TooTall(r.lines) /\ k = 1 /\ Len(pages[i].rows) = 1)
             /\ pages[i].rows = <<>> =>
                  i = 1 /\ (rows = <<>> \/ TooTall(rows[1]))

\* A card is at least as tall as what is drawn on it.
CardFits(orders) ==
    /\ InkOf(SumSeq([i \in DOMAIN orders |-> InstantDrawn(orders[i])]), orders)
         <= BoxOf(SumSeq([i \in DOMAIN orders |-> InstantRoom(orders[i])]))
    /\ InkOf(SumSeq([i \in DOMAIN orders |-> CancelDrawn(orders[i])]), orders)
         <= BoxOf(SumSeq([i \in DOMAIN orders |-> CancelRoom(orders[i])]))

\* A note is shown from its beginning, as much of it as its lines hold, and the
\* last of its lines is above what follows it.
NoteFits(words) ==
    LET lines == NoteLines(words)
        shown == UNION {lines[k] : k \in DOMAIN lines}
    IN  /\ shown = 1 .. Cardinality(shown)
        /\ \A k \in DOMAIN lines : Length(lines[k], words, 1) <= 76 \/ Cardinality(lines[k]) = 1
        /\ words # <<>> => 20 + 26 * (Len(lines) - 1) < NoteHeight(words)
        /\ Cardinality(shown) < Len(words) => Len(lines) = 4

\* The list of the rekap ends above its footer, and that in the white of the card.
RekapFits(skus) ==
    RekapInk(skus) < RekapFooter(skus) - 14 /\ RekapFooter(skus) <= RekapHeight(skus) - 24
=============================================================================
