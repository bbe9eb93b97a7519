-------------------------------- MODULE Offer --------------------------------
(***************************************************************************)
(* What the agent is told of a product and what an order of it costs.      *)
(*                                                                         *)
(* The tools quote a product (_product_brief, _boxes_for_product) and      *)
(* create_order prices it (_process_items): two readings of the same rows  *)
(* of product, category, settings and boxes, written twice.  The customer  *)
(* decides by the first and is charged by the second, while staff edit the *)
(* rows in between.  The units of the jewel itself are left to Catalog.    *)
(***************************************************************************)
EXTENDS Naturals

CONSTANTS
    Amount,      \* prices
    Letters,     \* limits of an engraving, in letters; 0 is no limit
    Text,        \* lengths of the text to engrave; 0 is none
    RingSize, Listed,    \* Listed: available_sizes of the category, which may be empty
    Colour,      \* the boxes of the product's category
    Count,       \* units of a box that are to be had
    Pieces,      \* quantities of an order line
    Assortment,  \* bound: the rows of the product that staff ever write
    Policy,      \* bound: the settings that staff ever write
    Unset        \* NULL

VARIABLES
    product,     \* its row, and whether its category asks for a ring size
    general,     \* the settings that hold for every product
    colour,      \* the rows of the boxes
    brief,       \* what the agent was told last, <<>> when a row has changed since
    deal         \* the open order: its line and its sum, or <<>>

offerVars == <<product, general, colour, brief, deal>>

ProductRow == [price : Amount, discount : Amount \cup {Unset}, engravable : BOOLEAN,
               engraving : Amount \cup {Unset}, letters : Letters \cup {Unset}, sized : BOOLEAN]
General == [engravings : BOOLEAN, engraving : Amount, letters : Letters, boxes : BOOLEAN]
Wish == [pieces : Pieces, text : Text, size : RingSize \cup {Unset}, colour : Colour \cup {Unset}]

ASSUME OfferAssumption ==
    /\ Amount \subseteq Nat /\ Letters \subseteq Nat /\ Text \subseteq Nat /\ Count \subseteq Nat
    /\ Pieces \subseteq Nat \ {0} /\ Listed \subseteq RingSize
    /\ Unset \notin Nat \cup RingSize \cup Colour
    /\ Assortment \subseteq ProductRow /\ Policy \subseteq General

\* create_product, update_product and create_combo refuse anything else.
Priced(p) == p.discount # Unset => p.discount <= p.price

Given(own, default) == IF own = Unset THEN default ELSE own

EffectivePrice == Given(product.discount, product.price)

-----------------------------------------------------------------------------
(* What the tools tell.                                                    *)

OfferedColour == {c \in Colour : general.boxes /\ colour[c].active /\ colour[c].left > 0}

Quote == [price |-> EffectivePrice,
          engraved |-> general.engravings /\ product.engravable,
          engraving |-> Given(product.engraving, general.engraving),
          letters |-> Given(product.letters, general.letters),
          sizes |-> IF product.sized THEN Listed ELSE {},
          boxes |-> [c \in OfferedColour |-> [price |-> colour[c].price, left |-> colour[c].left]]]

\* get_product_details.
Tell ==
    /\ brief' = Quote
    /\ UNCHANGED <<product, general, colour, deal>>

\* A wish that keeps to what was told.
TextTold(w) == w.text > 0 => brief.engraved /\ (brief.letters = 0 \/ w.text <= brief.letters)
SizeTold(w) == w.size = Unset \/ brief.sizes = {} \/ w.size \in brief.sizes
ColourTold(w) == IF DOMAIN brief.boxes = {} THEN w.colour = Unset
                 ELSE w.colour \in DOMAIN brief.boxes /\ w.pieces <= brief.boxes[w.colour].left

SumTold(w) == (brief.price + (IF w.text > 0 THEN brief.engraving ELSE 0)
                           + (IF w.colour = Unset THEN 0 ELSE brief.boxes[w.colour].price)) * w.pieces

-----------------------------------------------------------------------------
(* What create_order takes and charges.                                    *)

SizeTaken(w) == w.size # Unset /\ product.sized /\ Listed # {} => w.size \in Listed

EngravingLimit == Given(product.letters, general.letters)

TextTaken(w) ==
    w.text > 0 => /\ general.engravings /\ product.engravable
                  /\ EngravingLimit # 0 => w.text <= EngravingLimit

GeneralEngravingPrice == general.engraving
EngravingPrice == Given(product.engraving, general.engraving)

\* rows: the boxes in the session, with the units of the superseded order given back.
ColourTaken(w, rows) ==
    IF w.colour = Unset THEN ~(general.boxes /\ \E c \in Colour : rows[c].active /\ rows[c].left > 0)
    ELSE general.boxes /\ rows[w.colour].active /\ w.pieces <= rows[w.colour].left

Charge(w) == (EffectivePrice + (IF w.text > 0 THEN EngravingPrice ELSE 0)
                             + (IF w.colour = Unset THEN 0 ELSE colour[w.colour].price)) * w.pieces

-----------------------------------------------------------------------------

Supplied(c, n, rows) == [rows EXCEPT ![c].left = @ + n]

GivenBack ==
    IF deal # <<>> /\ deal.wish.colour # Unset THEN Supplied(deal.wish.colour, deal.wish.pieces, colour) ELSE colour

Booked(w, rows) == IF w.colour = Unset THEN rows ELSE [rows EXCEPT ![w.colour].left = @ - w.pieces]

\* _resolve_box_id: a box that is not on sale counts as none.
Resolved(w) == IF w.colour = Unset \/ colour[w.colour].active THEN w ELSE [w EXCEPT !.colour = Unset]

\* The tool leaves the open order alone if that has the same quantity and size, whatever its box and text.
Same(w) == deal # <<>> /\ deal.wish.pieces = w.pieces /\ deal.wish.size = w.size

\* The tool create_order.  What fails has cancelled the open order all the same.
Ask(wish) ==
    LET w == Resolved(wish) IN
    /\ ~Same(w)
    /\ IF SizeTaken(w) /\ TextTaken(w) /\ ColourTaken(w, GivenBack)
         THEN deal' = [wish |-> w, sum |-> Charge(w)] /\ colour' = Booked(w, GivenBack)
         ELSE deal' = <<>> /\ colour' = GivenBack
    /\ brief' = IF colour' = colour THEN brief ELSE <<>>
    /\ UNCHANGED <<product, general>>

\* The order is cancelled, or paid, which keeps its box.
CloseDeal(cancelled) ==
    /\ deal # <<>>
    /\ deal' = <<>>
    /\ colour' = IF cancelled THEN GivenBack ELSE colour
    /\ brief' = IF colour' = colour THEN brief ELSE <<>>
    /\ UNCHANGED <<product, general>>

\* update_product, and update_category as to the ring sizes.
UpdateProduct(row) ==
    /\ Priced(row) /\ row # product
    /\ product' = row /\ brief' = <<>>
    /\ UNCHANGED <<general, colour, deal>>

UpdateGeneral(row) ==
    /\ row # general
    /\ general' = row /\ brief' = <<>>
    /\ UNCHANGED <<product, colour, deal>>

\* create_box, update_box, adjust_box_stock and delete_box; the orders of other customers.
UpdateColour(c, active, price, left) ==
    /\ colour' = [colour EXCEPT ![c] = [active |-> active, price |-> price, left |-> left]] /\ brief' = <<>>
    /\ UNCHANGED <<product, general, deal>>

-----------------------------------------------------------------------------

OfferInit ==
    /\ product \in {p \in Assortment : Priced(p)} /\ general \in Policy
    /\ colour \in [Colour -> [active : {FALSE}, price : Amount, left : Count]]
    /\ brief = <<>> /\ deal = <<>>

OfferNext ==
    \/ Tell
    \/ \E w \in Wish : Ask(w)
    \/ \E cancelled \in BOOLEAN : CloseDeal(cancelled)
    \/ \E row \in Assortment : UpdateProduct(row)
    \/ \E row \in Policy : UpdateGeneral(row)
    \/ \E c \in Colour, active \in BOOLEAN, price \in Amount, left \in Count : UpdateColour(c, active, price, left)

OfferSpec == OfferInit /\ [][OfferNext]_offerVars

-----------------------------------------------------------------------------

\* Every variable keeps its type, and no discount raises a price.
OfferTypeOK ==
    /\ product \in ProductRow /\ Priced(product) /\ general \in General
    /\ colour \in [Colour -> [active : BOOLEAN, price : Amount, left : Nat]]
    /\ deal = <<>> \/ deal \in [wish : Wish, sum : Nat]

\* The units of the open order's box are counted in by create_order and were not by the quote.
BoxToComeBack == deal # <<>> /\ deal.wish.colour # Unset /\ deal.wish.colour \notin DOMAIN brief.boxes

\* The agent's word holds: a wish that keeps to what the tools told is ordered as it is, for the sum they told, and a
\* text or a size they did not offer is refused.  Not so when a row has changed since, when the open order
\* looks the same to the tool, or when it holds the last units of a box, which the customer is then asked to choose.
BriefIsHonoured ==
    [][\A w \in Wish : brief # <<>> /\ Ask(w) =>
          /\ TextTold(w) /\ SizeTold(w) /\ ColourTold(w) /\ ~BoxToComeBack => deal' = [wish |-> w, sum |-> SumTold(w)]
          /\ ~(TextTold(w) /\ SizeTold(w)) => deal' = <<>>]_offerVars
=============================================================================
