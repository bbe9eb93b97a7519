---------------------------- MODULE SalesProofs -----------------------------
(***************************************************************************)
(* The agent's word holds for any prices, limits, sizes and boxes, the     *)
(* bill is the sum of its lines, and the customer is asked for what the    *)
(* bill comes to, for any orders, lines and requests.                      *)
(***************************************************************************)
EXTENDS Offer, Sale, TLAPS

-----------------------------------------------------------------------------
(* Offer.  The one fact that the steps preserve beside the types is that   *)
(* what was told, while it is kept, is what the tools would tell now.      *)
(* Quote and create_order then read the same rows, and what is left is     *)
(* that their two sums and their two sets of conditions agree.             *)

Fresh == brief = <<>> \/ brief = Quote

LEMMA ChargeType ==
    ASSUME OfferTypeOK, NEW w \in Wish
    PROVE  Charge(w) \in Nat
<1>1. EffectivePrice \in Nat
    BY OfferAssumption DEF OfferTypeOK, EffectivePrice, Given, ProductRow
<1>2. EngravingPrice \in Nat
    BY OfferAssumption DEF OfferTypeOK, EngravingPrice, Given, ProductRow, General
<1>3. w.colour # Unset => colour[w.colour].price \in Nat
    BY OfferAssumption DEF OfferTypeOK, Wish
<1>4. w.pieces \in Nat
    BY OfferAssumption DEF Wish
<1>5. \A m, n \in Nat : m * n \in Nat
    OBVIOUS
<1>6. QED
    BY <1>1, <1>2, <1>3, <1>4, <1>5 DEF Charge

LEMMA ResolvedType ==
    ASSUME NEW w \in Wish
    PROVE  Resolved(w) \in Wish
BY DEF Resolved, Wish

LEMMA GivenBackType ==
    ASSUME OfferTypeOK
    PROVE  GivenBack \in [Colour -> [active : BOOLEAN, price : Amount, left : Nat]]
<1>1. CASE deal # <<>> /\ deal.wish.colour # Unset
    <2>1. deal.wish \in Wish
        BY <1>1 DEF OfferTypeOK
    <2>2. deal.wish.colour \in Colour /\ deal.wish.pieces \in Nat
        BY <1>1, <2>1, OfferAssumption DEF Wish
    <2>3. QED
        BY <1>1, <2>2 DEF GivenBack, Supplied, OfferTypeOK
<1>2. CASE ~(deal # <<>> /\ deal.wish.colour # Unset)
    BY <1>2 DEF GivenBack, OfferTypeOK
<1>3. QED
    BY <1>1, <1>2

LEMMA BookedType ==
    ASSUME NEW rows \in [Colour -> [active : BOOLEAN, price : Amount, left : Nat]], NEW w \in Wish, ColourTaken(w, rows)
    PROVE  Booked(w, rows) \in [Colour -> [active : BOOLEAN, price : Amount, left : Nat]]
<1>1. CASE w.colour = Unset
    BY <1>1 DEF Booked
<1>2. CASE w.colour # Unset
    <2>1. w.colour \in Colour /\ w.pieces \in Nat /\ rows[w.colour].left \in Nat /\ w.pieces <= rows[w.colour].left
        BY <1>2, OfferAssumption DEF Wish, ColourTaken
    <2>2. rows[w.colour].left - w.pieces \in Nat
        BY <2>1
    <2>3. QED
        BY <1>2, <2>1, <2>2 DEF Booked
<1>3. QED
    BY <1>1, <1>2

LEMMA StepOfferTypeOK == OfferTypeOK /\ [OfferNext]_offerVars => OfferTypeOK'
<1> SUFFICES ASSUME OfferTypeOK, [OfferNext]_offerVars PROVE OfferTypeOK'
    OBVIOUS
<1>1. CASE Tell \/ UNCHANGED offerVars
    BY <1>1 DEF Tell, offerVars, OfferTypeOK, Priced
<1>2. ASSUME NEW wish \in Wish, Ask(wish) PROVE OfferTypeOK'
    <2> DEFINE w == Resolved(wish)
    <2>1. w \in Wish
        BY ResolvedType
    <2>2. UNCHANGED <<product, general>>
        BY <1>2 DEF Ask
    <2>3. CASE SizeTaken(w) /\ TextTaken(w) /\ ColourTaken(w, GivenBack)
        <3>1. deal' = [wish |-> w, sum |-> Charge(w)] /\ colour' = Booked(w, GivenBack)
            BY <1>2, <2>3 DEF Ask
        <3>2. colour' \in [Colour -> [active : BOOLEAN, price : Amount, left : Nat]]
            BY <2>1, <2>3, <3>1, GivenBackType, BookedType
        <3>3. Charge(w) \in Nat
            BY <2>1, ChargeType
        <3>4. QED
            BY <2>1, <2>2, <3>1, <3>2, <3>3 DEF OfferTypeOK, Priced
    <2>4. CASE ~(SizeTaken(w) /\ TextTaken(w) /\ ColourTaken(w, GivenBack))
        <3>1. deal' = <<>> /\ colour' = GivenBack
            BY <1>2, <2>4 DEF Ask
        <3>2. QED
            BY <2>2, <3>1, GivenBackType DEF OfferTypeOK, Priced
    <2>5. QED
        BY <2>3, <2>4
<1>3. ASSUME NEW cancelled \in BOOLEAN, CloseDeal(cancelled) PROVE OfferTypeOK'
    BY <1>3, GivenBackType DEF CloseDeal, OfferTypeOK, Priced
<1>4. ASSUME NEW row \in Assortment, UpdateProduct(row) PROVE OfferTypeOK'
    BY <1>4, OfferAssumption DEF UpdateProduct, OfferTypeOK, Priced
<1>5. ASSUME NEW row \in Policy, UpdateGeneral(row) PROVE OfferTypeOK'
    BY <1>5, OfferAssumption DEF UpdateGeneral, OfferTypeOK, Priced
<1>6. ASSUME NEW c \in Colour, NEW active \in BOOLEAN, NEW price \in Amount, NEW left \in Count,
             UpdateColour(c, active, price, left)
      PROVE  OfferTypeOK'
    BY <1>6, OfferAssumption DEF UpdateColour, OfferTypeOK, Priced
<1>7. QED
    BY <1>1, <1>2, <1>3, <1>4, <1>5, <1>6 DEF OfferNext

LEMMA StepFresh == Fresh /\ [OfferNext]_offerVars => Fresh'
<1> SUFFICES ASSUME Fresh, [OfferNext]_offerVars PROVE Fresh'
    OBVIOUS
<1>1. CASE brief' = <<>>
    BY <1>1 DEF Fresh
<1>2. CASE UNCHANGED <<product, general, colour, brief>>
    BY <1>2 DEF Fresh, Quote, EffectivePrice, OfferedColour
<1>3. CASE Tell
    BY <1>3 DEF Tell, Fresh, Quote, EffectivePrice, OfferedColour
<1>4. ASSUME NEW wish \in Wish, Ask(wish) PROVE brief' = <<>> \/ UNCHANGED <<product, general, colour, brief>>
    BY <1>4 DEF Ask
<1>5. ASSUME NEW cancelled \in BOOLEAN, CloseDeal(cancelled)
      PROVE  brief' = <<>> \/ UNCHANGED <<product, general, colour, brief>>
    BY <1>5 DEF CloseDeal
<1>6. ASSUME OfferNext PROVE Tell \/ brief' = <<>> \/ UNCHANGED <<product, general, colour, brief>>
    BY <1>4, <1>5, <1>6 DEF OfferNext, UpdateProduct, UpdateGeneral, UpdateColour
<1>7. QED
    BY <1>1, <1>2, <1>3, <1>6 DEF offerVars

\* For any rows and wishes every variable of Offer keeps its type, and no discount raises a price.
THEOREM OfferTyped == OfferSpec => []OfferTypeOK
<1>1. OfferInit => OfferTypeOK
    BY OfferAssumption DEF OfferInit, OfferTypeOK
<1>2. QED
    BY <1>1, StepOfferTypeOK, PTL DEF OfferSpec

-----------------------------------------------------------------------------
(* A wish that keeps to a fresh quote.                                     *)

LEMMA SumIsCharge ==
    ASSUME brief = Quote, NEW w \in Wish, ColourTold(w)
    PROVE  SumTold(w) = Charge(w)
<1>1. brief.price = EffectivePrice /\ brief.engraving = EngravingPrice
    BY DEF Quote, EngravingPrice
<1>2. ASSUME w.colour # Unset PROVE brief.boxes[w.colour].price = colour[w.colour].price
    BY <1>2 DEF Quote, ColourTold
<1>3. QED
    BY <1>1, <1>2 DEF SumTold, Charge

LEMMA TextAgrees ==
    ASSUME OfferTypeOK, brief = Quote, NEW w \in Wish
    PROVE  TextTold(w) <=> TextTaken(w)
BY OfferAssumption DEF TextTold, TextTaken, Quote, EngravingLimit

LEMMA SizeAgrees ==
    ASSUME brief = Quote, NEW w \in Wish
    PROVE  SizeTold(w) <=> SizeTaken(w)
BY DEF SizeTold, SizeTaken, Quote

\* The box that was told is to be had, and there is none to choose when none was told: the units that come back make
\* the first more, and the second false only by BoxToComeBack.
LEMMA ColourAgrees ==
    ASSUME OfferTypeOK, brief = Quote, NEW w \in Wish, ColourTold(w), ~BoxToComeBack
    PROVE  Resolved(w) = w /\ ColourTaken(w, GivenBack)
<1>1. \A c \in Colour : /\ GivenBack[c].active = colour[c].active
                        /\ GivenBack[c].left >= colour[c].left
                        /\ GivenBack[c].left # colour[c].left => deal # <<>> /\ deal.wish.colour = c /\ c # Unset
    <2>1. CASE deal # <<>> /\ deal.wish.colour # Unset
        BY <2>1, OfferAssumption DEF GivenBack, Supplied, OfferTypeOK, Wish
    <2>2. CASE ~(deal # <<>> /\ deal.wish.colour # Unset)
        BY <2>2 DEF GivenBack, OfferTypeOK
    <2>3. QED
        BY <2>1, <2>2
<1>2. DOMAIN brief.boxes = OfferedColour
    BY DEF Quote
<1>3. CASE w.colour = Unset
    <2>1. OfferedColour = {}
        BY <1>2, <1>3, OfferAssumption DEF ColourTold, OfferedColour, Wish
    <2>2. Resolved(w) = w
        BY <1>3 DEF Resolved
    <2>3. QED
        BY <1>1, <1>2, <1>3, <2>1, <2>2 DEF ColourTaken, OfferedColour, BoxToComeBack, OfferTypeOK
<1>4. CASE w.colour # Unset
    <2>1. w.colour \in OfferedColour /\ w.pieces <= colour[w.colour].left
        BY <1>2, <1>4 DEF ColourTold, Quote
    <2>2. QED
        BY <1>1, <1>4, <2>1, GivenBackType, OfferAssumption DEF ColourTaken, OfferedColour, Resolved, OfferTypeOK, Wish
<1>5. QED
    BY <1>3, <1>4

LEMMA AskHonours ==
    ASSUME OfferTypeOK, Fresh, brief # <<>>, NEW w \in Wish, Ask(w)
    PROVE  /\ TextTold(w) /\ SizeTold(w) /\ ColourTold(w) /\ ~BoxToComeBack => deal' = [wish |-> w, sum |-> SumTold(w)]
           /\ ~(TextTold(w) /\ SizeTold(w)) => deal' = <<>>
<1>1. brief = Quote
    BY DEF Fresh
<1>2. ASSUME TextTold(w), SizeTold(w), ColourTold(w), ~BoxToComeBack
      PROVE  deal' = [wish |-> w, sum |-> SumTold(w)]
    <2>1. Resolved(w) = w /\ ColourTaken(w, GivenBack)
        BY <1>1, <1>2, ColourAgrees
    <2>2. SizeTaken(w) /\ TextTaken(w)
        BY <1>1, <1>2, TextAgrees, SizeAgrees
    <2>3. deal' = [wish |-> w, sum |-> Charge(w)]
        BY <2>1, <2>2 DEF Ask
    <2>4. QED
        BY <1>1, <1>2, <2>3, SumIsCharge
<1>3. ASSUME ~(TextTold(w) /\ SizeTold(w)) PROVE deal' = <<>>
    <2>1. ~(SizeTaken(w) /\ TextTaken(w))
        BY <1>1, <1>3, TextAgrees, SizeAgrees
    <2>2. ~(SizeTaken(Resolved(w)) /\ TextTaken(Resolved(w)))
        BY <2>1 DEF Resolved, SizeTaken, TextTaken, Wish
    <2>3. QED
        BY <2>2 DEF Ask
<1>4. QED
    BY <1>2, <1>3

\* What the tools told is what create_order charges and takes, for all prices, limits, sizes and boxes.
THEOREM BriefHonoured == OfferSpec => BriefIsHonoured
<1>1. OfferInit => Fresh
    BY DEF OfferInit, Fresh
<1>2. OfferTypeOK /\ Fresh /\ [OfferNext]_offerVars =>
        [\A w \in Wish : brief # <<>> /\ Ask(w) =>
              /\ TextTold(w) /\ SizeTold(w) /\ ColourTold(w) /\ ~BoxToComeBack
                    => deal' = [wish |-> w, sum |-> SumTold(w)]
              /\ ~(TextTold(w) /\ SizeTold(w)) => deal' = <<>>]_offerVars
    BY AskHonours
<1>3. QED
    BY <1>1, <1>2, StepFresh, OfferTyped, PTL DEF OfferSpec, BriefIsHonoured

-----------------------------------------------------------------------------
(* Sums of no line and of one.                                             *)

LEMMA SumOfNone == Worth({}) = 0
<1> DEFINE Sums(iter) == iter = [s \in SUBSET {} |-> IF s = {} THEN 0
                                                     ELSE LET x == CHOOSE x \in s : TRUE IN Value[x] + iter[s \ {x}]]
<1>1. Sums([s \in SUBSET {} |-> 0])
    OBVIOUS
<1>2. Sums(CHOOSE iter : Sums(iter))
    <2> HIDE DEF Sums
    <2>1. QED
        BY <1>1
<1>3. (CHOOSE iter : Sums(iter))[{}] = 0
    BY <1>2
<1>4. QED
    BY <1>3 DEF Worth, MapThenSumSet, MapThenFoldSet

LEMMA SumOfOne == ASSUME NEW k \in Line PROVE Worth({k}) = Value[k]
<1> DEFINE Sums(iter) == iter = [s \in SUBSET {k} |-> IF s = {} THEN 0
                                                      ELSE LET x == CHOOSE x \in s : TRUE IN Value[x] + iter[s \ {x}]]
           sums == [s \in SUBSET {k} |-> IF s = {} THEN 0 ELSE Value[k]]
<1>0. Value[k] \in Nat
    BY SaleAssumption
<1>1. Sums(sums)
    BY <1>0
<1>2. Sums(CHOOSE iter : Sums(iter))
    <2> HIDE DEF Sums, sums
    <2>1. QED
        BY <1>1
<1>3. ASSUME NEW iter, Sums(iter) PROVE iter[{k}] = Value[k]
    <2>1. iter[{}] = 0
        BY <1>3
    <2>2. (CHOOSE x \in {k} : TRUE) = k /\ {k} \ {k} = {} /\ {k} # {}
        OBVIOUS
    <2>3. iter[{k}] = LET x == CHOOSE x \in {k} : TRUE IN Value[x] + iter[{k} \ {x}]
        BY <1>3, <2>2
    <2>4. QED
        BY <1>0, <2>1, <2>2, <2>3
<1>4. (CHOOSE iter : Sums(iter))[{k}] = Value[k]
    <2> HIDE DEF Sums
    <2>1. QED
        BY <1>2, <1>3
<1>5. QED
    BY <1>4 DEF Worth, MapThenSumSet, MapThenFoldSet

-----------------------------------------------------------------------------
(* Sale: the types, and that an order once created never disappears.       *)

DeskState == {Vacant} \cup Replacing \cup Addressing

Created == \A b \in Bill : bill[b].status = "none" => bill[b] = NoBill

\* What a request works on exists, and so does what a link is for.
BillThere(b) == b \in Bill /\ bill[b].status # "none"
Referred ==
    /\ \A b \in page : BillThere(b)
    /\ \A d \in Desk : desk[d].stage # "idle" => BillThere(desk[d].bill)

SaleTypes == SaleTypeOK /\ Created /\ Referred

\* A request that may still go on after somebody has written.
Doubted(w) == w.stage # "tell" /\ (w.stage \in {"map", "text"} => w.stale)

LEMMA UnreadKeeps ==
    ASSUME NEW others \in [Desk -> DeskState]
    PROVE  /\ Unread(others) \in [Desk -> DeskState]
           /\ \A d \in Desk : /\ Doubted(Unread(others)[d])
                              /\ Unread(others)[d].stage # "idle" => /\ others[d].stage # "idle"
                                                                     /\ Unread(others)[d].bill = others[d].bill
<1>1. ASSUME NEW d \in Desk
      PROVE  /\ Unread(others)[d] \in DeskState /\ Doubted(Unread(others)[d])
             /\ Unread(others)[d].stage # "idle" => /\ others[d].stage # "idle"
                                                    /\ Unread(others)[d].bill = others[d].bill
    <2>1. CASE others[d].stage = "tell"
        BY <2>1 DEF Unread, DeskState, Doubted, Vacant
    <2>2. CASE others[d].stage \in {"map", "text"}
        <3> DEFINE w == [others[d] EXCEPT !.stale = TRUE, !.total = 0, !.settled = FALSE, !.known.name = FALSE]
        <3>1. Unread(others)[d] = w
            BY <2>2 DEF Unread
        <3>2. others[d] \in Addressing
            BY <2>2 DEF DeskState, Vacant, Replacing
        <3>3. w \in Addressing
            BY <3>2 DEF Addressing, Details
        <3>4. w.stage = others[d].stage /\ w.bill = others[d].bill /\ w.stale = TRUE
            BY <3>2 DEF Addressing
        <3>5. QED
            BY <2>2, <3>1, <3>3, <3>4 DEF DeskState, Doubted
    <2>3. CASE others[d].stage \notin {"tell", "map", "text"}
        BY <2>3 DEF Unread, DeskState, Doubted
    <2>4. QED
        BY <2>1, <2>2, <2>3
<1>2. QED
    BY <1>1 DEF Unread

BillRow == [status : {"none", "pending", "due", "settled"}, lines : SUBSET Line, total : Nat]

\* What a request that is followed has read is what the rows say.
Current(w) == w.total = bill[w.bill].total /\ w.known = known /\ (w.contact <=> w.bill \in contact)

ReadTrue(w) ==
    w.stage \in {"map", "text"} /\ ~w.stale =>
        /\ Current(w)
        /\ w.pending <=> bill[w.bill].status = "pending"
        /\ w.settled <=> bill[w.bill].status = "settled"

TellTrue(w) == w.stage = "tell" => Current(w) /\ (bill[w.bill].status = "due" \/ w.settled)

Followed == \A d \in Desk : ReadTrue(desk[d]) /\ TellTrue(desk[d])

SaleInv == SaleTypes /\ Followed

LEMMA DeskTypes == SaleTypes => desk \in [Desk -> DeskState] /\ bill \in [Bill -> BillRow]
BY DEF SaleTypes, SaleTypeOK, DeskState, BillRow

\* A step that writes and is read by none of the requests that are left.
LEMMA WrittenOver ==
    ASSUME SaleTypes, NEW others \in [Desk -> DeskState], desk' = Unread(others),
           \A d \in Desk : others[d].stage # "idle" => others[d] = desk[d],
           bill' \in [Bill -> BillRow], \A b \in Bill : BillThere(b) => BillThere(b)',
           Created', known' \in Details, contact' \in SUBSET Bill, mixed' \in SUBSET Bill, page' \subseteq page
    PROVE  SaleInv'
<1>1. /\ desk' \in [Desk -> DeskState]
      /\ \A d \in Desk : /\ Doubted(desk'[d])
                         /\ desk'[d].stage # "idle" => desk[d].stage # "idle" /\ desk'[d].bill = desk[d].bill
    BY UnreadKeeps
<1>2. SaleTypeOK'
    BY <1>1 DEF SaleTypes, SaleTypeOK, DeskState, BillRow
<1>3. \A d \in Desk : desk'[d].stage # "idle" => desk'[d].bill \in Bill /\ BillThere(desk[d].bill) /\ desk'[d].bill = desk[d].bill
    BY <1>1 DEF SaleTypes, Referred, BillThere
<1>4. \A d \in Desk : desk'[d].stage # "idle" => BillThere(desk[d].bill)'
    <2>1. SUFFICES ASSUME NEW d \in Desk, desk'[d].stage # "idle" PROVE bill'[desk'[d].bill].status # "none" /\ desk'[d].bill \in Bill
        BY DEF BillThere
    <2>2. QED
        BY <1>3, <2>1 DEF BillThere
<1>5. Referred'
    BY <1>4 DEF SaleTypes, Referred, BillThere, SaleTypeOK
<1>6. Followed'
    BY <1>1 DEF Followed, ReadTrue, TellTrue, Doubted
<1>7. QED
    BY <1>2, <1>5, <1>6 DEF SaleInv, SaleTypes

\* A step of one request that writes nothing.
LEMMA OneDesk ==
    ASSUME SaleInv, NEW d \in Desk, NEW w \in DeskState, desk' = [desk EXCEPT ![d] = w],
           UNCHANGED <<bill, known, contact, page, mixed>>,
           w.stage # "idle" => BillThere(w.bill), ReadTrue(w), TellTrue(w)
    PROVE  SaleInv'
<1>1. desk' \in [Desk -> DeskState] /\ desk'[d] = w /\ \A e \in Desk \ {d} : desk'[e] = desk[e]
    BY DeskTypes DEF SaleInv
<1>2. SaleTypeOK' /\ Created'
    BY <1>1 DEF SaleInv, SaleTypes, SaleTypeOK, DeskState, Created
<1>3. Referred'
    BY <1>1 DEF SaleInv, SaleTypes, Referred, BillThere
<1>4. Followed'
    BY <1>1 DEF SaleInv, Followed, ReadTrue, TellTrue, Current
<1>5. QED
    BY <1>2, <1>3, <1>4 DEF SaleInv, SaleTypes

LEMMA InitSaleInv == SaleInit => SaleInv
BY DEF SaleInit, SaleInv, SaleTypes, SaleTypeOK, Created, Referred, Followed, ReadTrue, TellTrue, NoBill, Vacant, Details

LEMMA BillsKeep ==
    ASSUME SaleInv, \/ \E b \in Bill, l \in Line : CreateBill(b, l)
                    \/ \E b \in Bill : Settle(b) \/ Submit(b)
                    \/ \E details \in Details : Profile(details)
    PROVE  SaleInv'
<1>1. SaleTypes /\ desk \in [Desk -> DeskState] /\ bill \in [Bill -> BillRow] /\ desk' = Unread(desk)
    BY DeskTypes DEF SaleInv, CreateBill, Settle, Submit, Profile
<1>2. UNCHANGED <<contact, page, mixed>> /\ known' \in Details
    BY DEF SaleInv, SaleTypes, SaleTypeOK, CreateBill, Settle, Submit, Profile
<1>3. ASSUME NEW b \in Bill, NEW l \in Line, CreateBill(b, l)
      PROVE  bill' \in [Bill -> BillRow] /\ \A c \in Bill : bill'[c].status = "none" => bill[c].status = "none" /\ bill'[c] = bill[c]
    <2>1. Value[l] \in Nat
        BY SaleAssumption
    <2>2. [status |-> "pending", lines |-> {l}, total |-> Value[l]] \in BillRow
        BY <2>1 DEF BillRow
    <2>3. \A c \in Bill : [bill[c] EXCEPT !.status = "settled"] \in BillRow /\ [bill[c] EXCEPT !.status = "settled"].status = "settled"
        BY <1>1 DEF BillRow
    <2>4. QED
        BY <1>1, <1>3, <2>2, <2>3 DEF CreateBill
<1>4. ASSUME NEW b \in Bill, Settle(b) \/ Submit(b)
      PROVE  bill' \in [Bill -> BillRow] /\ \A c \in Bill : bill'[c].status = "none" => bill[c].status = "none" /\ bill'[c] = bill[c]
    BY <1>1, <1>4 DEF Settle, Submit, BillRow
<1>5. ASSUME NEW details \in Details, Profile(details)
      PROVE  bill' \in [Bill -> BillRow] /\ \A c \in Bill : bill'[c].status = "none" => bill[c].status = "none" /\ bill'[c] = bill[c]
    BY <1>1, <1>5 DEF Profile
<1>6. bill' \in [Bill -> BillRow] /\ \A c \in Bill : bill'[c].status = "none" => bill[c].status = "none" /\ bill'[c] = bill[c]
    BY <1>3, <1>4, <1>5
<1>7. Created' /\ \A c \in Bill : BillThere(c) => BillThere(c)'
    BY <1>1, <1>6 DEF SaleTypes, Created, BillThere
<1>8. contact' \in SUBSET Bill /\ mixed' \in SUBSET Bill
    BY <1>2 DEF SaleInv, SaleTypes, SaleTypeOK
<1>9. QED
    BY <1>1, <1>2, <1>6, <1>7, <1>8, WrittenOver

LEMMA ReplaceKeeps == ASSUME SaleInv, NEW d \in Desk, CommitReplace(d) PROVE SaleInv'
<1> DEFINE w == desk[d]
           others == [desk EXCEPT ![d] = Vacant]
           row == [bill[w.bill] EXCEPT !.lines = (@ \ w.old) \cup {w.line}, !.total = Value[w.line]]
<1>1. SaleTypes /\ desk \in [Desk -> DeskState] /\ bill \in [Bill -> BillRow]
    BY DeskTypes DEF SaleInv
<1>2. w \in Replacing
    BY <1>1 DEF CommitReplace, DeskState, Vacant, Addressing
<1>3. bill' = [bill EXCEPT ![w.bill] = row] /\ desk' = Unread(others)
    BY DEF CommitReplace
<1>4. others \in [Desk -> DeskState] /\ \A e \in Desk : others[e].stage # "idle" => others[e] = desk[e]
    BY <1>1 DEF DeskState, Vacant
<1>5. row \in BillRow /\ row.status = bill[w.bill].status
    BY <1>1, <1>2, SaleAssumption DEF BillRow, Replacing
<1>6. bill[w.bill].status # "none" /\ w.bill \in Bill
    BY <1>1, <1>2 DEF SaleTypes, Referred, BillThere, Replacing
<1> HIDE DEF row, others
<1>7. bill' \in [Bill -> BillRow] /\ \A c \in Bill : bill'[c].status = bill[c].status /\ (bill'[c].status = "none" => bill'[c] = bill[c])
    BY <1>1, <1>3, <1>5, <1>6
<1>8. Created' /\ \A c \in Bill : BillThere(c) => BillThere(c)'
    BY <1>1, <1>7 DEF SaleTypes, Created, BillThere
<1>9. known' \in Details /\ contact' \in SUBSET Bill /\ mixed' \in SUBSET Bill /\ page' = page
    BY <1>6 DEF SaleInv, SaleTypes, SaleTypeOK, CommitReplace
<1>10. QED
    BY <1>1, <1>3, <1>4, <1>7, <1>8, <1>9, WrittenOver

\* The commit of an address: the request itself goes on to tell the customer, or ends.
LEMMA AddressKeeps ==
    ASSUME SaleInv, NEW d \in Desk, desk[d].stage \in {"map", "text"}, Addressed(desk[d]),
           NEW total \in Nat, NEW contacted \in BOOLEAN, desk' = Telling(d, total, contacted, desk[d].stale),
           desk[d].stage = "map" => total = desk[d].total, desk[d].stage = "text" => total = bill[desk[d].bill].total,
           contact' \in SUBSET Bill, page' \subseteq page, mixed' = mixed,
           ~desk[d].stale => (contacted <=> desk[d].bill \in contact')
    PROVE  SaleInv'
<1> DEFINE w == desk[d]
           others == [desk EXCEPT ![d] = Vacant]
           told == [w EXCEPT !.stage = "tell", !.total = total, !.contact = contacted, !.known.phone = @ \/ w.phone]
           due == [bill[w.bill] EXCEPT !.status = "due"]
<1>1. SaleTypes /\ desk \in [Desk -> DeskState] /\ bill \in [Bill -> BillRow] /\ Followed /\ known \in Details
    BY DeskTypes DEF SaleInv, SaleTypes, SaleTypeOK
<1>2. w \in Addressing /\ w.bill \in Bill /\ w.known \in Details /\ w.phone \in BOOLEAN
    BY <1>1 DEF DeskState, Vacant, Replacing, Addressing
<1>3. BillThere(w.bill) /\ ReadTrue(w)
    BY <1>1 DEF SaleTypes, Referred, Followed
<1>4. others \in [Desk -> DeskState] /\ \A e \in Desk : others[e].stage # "idle" => others[e] = desk[e]
    BY <1>1 DEF DeskState, Vacant
<1>5. /\ Unread(others) \in [Desk -> DeskState]
      /\ \A e \in Desk : /\ Doubted(Unread(others)[e])
                         /\ Unread(others)[e].stage # "idle" => desk[e].stage # "idle" /\ Unread(others)[e].bill = desk[e].bill
    BY <1>4, UnreadKeeps
<1>6. told \in Addressing /\ told.stage = "tell" /\ told.bill = w.bill /\ told.total = total /\ told.settled = w.settled
        /\ told.contact = contacted /\ told.known = [w.known EXCEPT !.phone = @ \/ w.phone]
    BY <1>2 DEF Addressing, Details
<1>7. desk' = [Unread(others) EXCEPT ![d] = IF w.stale THEN Vacant ELSE told]
    BY DEF Telling
<1>8. due \in BillRow /\ due.status = "due" /\ due.total = bill[w.bill].total
    BY <1>1, <1>2 DEF BillRow
<1>9. bill' = IF w.pending THEN [bill EXCEPT ![w.bill] = due] ELSE bill
    BY DEF Addressed
<1> HIDE DEF told, others, due
<1>10. /\ bill' \in [Bill -> BillRow] /\ bill'[w.bill].total = bill[w.bill].total
       /\ \A c \in Bill : bill'[c].status = "none" => bill[c].status = "none" /\ bill'[c] = bill[c]
       /\ bill'[w.bill].status = IF w.pending THEN "due" ELSE bill[w.bill].status
    BY <1>1, <1>2, <1>8, <1>9
<1>11. known' \in Details
    BY <1>1 DEF Addressed, Details
<1>12. desk' \in [Desk -> DeskState] /\ desk'[d] = (IF w.stale THEN Vacant ELSE told)
          /\ \A e \in Desk \ {d} : desk'[e] = Unread(others)[e]
    BY <1>5, <1>6, <1>7 DEF DeskState
<1>13. SaleTypeOK'
    BY <1>1, <1>10, <1>11, <1>12 DEF SaleTypes, SaleTypeOK, DeskState, BillRow
<1>14. Created' /\ \A c \in Bill : BillThere(c) => BillThere(c)'
    BY <1>1, <1>10 DEF SaleTypes, Created, BillThere
<1>15. Referred'
    <2>1. \A c \in page' : BillThere(c)'
        BY <1>1, <1>14 DEF SaleTypes, Referred, BillThere
    <2>2. ASSUME NEW e \in Desk, desk'[e].stage # "idle" PROVE desk'[e].bill \in Bill /\ bill'[desk'[e].bill].status # "none"
        <3>1. CASE e = d
            BY <1>3, <1>6, <1>10, <1>12, <2>2, <3>1 DEF Vacant, BillThere
        <3>2. CASE e # d
            BY <1>1, <1>5, <1>10, <1>12, <2>2, <3>2 DEF SaleTypes, Referred, BillThere
        <3>3. QED
            BY <3>1, <3>2
    <2>3. QED
        BY <2>1, <2>2 DEF Referred, BillThere
<1>16. ASSUME ~w.stale PROVE told.total = bill'[told.bill].total /\ told.known = known' /\ (told.contact <=> told.bill \in contact')
                             /\ (bill'[told.bill].status = "due" \/ told.settled)
    <2>1. /\ w.total = bill[w.bill].total /\ w.known = known
          /\ w.pending <=> bill[w.bill].status = "pending"
          /\ w.settled <=> bill[w.bill].status = "settled"
        BY <1>3, <1>16 DEF ReadTrue, Current
    <2>2. total = bill[w.bill].total
        BY <2>1
    <2>3. known' = [known EXCEPT !.phone = @ \/ w.phone]
        <3>1. known' = IF w.phone /\ ~w.known.phone THEN [known EXCEPT !.phone = TRUE] ELSE known
            BY DEF Addressed
        <3>2. known.phone \in BOOLEAN /\ w.phone \in BOOLEAN
            BY <1>1, <1>2 DEF Details
        <3>3. known = [known EXCEPT !.phone = known.phone]
            BY <1>1 DEF Details
        <3>4. QED
            BY <2>1, <3>1, <3>2, <3>3
    <2>4. bill[w.bill].status \in {"pending", "due", "settled"}
        BY <1>1, <1>2, <1>3 DEF BillThere, BillRow
    <2>5. QED
        BY <1>6, <1>10, <1>16, <2>1, <2>2, <2>3, <2>4
<1>17. Followed'
    <2>1. ASSUME NEW e \in Desk \ {d} PROVE (ReadTrue(desk[e]) /\ TellTrue(desk[e]))'
        BY <1>5, <1>12, <2>1 DEF ReadTrue, TellTrue, Doubted
    <2>2. (ReadTrue(desk[d]) /\ TellTrue(desk[d]))'
        BY <1>6, <1>12, <1>16 DEF ReadTrue, TellTrue, Current, Vacant
    <2>3. QED
        BY <2>1, <2>2 DEF Followed
<1>18. QED
    BY <1>13, <1>14, <1>15, <1>17 DEF SaleInv, SaleTypes

LEMMA CommitsKeep == ASSUME SaleInv, NEW d \in Desk, CommitMap(d) \/ CommitTyped(d) PROVE SaleInv'
<1> DEFINE w == desk[d]
<1>1. desk \in [Desk -> DeskState] /\ bill \in [Bill -> BillRow] /\ contact \subseteq Bill /\ Followed
    BY DeskTypes DEF SaleInv, SaleTypes, SaleTypeOK
<1>2. w.stage \in {"map", "text"} /\ w \in Addressing
    BY <1>1 DEF CommitMap, CommitTyped, DeskState, Vacant, Replacing
<1>3. w.total \in Nat /\ w.phone \in BOOLEAN /\ w.contact \in BOOLEAN /\ w.bill \in Bill /\ bill[w.bill].total \in Nat
    BY <1>1, <1>2 DEF Addressing, BillRow
<1>4. ~w.stale => (w.contact <=> w.bill \in contact)
    BY <1>1, <1>2 DEF Followed, ReadTrue, Current
<1>5. CASE CommitMap(d)
    <2>1. /\ contact' \in SUBSET Bill /\ (w.phone = w.contact => contact' = contact)
          /\ w.phone # w.contact => (w.phone <=> w.bill \in contact')
        BY <1>1, <1>3, <1>5 DEF CommitMap
    <2>2. ~w.stale => (w.phone <=> w.bill \in contact')
        BY <1>4, <2>1
    <2>3. /\ Addressed(w) /\ desk' = Telling(d, w.total, w.phone, w.stale) /\ page' \subseteq page /\ mixed' = mixed
          /\ w.stage = "map"
        BY <1>5 DEF CommitMap
    <2>4. QED
        BY <1>2, <1>3, <2>1, <2>2, <2>3, AddressKeeps
<1>6. CASE CommitTyped(d)
    <2>1. contact' \in SUBSET Bill /\ (~w.stale => ((w.contact \/ w.phone) <=> w.bill \in contact'))
        BY <1>1, <1>3, <1>4, <1>6 DEF CommitTyped
    <2>2. /\ Addressed(w) /\ desk' = Telling(d, bill[w.bill].total, w.contact \/ w.phone, w.stale)
          /\ page' \subseteq page /\ mixed' = mixed /\ w.stage = "text"
        BY <1>6 DEF CommitTyped
    <2>3. (w.contact \/ w.phone) \in BOOLEAN
        OBVIOUS
    <2>4. QED
        BY <1>2, <1>3, <2>1, <2>2, <2>3, AddressKeeps
<1>7. QED
    BY <1>5, <1>6

LEMMA StepSaleInv == SaleInv /\ [SaleNext]_saleVars => SaleInv'
<1> SUFFICES ASSUME SaleInv, [SaleNext]_saleVars PROVE SaleInv'
    OBVIOUS
<1>1. desk \in [Desk -> DeskState] /\ bill \in [Bill -> BillRow] /\ known \in Details /\ SaleTypes
    BY DeskTypes DEF SaleInv, SaleTypes, SaleTypeOK
<1>2. ASSUME NEW b \in Bill, SendLink(b) PROVE SaleInv'
    <2>1. BillThere(b)
        BY <1>1, <1>2 DEF SendLink, SaleTypes, Created, BillThere
    <2>2. QED
        BY <1>2, <2>1 DEF SendLink, SaleInv, SaleTypes, SaleTypeOK, Created, Referred, BillThere, Followed, ReadTrue, TellTrue, Current
<1>3. ASSUME NEW b \in Bill, NEW l \in Line, NEW d \in Desk, OpenReplace(d, b, l) PROVE SaleInv'
    <2> DEFINE w == [stage |-> "replace", bill |-> b, old |-> bill[b].lines, line |-> l]
    <2>1. w \in DeskState /\ BillThere(b)
        BY <1>1, <1>3 DEF DeskState, Replacing, BillRow, OpenReplace, Editable, BillThere
    <2>2. ReadTrue(w) /\ TellTrue(w)
        BY DEF ReadTrue, TellTrue
    <2>3. QED
        BY <1>3, <2>1, <2>2, OneDesk DEF OpenReplace
<1>4. ASSUME NEW d \in Desk, NEW b \in Bill, NEW phone \in BOOLEAN, OpenMap(d, b, phone) \/ OpenTyped(d, b, phone)
      PROVE  SaleInv'
    <2>1. PICK stage \in {"map", "text"} : desk' = [desk EXCEPT ![d] = Reads(stage, b, phone)]
        BY <1>4 DEF OpenMap, OpenTyped
    <2>2. BillThere(b) /\ UNCHANGED <<bill, known, contact, page, mixed>>
        BY <1>1, <1>4 DEF OpenMap, OpenTyped, SaleTypes, Referred, Created, BillThere
    <2>3. Reads(stage, b, phone) \in DeskState
        BY <1>1 DEF Reads, DeskState, Addressing, BillRow
    <2>4. ReadTrue(Reads(stage, b, phone)) /\ TellTrue(Reads(stage, b, phone)) /\ Reads(stage, b, phone).bill = b
        BY DEF ReadTrue, TellTrue, Current, Reads
    <2>5. QED
        BY <2>1, <2>2, <2>3, <2>4, OneDesk
<1>5. ASSUME NEW d \in Desk, FollowUp(d) \/ Leaves(d) PROVE SaleInv'
    <2>1. Vacant \in DeskState /\ ReadTrue(Vacant) /\ TellTrue(Vacant) /\ Vacant.stage = "idle"
        BY DEF DeskState, ReadTrue, TellTrue, Vacant
    <2>2. QED
        BY <1>5, <2>1, OneDesk DEF FollowUp, Leaves
<1>6. CASE UNCHANGED saleVars
    BY <1>6 DEF saleVars, SaleInv, SaleTypes, SaleTypeOK, Created, Referred, BillThere, Followed, ReadTrue, TellTrue, Current
<1>7. QED
    BY <1>2, <1>3, <1>4, <1>5, <1>6, BillsKeep, ReplaceKeeps, CommitsKeep DEF SaleNext

\* For any orders, lines and requests the bill keeps its types.
THEOREM SaleTyped == SaleSpec => []SaleTypeOK
<1>1. SaleInv => SaleTypeOK
    BY DEF SaleInv, SaleTypes
<1>2. QED
    BY <1>1, InitSaleInv, StepSaleInv, PTL DEF SaleSpec

\* After an address the customer is asked for what the order comes to exactly when the details are known, whatever else
\* was going on when the request read the order (_send_payment_followup, confirm_location, set_text_address).
THEOREM AskedForWhatIsDue == SaleSpec => []AsksForWhatIsDue
<1>1. SaleInv => AsksForWhatIsDue
    <2> SUFFICES ASSUME SaleInv, NEW d \in Desk, desk[d].stage = "tell", NEW m \in Messages(d)
                 PROVE  /\ m.kind = "pay" <=> known.name /\ (known.phone \/ desk[d].bill \in contact)
                        /\ m.kind = "pay" => m.total = bill[desk[d].bill].total /\ (bill[desk[d].bill].status = "due" \/ desk[d].settled)
        BY DEF AsksForWhatIsDue
    <2>1. Current(desk[d]) /\ (bill[desk[d].bill].status = "due" \/ desk[d].settled)
        BY DEF SaleInv, Followed, TellTrue
    <2>2. m = FollowUpText(desk[d], known)
        BY <2>1 DEF Messages, Current
    <2>3. QED
        BY <2>1, <2>2 DEF FollowUpText, Complete, Current
<1>2. QED
    BY <1>1, InitSaleInv, StepSaleInv, PTL DEF SaleSpec

\* A step leaves an order's lines and total alone, or makes it an order of one line, or two replacements met.
LEMMA LinesOf ==
    ASSUME SaleInv, SaleNext, NEW b \in Bill
    PROVE  \/ b \in mixed'
           \/ b \notin mixed /\ bill'[b].total = bill[b].total /\ bill'[b].lines = bill[b].lines
           \/ \E l \in Line : bill'[b].lines = {l} /\ bill'[b].total = Value[l]
<1> DEFINE Kept == bill'[b].total = bill[b].total /\ bill'[b].lines = bill[b].lines
<1>0. bill \in [Bill -> BillRow] /\ desk \in [Desk -> DeskState]
    BY DeskTypes DEF SaleInv
<1>1. ASSUME NEW c \in Bill, NEW l \in Line, CreateBill(c, l)
      PROVE  mixed' = mixed /\ (Kept \/ (bill'[b].lines = {l} /\ bill'[b].total = Value[l]))
    BY <1>0, <1>1 DEF CreateBill, BillRow
<1>2. ASSUME NEW c \in Bill, Settle(c) \/ Submit(c) \/ SendLink(c) PROVE mixed' = mixed /\ Kept
    BY <1>0, <1>2 DEF Settle, Submit, SendLink, BillRow
<1>3. ASSUME NEW d \in Desk, CommitMap(d) \/ CommitTyped(d) PROVE mixed' = mixed /\ Kept
    BY <1>0, <1>3 DEF CommitMap, CommitTyped, Addressed, BillRow
<1>4. ASSUME NEW d \in Desk, FollowUp(d) \/ Leaves(d) PROVE mixed' = mixed /\ Kept
    BY <1>4 DEF FollowUp, Leaves
<1>5. ASSUME NEW d \in Desk, NEW c \in Bill, NEW l \in Line, OpenReplace(d, c, l) PROVE mixed' = mixed /\ Kept
    BY <1>5 DEF OpenReplace
<1>6. ASSUME NEW d \in Desk, NEW c \in Bill, NEW phone \in BOOLEAN, OpenMap(d, c, phone) \/ OpenTyped(d, c, phone)
      PROVE  mixed' = mixed /\ Kept
    BY <1>6 DEF OpenMap, OpenTyped
<1>7. ASSUME NEW details \in Details, Profile(details) PROVE mixed' = mixed /\ Kept
    BY <1>7 DEF Profile
<1>8. ASSUME NEW d \in Desk, CommitReplace(d)
      PROVE  \/ b \in mixed'
             \/ b \notin mixed /\ Kept
             \/ \E l \in Line : bill'[b].lines = {l} /\ bill'[b].total = Value[l]
    <2> DEFINE w == desk[d]
    <2>1. w \in Replacing
        BY <1>0, <1>8 DEF CommitReplace, DeskState, Vacant, Addressing
    <2>2. CASE b = w.bill
        BY <1>0, <1>8, <2>1, <2>2 DEF CommitReplace, Replacing, BillRow
    <2>3. CASE b # w.bill
        BY <1>0, <1>8, <2>3 DEF CommitReplace
    <2>4. QED
        BY <2>2, <2>3
<1>9. QED
    BY <1>1, <1>2, <1>3, <1>4, <1>5, <1>6, <1>7, <1>8 DEF SaleNext

\* The total of an order is the sum of its lines, through any number of replacements, unless two went on at once.
THEOREM TotalsAgree == SaleSpec => []TotalIsLines
<1>1. SaleInit => TotalIsLines
    <2> SUFFICES ASSUME SaleInit, NEW b \in Bill PROVE bill[b].total = Worth(bill[b].lines)
        BY DEF TotalIsLines
    <2>1. bill[b].lines = {} /\ bill[b].total = 0
        BY DEF SaleInit, NoBill
    <2>2. QED
        BY <2>1, SumOfNone
<1>2. ASSUME SaleInv, TotalIsLines, SaleNext, NEW b \in Bill PROVE b \in mixed' \/ bill'[b].total = Worth(bill'[b].lines)
    <2>1. b \in mixed \/ bill[b].total = Worth(bill[b].lines)
        BY <1>2 DEF TotalIsLines
    <2>2. ASSUME NEW l \in Line, bill'[b].lines = {l}, bill'[b].total = Value[l] PROVE bill'[b].total = Worth(bill'[b].lines)
        BY <2>2, SumOfOne
    <2>3. QED
        BY <1>2, <2>1, <2>2, LinesOf
<1>3. SaleInv /\ TotalIsLines /\ [SaleNext]_saleVars => TotalIsLines'
    <2>1. CASE SaleNext
        BY <1>2, <2>1 DEF TotalIsLines
    <2>2. CASE UNCHANGED saleVars
        BY <2>2 DEF saleVars, TotalIsLines
    <2>3. QED
        BY <2>1, <2>2
<1>4. QED
    BY <1>1, <1>3, InitSaleInv, StepSaleInv, PTL DEF SaleSpec
=============================================================================
