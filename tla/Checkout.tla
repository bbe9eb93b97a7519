------------------------------ MODULE Checkout ------------------------------
(***************************************************************************)
(* The address of one order: links with one-time tokens, the map page that *)
(* confirms a point, and addresses given as text.                          *)
(*                                                                         *)
(* A request reads the token and the delivery row in one step and commits  *)
(* in another.  SQLAlchemy writes the columns that differ from what the    *)
(* session has read, so that two requests at once can each leave a part of *)
(* the other's address.  A point is told apart by what the code makes of   *)
(* it: the city or not, and the nearest branch.  What a confirmation does  *)
(* to the order is AddressSet of Orders.                                   *)
(***************************************************************************)
EXTENDS Naturals, FiniteSets

CONSTANTS
    Link,         \* checkout tokens of the order
    Visit,        \* the slots of requests that write an address at a time: 1 .. n
    Point,        \* points on the map
    City,         \* the points that is_in_tashkent accepts
    Branch,       \* active BTS branches
    Nearest,      \* Nearest[p]: the first of branches_by_distance
    NoValue       \* NULL

ASSUME CheckoutAssumption ==
    /\ City \subseteq Point /\ NoValue \notin Point \cup Branch
    /\ Nearest \in [Point -> Branch \cup {NoValue}]

VARIABLES
    link,        \* none, issued, used or expired
    parcel,      \* the delivery row, or <<>>: status and the columns of the address
    visit,       \* the requests: the link of each, the columns it writes
    twice,       \* history: links that have confirmed again
    raced        \* history: links that two requests had open at a time

checkoutVars == <<link, parcel, visit, twice, raced>>

\* The row as create_checkout_link and the text address insert it.
NewParcel == [status |-> "awaiting_address", type |-> NoValue, branch |-> NoValue, point |-> NoValue,
              text |-> NoValue]

FreeVisit == [stage |-> "idle", link |-> NoValue, writes |-> <<>>, answer |-> <<>>, stale |-> FALSE]

AddressField == {"type", "branch", "point", "text"}

\* Every variable keeps its type, and a branch of a parcel is one that can be chosen.
CheckoutTypeOK ==
    /\ link \in [Link -> {"none", "issued", "used", "expired"}]
    /\ parcel # <<>> =>
          /\ parcel.status \in {"awaiting_address", "ready", "dispatched", "delivered"}
          /\ parcel.type \in {NoValue, "Toshkent", "BTS"} /\ parcel.branch \in Branch \cup {NoValue}
          /\ parcel.point \in Point \cup {NoValue} /\ parcel.text \in {NoValue, "given"}
    /\ \A v \in Visit : visit[v].stage \in {"idle", "confirm", "text", "insert"}
    /\ twice \subseteq Link /\ raced \subseteq Link

-----------------------------------------------------------------------------

\* The row that a request finds, or makes.
Found == IF parcel = <<>> THEN NewParcel ELSE parcel

CreateLink(l) ==
    /\ link[l] = "none"
    /\ link' = [link EXCEPT ![l] = "issued"]
    /\ parcel' = Found
    /\ UNCHANGED <<visit, twice, raced>>

Expire(l) ==
    /\ link[l] = "issued"
    /\ link' = [link EXCEPT ![l] = "expired"]
    /\ UNCHANGED <<parcel, visit, twice, raced>>

TypeOfPoint(p) == IF p \in City THEN "Toshkent" ELSE "BTS"

\* _candidate_branches narrows the list to a district or a region; its first is the nearest of all.
BranchOf(p, chosen) == IF chosen = NoValue /\ p \notin City THEN Nearest[p] ELSE chosen

\* confirm_location sets every column; text, phone, landmark and apartment, which a form may leave out, are one here.
Confirmed(p, chosen) ==
    [status |-> "ready", type |-> TypeOfPoint(p), branch |-> BranchOf(p, chosen), point |-> p, text |-> NoValue]

\* set_text_address: _zone_from_text guesses the type; point and branch stay as they are.
Texted(type) == [status |-> "ready", type |-> type, text |-> "given"]

WrittenIfGiven(values, read) == {f \in DOMAIN values : values[f] \notin {read[f], NoValue}}

\* The columns that the commit writes.
Written(values, read) == {f \in DOMAIN values : values[f] # read[f]}

Changes(values, read) == [f \in Written(values, read) |-> values[f]]

FirstFree(v) == visit[v].stage = "idle" /\ \A u \in 1 .. v - 1 : visit[u].stage # "idle"

OpenConfirmAnyToken(v, l, p, chosen) ==
    /\ FirstFree(v)
    /\ link[l] \in {"issued", "used"}
    /\ visit' = [visit EXCEPT ![v] = [stage |-> "confirm", link |-> l, stale |-> FALSE,
                                      writes |-> Changes(Confirmed(p, chosen), parcel),
                                      answer |-> Confirmed(p, chosen)]]
    /\ raced' = IF \E u \in Visit : visit[u].link = l THEN raced \cup {l} ELSE raced
    /\ UNCHANGED <<link, parcel, twice>>

\* _validate_token and the reads of confirm_location.
OpenConfirm(v, l, p, chosen) ==
    /\ FirstFree(v)
    /\ link[l] = "issued"
    /\ visit' = [visit EXCEPT ![v] = [stage |-> "confirm", link |-> l, stale |-> FALSE,
                                      writes |-> Changes(Confirmed(p, chosen), parcel),
                                      answer |-> Confirmed(p, chosen)]]
    /\ raced' = IF \E u \in Visit : visit[u].link = l THEN raced \cup {l} ELSE raced
    /\ UNCHANGED <<link, parcel, twice>>

\* set_text_address makes the row when there is none: no link need have been asked for.
OpenText(v, type) ==
    /\ FirstFree(v)
    /\ visit' = [visit EXCEPT ![v] = [FreeVisit EXCEPT !.stage = IF parcel = <<>> THEN "insert" ELSE "text",
                                                     !.writes = Changes(Texted(type), Found)]]
    /\ UNCHANGED <<link, parcel, twice, raced>>

-----------------------------------------------------------------------------

Merged(v) == [f \in DOMAIN Found |-> IF f \in DOMAIN visit[v].writes THEN visit[v].writes[f] ELSE Found[f]]

\* The requests that are open have not read what v writes.
AllStale(v, done) == [u \in Visit |-> IF u = v \/ visit[u].stage = "idle" THEN done[u]
                                      ELSE [done[u] EXCEPT !.stale = TRUE]]

CommitConfirm(v) ==
    /\ visit[v].stage = "confirm"
    /\ parcel' = Merged(v)
    /\ link' = [link EXCEPT ![visit[v].link] = "used"]
    /\ twice' = IF link[visit[v].link] = "used" THEN twice \cup {visit[v].link} ELSE twice
    /\ visit' = AllStale(v, [visit EXCEPT ![v] = FreeVisit])
    /\ UNCHANGED raced

\* A row that was not there when the request looked must not be there now: order_id is a key.
CommitText(v) ==
    /\ visit[v].stage = "text" \/ (visit[v].stage = "insert" /\ parcel = <<>>)
    /\ parcel' = Merged(v)
    /\ visit' = AllStale(v, [visit EXCEPT ![v] = FreeVisit])
    /\ UNCHANGED <<link, twice, raced>>

\* The process dies before the commit, or the insert meets another request's row.
Leave(v) ==
    /\ visit[v].stage # "idle"
    /\ visit' = [visit EXCEPT ![v] = FreeVisit]
    /\ UNCHANGED <<link, parcel, twice, raced>>

\* The endpoint takes any status.  Bound: CheckoutNext offers one.
UpdateStatus(s) ==
    /\ parcel # <<>>
    /\ parcel' = [parcel EXCEPT !.status = s]
    /\ UNCHANGED <<link, visit, twice, raced>>

-----------------------------------------------------------------------------

CheckoutInit ==
    /\ link = [l \in Link |-> "none"]
    /\ parcel = <<>>
    /\ visit = [v \in Visit |-> FreeVisit]
    /\ twice = {} /\ raced = {}

CheckoutNext ==
    \/ \E l \in Link : CreateLink(l) \/ Expire(l)
    \/ \E v \in Visit :
          \/ \E l \in Link, p \in Point, chosen \in Branch \cup {NoValue} : OpenConfirm(v, l, p, chosen)
          \/ \E type \in {"Toshkent", "BTS"} : OpenText(v, type)
          \/ CommitConfirm(v) \/ CommitText(v) \/ Leave(v)
    \/ UpdateStatus("delivered")

CheckoutSpec == CheckoutInit /\ [][CheckoutNext]_checkoutVars

-----------------------------------------------------------------------------

\* What the map page is answered with is what the courier reads, column by column, whatever texts, older pages and
\* status changes went before: unless another request wrote the address after this one had read it.
ParcelIsAsTold ==
    [][\A v \in Visit :
         visit[v].stage = "confirm" /\ link'[visit[v].link] = "used" /\ visit'[v].stage = "idle" /\ ~visit[v].stale
         => \A f \in AddressField : parcel'[f] = visit[v].answer[f]]_checkoutVars

\* "one-time / replay himoya": a link confirms once, though links expire, sit side by side and requests die; twice
\* only when two requests had it open at a time.
LinkSpentOnce == twice \subseteq raced
=============================================================================
