------------------------------- MODULE Cards --------------------------------
(***************************************************************************)
(* The cards that customers pay to: PaymentCardService.  A request that    *)
(* makes a card the primary one reads which cards are primary, clears them *)
(* and commits; the columns it did not change stay as others leave them.   *)
(***************************************************************************)
EXTENDS Naturals, FiniteSets

CONSTANTS
    Card,
    Clerk       \* the requests that change a card at a time

VARIABLES
    card,       \* the rows: [primary, active], or <<>>
    clerk,      \* what each request has read and is going to write
    torn        \* history: a request chose a primary card and another wrote a card meanwhile, and none cleanly after

cardVars == <<card, clerk, torn>>

Rows == {k \in Card : card[k] # <<>>}
Primary == {k \in Rows : card[k].primary}
AtRest == [stage |-> "rest"]

\* Every variable keeps its type.
CardsTypeOK ==
    /\ \A k \in Rows : card[k] \in [primary : BOOLEAN, active : BOOLEAN]
    /\ \A c \in Clerk : clerk[c].stage \in {"rest", "write"}
    /\ torn \in BOOLEAN

-----------------------------------------------------------------------------

\* A new card takes a place that no open request knows as another card.
Place(k) == card[k] = <<>> => \A c \in Clerk : clerk[c].stage = "write" => k \notin {clerk[c].card} \cup clerk[c].clears

Was(k) == card[k] # <<>> /\ card[k].primary

OpenKeepingOthers(c, k, primary) ==
    /\ clerk[c].stage = "rest" /\ Place(k)
    /\ clerk' = [clerk EXCEPT ![c] = [stage |-> "write", card |-> k, new |-> card[k] = <<>>, changes |-> primary # Was(k),
                                      primary |-> primary, clears |-> {}, stale |-> FALSE]]
    /\ UNCHANGED <<card, torn>>

\* create and update up to the commit: clear_primary when the request asks for a primary card.
Open(c, k, primary) ==
    /\ clerk[c].stage = "rest" /\ Place(k)
    /\ clerk' = [clerk EXCEPT ![c] = [stage |-> "write", card |-> k, new |-> card[k] = <<>>, changes |-> primary # Was(k),
                                      primary |-> primary, clears |-> IF primary THEN Primary \ {k} ELSE {},
                                      stale |-> FALSE]]
    /\ UNCHANGED <<card, torn>>

\* The rows that request c updates.
Updates(c) == clerk[c].clears \cup {k \in {clerk[c].card} : ~clerk[c].new /\ clerk[c].changes}

\* The other requests that are open have not read what c writes.
Seen(c) == [d \in Clerk |-> IF d = c THEN AtRest
                            ELSE IF clerk[d].stage = "write" THEN [clerk[d] EXCEPT !.stale = TRUE] ELSE clerk[d]]

Commit(c) ==
    LET r == clerk[c] IN
    /\ r.stage = "write" /\ Updates(c) \subseteq Rows
    /\ card' = [k \in Card |->
                  CASE k = r.card /\ r.new -> [primary |-> r.primary, active |-> TRUE]
                    [] k \in Updates(c) -> [card[k] EXCEPT !.primary = (k = r.card /\ r.primary)]
                    [] OTHER -> card[k]]
    /\ torn' = IF r.primary THEN r.stale ELSE torn
    /\ clerk' = Seen(c)

\* A row that is deleted meanwhile makes the update fail, as a whole.
Fail(c) ==
    /\ clerk[c].stage = "write" /\ ~(Updates(c) \subseteq Rows)
    /\ clerk' = [clerk EXCEPT ![c] = AtRest]
    /\ UNCHANGED <<card, torn>>

SetActive(k, active) ==
    /\ k \in Rows
    /\ card' = [card EXCEPT ![k].active = active]
    /\ UNCHANGED <<clerk, torn>>

DeleteCard(k) ==
    /\ k \in Rows
    /\ card' = [card EXCEPT ![k] = <<>>]
    /\ UNCHANGED <<clerk, torn>>

-----------------------------------------------------------------------------

\* get_default_card: a primary card before any other, of those that are active.
Default == LET active == {k \in Rows : card[k].active} IN
           IF active \cap Primary # {} THEN active \cap Primary ELSE active

CardsInit ==
    /\ card = [k \in Card |-> <<>>]
    /\ clerk = [c \in Clerk |-> AtRest]
    /\ torn = FALSE

CardsNext ==
    \/ \E c \in Clerk : Commit(c) \/ Fail(c) \/ \E k \in Card, primary \in BOOLEAN : Open(c, k, primary)
    \/ \E k \in Card : DeleteCard(k) \/ \E active \in BOOLEAN : SetActive(k, active)

CardsSpec == CardsInit /\ [][CardsNext]_cardVars

-----------------------------------------------------------------------------

\* "bitta primary bo'lishi uchun": whatever cards are added, switched off, deleted and chosen, customers are sent to one
\* primary card, and the next choice that nobody interferes with heals what two choices at once have left.
OnePrimaryCard == ~torn => Cardinality(Primary) <= 1 /\ (Primary \cap Default # {} => Default = Primary)
=============================================================================
