-------------------------- MODULE FrontOfficeProofs --------------------------
(***************************************************************************)
(* What the small components customers meet keep, for any number of        *)
(* cards, stories, links, messages and requests at a time.                 *)
(*                                                                         *)
(* Cards.  What a request has read stays true until another one commits,   *)
(* which marks it stale, but for the cards that are deleted meanwhile: it  *)
(* clears every primary card there is, but its own.                        *)
(*                                                                         *)
(* Stories.  RightJewel is not inductive: what a reply is answered with    *)
(* depends on the webhook ids that rows have learned.  Learned adds that a *)
(* row knows the id of another story only if that story was asked about in *)
(* doubt.                                                                  *)
(*                                                                         *)
(* Checkout.  A request that is not stale finds every column either as it  *)
(* answers, or among those it is going to write.  Two requests that have   *)
(* one link open are noted in raced, so that a link which is used while a  *)
(* request has it open is there too.                                       *)
(*                                                                         *)
(* Outbox.  While a sender is calling, every call so far whose answer is   *)
(* looked at has arrived.  The one whose answer is not looked at is the    *)
(* last of its message, so that nothing is sent after a gap.               *)
(***************************************************************************)
EXTENDS MCFrontOffice, InboxProofs, CatalogProofs

\* Cards.

AllDifferentCleared(c) ==
    clerk[c].stage = "write" /\ clerk[c].primary /\ ~clerk[c].stale => Primary \subseteq clerk[c].clears \cup {clerk[c].card}

Single == \A j, k \in Primary : j = k

CardsInv ==
    /\ card \in [Card -> [primary : BOOLEAN, active : BOOLEAN] \cup {<<>>}]
    /\ DOMAIN clerk = Clerk /\ torn \in BOOLEAN
    /\ \A c \in Clerk : clerk[c].stage = "write" => clerk[c].primary \in BOOLEAN /\ clerk[c].stale \in BOOLEAN
    /\ \A c \in Clerk : AllDifferentCleared(c)
    /\ ~torn => Single

LEMMA InitCardsInv == CardsInit => CardsInv
<1> SUFFICES ASSUME CardsInit PROVE CardsInv
    OBVIOUS
<1>1. Primary = {}
    BY DEF CardsInit, Primary, Rows
<1>2. \A c \in Clerk : clerk[c].stage # "write"
    BY DEF CardsInit, AtRest
<1>3. card \in [Card -> [primary : BOOLEAN, active : BOOLEAN] \cup {<<>>}]
    BY DEF CardsInit
<1>4. QED
    BY <1>1, <1>2, <1>3 DEF CardsInit, CardsInv, AllDifferentCleared, Single

\* A step that adds no primary card and opens no request.
LEMMA FewerPrimaries ==
    ASSUME CardsInv, torn' = torn, Primary' \subseteq Primary, DOMAIN clerk' = Clerk,
           card' \in [Card -> [primary : BOOLEAN, active : BOOLEAN] \cup {<<>>}],
           \A c \in Clerk : \/ clerk'[c] = clerk[c]
                            \/ clerk'[c].stage = "rest"
                            \/ clerk'[c].primary \in BOOLEAN /\ clerk'[c].stale = TRUE
    PROVE  CardsInv'
BY DEF CardsInv, AllDifferentCleared, Single

\* A commit leaves the other requests stale.
LEMMA RequestsStale ==
    ASSUME CardsInv, NEW c \in Clerk
    PROVE  /\ DOMAIN Seen(c) = Clerk
           /\ \A d \in Clerk : \/ Seen(c)[d].stage = "rest"
                               \/ Seen(c)[d] = clerk[d] /\ clerk[d].stage # "write"
                               \/ Seen(c)[d].primary \in BOOLEAN /\ Seen(c)[d].stale = TRUE
BY DEF Seen, AtRest, CardsInv

LEMMA CommitKeeps ==
    ASSUME CardsInv, NEW c \in Clerk, Commit(c)
    PROVE  CardsInv'
<1> DEFINE r == clerk[c]
<1>1. r.stage = "write" /\ r.primary \in BOOLEAN /\ r.stale \in BOOLEAN
    BY DEF Commit, CardsInv
<1>2. card' \in [Card -> [primary : BOOLEAN, active : BOOLEAN] \cup {<<>>}]
    BY <1>1 DEF Commit, CardsInv, Rows, Updates
<1>3. CASE ~r.primary
    <2>1. Primary' \subseteq Primary /\ torn' = torn
        BY <1>1, <1>3 DEF Commit, Primary, Rows, CardsInv
    <2>2. QED
        BY <1>2, <2>1, RequestsStale, FewerPrimaries DEF Commit
<1>4. CASE r.primary
    <2>1. torn' = r.stale
        BY <1>4 DEF Commit
    <2>2. ~torn' => Primary' \subseteq {r.card}
        BY <1>1, <1>4, <2>1 DEF Commit, CardsInv, AllDifferentCleared, Primary, Rows, Updates
    <2>3. clerk' = Seen(c) /\ DOMAIN clerk' = Clerk
        BY RequestsStale DEF Commit
    <2>4. \A d \in Clerk : clerk'[d].stage = "write" => clerk'[d].primary \in BOOLEAN /\ clerk'[d].stale = TRUE
        BY <2>3, RequestsStale
    <2>5. (~torn' => Single') /\ torn' \in BOOLEAN
        BY <1>1, <2>1, <2>2 DEF Single
    <2>6. QED
        BY <1>2, <2>3, <2>4, <2>5 DEF CardsInv, AllDifferentCleared
<1>5. QED
    BY <1>1, <1>3, <1>4

LEMMA OpenKeeps ==
    ASSUME CardsInv, NEW c \in Clerk, NEW k \in Card, NEW primary \in BOOLEAN, Open(c, k, primary)
    PROVE  CardsInv'
BY DEF Open, CardsInv, AllDifferentCleared, Single, Primary, Rows

LEMMA StepCardsInv == CardsInv /\ [CardsNext]_cardVars => CardsInv'
<1> SUFFICES ASSUME CardsInv, [CardsNext]_cardVars PROVE CardsInv'
    OBVIOUS
<1>1. ASSUME NEW c \in Clerk, Fail(c) PROVE CardsInv'
    BY <1>1, FewerPrimaries DEF Fail, AtRest, CardsInv, Primary, Rows
<1>2. ASSUME NEW k \in Card, NEW active \in BOOLEAN, SetActive(k, active) PROVE CardsInv'
    <2>1. [card[k] EXCEPT !.active = active] \in [primary : BOOLEAN, active : BOOLEAN]
        BY <1>2 DEF SetActive, Rows, CardsInv
    <2>2. card' \in [Card -> [primary : BOOLEAN, active : BOOLEAN] \cup {<<>>}]
        BY <1>2, <2>1 DEF SetActive, CardsInv
    <2>3. Primary' \subseteq Primary
        BY <1>2, <2>1 DEF SetActive, CardsInv, Primary, Rows
    <2>4. QED
        BY <1>2, <2>2, <2>3, FewerPrimaries DEF SetActive, CardsInv
<1>3. ASSUME NEW k \in Card, DeleteCard(k) PROVE CardsInv'
    <2>1. card' \in [Card -> [primary : BOOLEAN, active : BOOLEAN] \cup {<<>>}] /\ Primary' \subseteq Primary
        BY <1>3 DEF DeleteCard, CardsInv, Primary, Rows
    <2>2. QED
        BY <1>3, <2>1, FewerPrimaries DEF DeleteCard, CardsInv
<1>4. CASE UNCHANGED cardVars
    BY <1>4, FewerPrimaries DEF cardVars, CardsInv, Primary, Rows
<1>5. QED
    BY <1>1, <1>2, <1>3, <1>4, CommitKeeps, OpenKeeps DEF CardsNext

LEMMA SingleIsEnough == CardsInv => OnePrimaryCard
<1> SUFFICES ASSUME CardsInv, ~torn PROVE Cardinality(Primary) <= 1 /\ (Primary \cap Default # {} => Default = Primary)
    BY DEF OnePrimaryCard
<1>1. Single
    BY DEF CardsInv
<1>2. Cardinality(Primary) <= 1
    <2>1. CASE Primary = {}
        BY <2>1, FS_EmptySet
    <2>2. CASE Primary # {}
        <3>1. PICK k \in Primary : TRUE
            BY <2>2
        <3>2. Primary = {k}
            BY <1>1, <3>1 DEF Single
        <3>3. QED
            BY <3>2, FS_Singleton
    <2>3. QED
        BY <2>1, <2>2
<1>3. ASSUME Primary \cap Default # {} PROVE Default = Primary
    <2>1. PICK k \in Primary : k \in Default
        BY <1>3
    <2>2. Primary = {k}
        BY <1>1, <2>1 DEF Single
    <2>3. QED
        BY <2>1, <2>2 DEF Default
<1>4. QED
    BY <1>2, <1>3

\* For any number of cards and of requests at a time one card at most is primary, and customers are sent to it, unless
\* two choices of a primary card overlapped and none was made cleanly after.
THEOREM OnePrimary == CardsSpec => []OnePrimaryCard
BY InitCardsInv, StepCardsInv, SingleIsEnough, PTL DEF CardsSpec

-----------------------------------------------------------------------------

\* Stories and posts.

Learned == \A r, s \in Story : media[r] # <<>> /\ media[r].external = s => r = s \/ s \in unsure

StoriesInv == StoriesTypeOK /\ Learned /\ RightJewel

\* A row is changed in one field.
LEMMA RowChanged ==
    ASSUME NEW r \in MediaRow
    PROVE  /\ \A b \in BOOLEAN : [r EXCEPT !.active = b] \in MediaRow /\ [r EXCEPT !.expired = b] \in MediaRow
           /\ \A s \in Story : [r EXCEPT !.external = s] \in MediaRow
BY DEF MediaRow

LEMMA StepStoriesTypeOK == StoriesTypeOK /\ [StoriesNext]_storyVars => StoriesTypeOK'
<1> SUFFICES ASSUME StoriesTypeOK, [StoriesNext]_storyVars PROVE StoriesTypeOK'
    OBVIOUS
<1> USE DEF StoriesTypeOK
<1>1. ASSUME NEW s \in Story, Publish(s) \/ GoOff(s) \/ DeleteInstagramMedia(s) PROVE StoriesTypeOK'
    BY <1>1 DEF Publish, GoOff, DeleteInstagramMedia
<1>2. ASSUME NEW s \in Story, NEW p \in Jewel, AddInstagramMedia(p, s) PROVE StoriesTypeOK'
    <2>1. Row(p) \in MediaRow
        BY DEF Row, MediaRow
    <2>2. QED
        BY <1>2, <2>1 DEF AddInstagramMedia
<1>3. ASSUME NEW s \in Story, RowExpires(s) PROVE StoriesTypeOK'
    <2>1. [media[s] EXCEPT !.expired = TRUE] \in MediaRow
        BY <1>3, RowChanged DEF RowExpires
    <2>2. QED
        BY <1>3, <2>1 DEF RowExpires
<1>4. ASSUME NEW s \in Story, NEW b \in BOOLEAN, UpdateInstagramMedia(s, b) PROVE StoriesTypeOK'
    <2>1. [media[s] EXCEPT !.active = b] \in MediaRow
        BY <1>4, RowChanged DEF UpdateInstagramMedia
    <2>2. QED
        BY <1>4, <2>1 DEF UpdateInstagramMedia
<1>5. ASSUME NEW s \in Story, ResolveLink(s) PROVE StoriesTypeOK'
    BY <1>5 DEF ResolveLink, Show
<1>6. ASSUME NEW s \in Story, NEW graph \in BOOLEAN, ResolveReply(s, graph) PROVE StoriesTypeOK'
    <2>1. unsure' \subseteq Story /\ astray' \subseteq Story /\ UNCHANGED <<onAir, delisted>>
        BY <1>6 DEF ResolveReply, Show
    <2>2. media' = media \/ \E r \in Story : media[r] # <<>> /\ media' = [media EXCEPT ![r].external = s]
        BY <1>6 DEF ResolveReply, StoryFromGraph, ByShareId, OnlyActiveStory, Usable
    <2>3. ASSUME NEW r \in Story, media[r] # <<>> PROVE [media[r] EXCEPT !.external = s] \in MediaRow
        BY <2>3, RowChanged
    <2>4. media' \in [Story -> MediaRow \cup {<<>>}]
        BY <2>2, <2>3
    <2>5. QED
        BY <2>1, <2>4
<1>7. QED
    BY <1>1, <1>2, <1>3, <1>4, <1>5, <1>6 DEF StoriesNext, Delist, storyVars

-----------------------------------------------------------------------------

\* A story that is never asked about in doubt is answered by its own row.
LEMMA ReplyShowsItsOwn ==
    ASSUME StoriesInv, NEW s \in Story, NEW graph \in BOOLEAN, ResolveReply(s, graph), s \notin unsure'
    PROVE  astray' = astray /\ \A r \in Story : r # s => media'[r] = media[r]
<1>1. Usable(s) /\ graph /\ onAir[s] = "live"
    BY DEF ResolveReply
<1>2. s \notin unsure
    BY DEF ResolveReply
<1>3. StoryFromGraph(s, graph) = {s}
    BY <1>1 DEF StoryFromGraph, ByShareId
<1>4. ByWebhookId(s) \subseteq {s}
    BY <1>2 DEF ByWebhookId, Usable, StoriesInv, Learned
<1>5. Show(s, media[s].product) /\ (UNCHANGED media \/ media' = [media EXCEPT ![s].external = s])
    BY <1>3, <1>4 DEF ResolveReply
<1>6. QED
    BY <1>1, <1>5 DEF Show, Usable, StoriesInv, StoriesTypeOK

LEMMA StepLearned == StoriesInv /\ [StoriesNext]_storyVars => Learned'
<1> SUFFICES ASSUME StoriesInv, [StoriesNext]_storyVars PROVE Learned'
    OBVIOUS
<1>1. CASE UNCHANGED <<media, unsure>>
    BY <1>1 DEF Learned, StoriesInv
<1>2. ASSUME NEW s \in Story, NEW p \in Jewel, AddInstagramMedia(p, s) PROVE Learned'
    BY <1>2, StoriesAssumption DEF AddInstagramMedia, Row, Learned, StoriesInv, StoriesTypeOK
<1>3. ASSUME NEW s \in Story, NEW b \in BOOLEAN, RowExpires(s) \/ UpdateInstagramMedia(s, b) PROVE Learned'
    <2>1. unsure' = unsure /\ \A r \in Story : media'[r] # <<>> => media[r] # <<>> /\ media'[r].external = media[r].external
        BY <1>3 DEF RowExpires, UpdateInstagramMedia, MediaRow, StoriesInv, StoriesTypeOK
    <2>2. QED
        BY <2>1 DEF Learned, StoriesInv
<1>4. ASSUME NEW s \in Story, NEW graph \in BOOLEAN, ResolveReply(s, graph) PROVE Learned'
    <2>1. unsure \subseteq unsure'
        BY <1>4 DEF ResolveReply
    <2>2. media' = media \/ \E r \in Story : media[r] # <<>> /\ media' = [media EXCEPT ![r].external = s]
        BY <1>4 DEF ResolveReply, StoryFromGraph, ByShareId, OnlyActiveStory, Usable
    <2>3. \A r \in Story : media'[r] # <<>> =>
              media[r] # <<>> /\ (media'[r].external = media[r].external \/ media'[r].external = s)
        BY <2>2 DEF MediaRow, StoriesInv, StoriesTypeOK
    <2>4. CASE s \in unsure'
        BY <2>1, <2>3, <2>4 DEF Learned, StoriesInv
    <2>5. CASE s \notin unsure'
        <3>1. \A r \in Story : r # s => media'[r] = media[r]
            BY <1>4, <2>5, ReplyShowsItsOwn
        <3>2. QED
            BY <2>1, <2>3, <3>1 DEF Learned, StoriesInv
    <2>6. QED
        BY <2>4, <2>5
<1>5. ASSUME NEW s \in Story, Publish(s) \/ GoOff(s) \/ ResolveLink(s) \/ DeleteInstagramMedia(s) PROVE Learned'
    BY <1>1, <1>5 DEF Publish, GoOff, ResolveLink, DeleteInstagramMedia, Learned, StoriesInv, StoriesTypeOK
<1>6. ASSUME NEW p \in Jewel, Delist(p) PROVE Learned'
    BY <1>1, <1>6 DEF Delist
<1>7. CASE UNCHANGED storyVars
    BY <1>1, <1>7 DEF storyVars
<1>8. QED
    BY <1>2, <1>3, <1>4, <1>5, <1>6, <1>7 DEF StoriesNext

LEMMA StepRightJewel == StoriesInv /\ [StoriesNext]_storyVars => RightJewel'
<1> SUFFICES ASSUME StoriesInv, [StoriesNext]_storyVars PROVE RightJewel'
    OBVIOUS
<1>1. CASE UNCHANGED <<astray, unsure>>
    BY <1>1 DEF StoriesInv, RightJewel
<1>2. ASSUME NEW s \in Story, ResolveLink(s) PROVE RightJewel'
    BY <1>2 DEF ResolveLink, Show, Usable, StoriesInv, RightJewel
<1>3. ASSUME NEW s \in Story, NEW graph \in BOOLEAN, ResolveReply(s, graph) PROVE RightJewel'
    <2>1. unsure \subseteq unsure' /\ astray' \subseteq astray \cup {s}
        BY <1>3 DEF ResolveReply, Show
    <2>2. CASE s \in unsure'
        BY <2>1, <2>2 DEF StoriesInv, RightJewel
    <2>3. CASE s \notin unsure'
        BY <1>3, <2>1, <2>3, ReplyShowsItsOwn DEF StoriesInv, RightJewel
    <2>4. QED
        BY <2>2, <2>3
<1>4. QED
    BY <1>1, <1>2, <1>3
       DEF StoriesNext, storyVars, Publish, GoOff, AddInstagramMedia, RowExpires, UpdateInstagramMedia,
           DeleteInstagramMedia, Delist

\* For any number of stories and products a customer is shown the jewel of the story that was answered, unless that story
\* was once asked about in doubt: what resolve_instagram_media learns from one reply never misleads another.
THEOREM RightJewelShown == StoriesSpec => []RightJewel
<1>1. StoriesInit => StoriesInv
    BY DEF StoriesInit, StoriesInv, StoriesTypeOK, Learned, RightJewel
<1>2. StoriesInv /\ [StoriesNext]_storyVars => StoriesInv'
    BY StepStoriesTypeOK, StepLearned, StepRightJewel DEF StoriesInv
<1>3. StoriesInv => RightJewel
    BY DEF StoriesInv
<1>4. QED
    BY <1>1, <1>2, <1>3, PTL DEF StoriesSpec

-----------------------------------------------------------------------------

\* The checkout page.

Column == {"status", "type", "branch", "point", "text"}

Confirming(v) == visit[v].stage = "confirm"

\* What a request is to write and to answer with, and the row it is going to find.
CheckoutShaped ==
    /\ DOMAIN link = Link
    /\ parcel # <<>> => DOMAIN parcel = Column
    /\ \A l \in Link : link[l] # "none" => parcel # <<>>
    /\ DOMAIN visit = Visit
    /\ \A v \in Visit :
          /\ DOMAIN visit[v] = {"stage", "link", "writes", "answer", "stale"}
          /\ visit[v].stage \in {"idle", "confirm", "text", "insert"}
          /\ Confirming(v) => visit[v].link \in Link /\ visit[v].stale \in BOOLEAN /\ parcel # <<>>

AsRead ==
    \A v \in Visit : Confirming(v) /\ ~visit[v].stale =>
        \A f \in AddressField : IF f \in DOMAIN visit[v].writes THEN visit[v].writes[f] = visit[v].answer[f]
                                                                ELSE parcel[f] = visit[v].answer[f]

Noted ==
    /\ \A v \in Visit : Confirming(v) /\ link[visit[v].link] = "used" => visit[v].link \in raced /\ visit[v].stale
    /\ \A u, v \in Visit : u # v /\ Confirming(u) /\ Confirming(v) /\ visit[u].link = visit[v].link
                              => visit[v].link \in raced

CheckoutInv == CheckoutShaped /\ AsRead /\ Noted /\ LinkSpentOnce

LEMMA InitCheckoutInv == CheckoutInit => CheckoutInv
BY DEF CheckoutInit, FreeVisit, CheckoutInv, CheckoutShaped, AsRead, Noted, Confirming, LinkSpentOnce

\* A step that moves no visit forward and leaves the columns of the address alone.
LEMMA NothingWritten ==
    ASSUME CheckoutInv, UNCHANGED <<visit, twice, raced>>, DOMAIN link' = Link,
           parcel # <<>> => parcel' # <<>> /\ \A f \in AddressField : parcel'[f] = parcel[f],
           parcel' # <<>> => DOMAIN parcel' = Column,
           \A l \in Link : link'[l] # "none" => parcel' # <<>>,
           \A l \in Link : link'[l] = "used" => link[l] = "used"
    PROVE  CheckoutInv'
<1>1. CheckoutShaped'
    BY DEF CheckoutInv, CheckoutShaped, Confirming
<1>2. AsRead'
    BY DEF CheckoutInv, CheckoutShaped, AsRead, Confirming
<1>3. Noted' /\ LinkSpentOnce'
    BY DEF CheckoutInv, CheckoutShaped, Noted, Confirming, LinkSpentOnce
<1>4. QED
    BY <1>1, <1>2, <1>3 DEF CheckoutInv

LEMMA ChangesLeadToValues ==
    ASSUME NEW values, NEW read, NEW f \in DOMAIN values
    PROVE  IF f \in DOMAIN Changes(values, read) THEN Changes(values, read)[f] = values[f] ELSE read[f] = values[f]
BY DEF Changes, Written

LEMMA OpenConfirmKeeps ==
    ASSUME CheckoutInv, NEW v \in Visit, NEW l \in Link, NEW p \in Point, NEW chosen \in Branch \cup {NoValue},
           OpenConfirm(v, l, p, chosen)
    PROVE  CheckoutInv'
<1> DEFINE w == [stage |-> "confirm", link |-> l, stale |-> FALSE,
                 writes |-> Changes(Confirmed(p, chosen), parcel), answer |-> Confirmed(p, chosen)]
<1>1. visit' = [visit EXCEPT ![v] = w] /\ link[l] = "issued" /\ UNCHANGED <<link, parcel, twice>>
    BY DEF OpenConfirm
<1>2. raced \subseteq raced' /\ \A u \in Visit : visit[u].link = l => l \in raced'
    BY DEF OpenConfirm
<1>3. DOMAIN visit' = Visit /\ visit'[v] = w /\ \A u \in Visit : u # v => visit'[u] = visit[u]
    BY <1>1 DEF CheckoutInv, CheckoutShaped
<1>4. /\ w.stage = "confirm" /\ w.link = l /\ w.stale = FALSE
      /\ w.writes = Changes(Confirmed(p, chosen), parcel) /\ w.answer = Confirmed(p, chosen)
      /\ DOMAIN w = {"stage", "link", "writes", "answer", "stale"}
    OBVIOUS
<1> HIDE DEF w
<1>5. CheckoutShaped'
    BY <1>1, <1>3, <1>4 DEF CheckoutInv, CheckoutShaped, Confirming
<1>6. AsRead'
    <2>1. AddressField \subseteq DOMAIN Confirmed(p, chosen)
        BY DEF AddressField, Confirmed
    <2>2. \A f \in AddressField : IF f \in DOMAIN w.writes THEN w.writes[f] = w.answer[f] ELSE parcel[f] = w.answer[f]
        BY <1>4, <2>1, ChangesLeadToValues
    <2>3. QED
        BY <1>1, <1>3, <2>2 DEF CheckoutInv, AsRead, Confirming
<1>7. Noted' /\ LinkSpentOnce'
    BY <1>1, <1>2, <1>3, <1>4 DEF CheckoutInv, Noted, Confirming, LinkSpentOnce
<1>8. QED
    BY <1>5, <1>6, <1>7 DEF CheckoutInv

LEMMA OpenTextKeeps ==
    ASSUME CheckoutInv, NEW v \in Visit, NEW type, OpenText(v, type)
    PROVE  CheckoutInv'
<1>1. DOMAIN visit' = Visit /\ visit'[v].stage \in {"text", "insert"} /\ (\A u \in Visit : u # v => visit'[u] = visit[u])
      /\ DOMAIN visit'[v] = {"stage", "link", "writes", "answer", "stale"}
    BY DEF OpenText, FreeVisit, CheckoutInv, CheckoutShaped
<1>2. UNCHANGED <<link, parcel, twice, raced>>
    BY DEF OpenText
<1>3. QED
    BY <1>1, <1>2 DEF CheckoutInv, CheckoutShaped, AsRead, Noted, Confirming, LinkSpentOnce

\* Whoever is open when another request commits is stale afterwards.
LEMMA VisitsStale ==
    ASSUME CheckoutInv, NEW v \in Visit, visit' = AllStale(v, [visit EXCEPT ![v] = FreeVisit])
    PROVE  /\ DOMAIN visit' = Visit /\ visit'[v] = FreeVisit
           /\ \A u \in Visit : u # v =>
                 /\ visit'[u].stage = visit[u].stage /\ visit'[u].link = visit[u].link
                 /\ DOMAIN visit'[u] = DOMAIN visit[u]
                 /\ visit[u].stage # "idle" => visit'[u].stale = TRUE
<1>1. DOMAIN visit' = Visit /\ visit'[v] = FreeVisit
    BY DEF AllStale, CheckoutInv, CheckoutShaped
<1>2. ASSUME NEW u \in Visit, u # v
      PROVE  /\ visit'[u].stage = visit[u].stage /\ visit'[u].link = visit[u].link
             /\ DOMAIN visit'[u] = DOMAIN visit[u]
             /\ visit[u].stage # "idle" => visit'[u].stale = TRUE
    <2>1. visit'[u] = IF visit[u].stage = "idle" THEN visit[u] ELSE [visit[u] EXCEPT !.stale = TRUE]
        BY <1>2 DEF AllStale, CheckoutInv, CheckoutShaped
    <2>2. QED
        BY <1>2, <2>1 DEF CheckoutInv, CheckoutShaped
<1>3. QED
    BY <1>1, <1>2

LEMMA FoundShape ==
    ASSUME CheckoutInv
    PROVE  Found # <<>> /\ DOMAIN Found = Column
<1>1. DOMAIN Found = Column
    BY DEF Found, NewParcel, Column, CheckoutInv, CheckoutShaped
<1>2. QED
    BY <1>1 DEF Column

LEMMA MergedShape ==
    ASSUME CheckoutInv, NEW v \in Visit, parcel' = Merged(v)
    PROVE  parcel' # <<>> /\ DOMAIN parcel' = Column
<1>1. DOMAIN parcel' = Column
    BY FoundShape DEF Merged
<1>2. QED
    BY <1>1 DEF Column

LEMMA CommitShaped ==
    ASSUME CheckoutInv, NEW v \in Visit, DOMAIN link' = Link, parcel' # <<>>, DOMAIN parcel' = Column,
           visit' = AllStale(v, [visit EXCEPT ![v] = FreeVisit])
    PROVE  CheckoutShaped'
<1>1. DOMAIN visit' = Visit /\ visit'[v] = FreeVisit
    BY VisitsStale
<1>2. ASSUME NEW u \in Visit
      PROVE  /\ DOMAIN visit'[u] = {"stage", "link", "writes", "answer", "stale"}
             /\ visit'[u].stage \in {"idle", "confirm", "text", "insert"}
             /\ visit'[u].stage = "confirm" => visit'[u].link \in Link /\ visit'[u].stale \in BOOLEAN
    <2>1. CASE u = v
        BY <1>1, <2>1 DEF FreeVisit
    <2>2. CASE u # v
        <3>1. visit'[u].stage = visit[u].stage /\ visit'[u].link = visit[u].link /\ DOMAIN visit'[u] = DOMAIN visit[u]
            BY <2>2, VisitsStale
        <3>2. visit[u].stage # "idle" => visit'[u].stale = TRUE
            BY <2>2, VisitsStale
        <3>3. visit'[u].stage = "confirm" => visit'[u].stale \in BOOLEAN
            BY <3>1, <3>2
        <3>4. QED
            BY <3>1, <3>3 DEF CheckoutInv, CheckoutShaped, Confirming
    <2>3. QED
        BY <2>1, <2>2
<1>3. \A l \in Link : link'[l] # "none" => parcel' # <<>>
    OBVIOUS
<1>4. \A u \in Visit : /\ DOMAIN visit'[u] = {"stage", "link", "writes", "answer", "stale"}
                       /\ visit'[u].stage \in {"idle", "confirm", "text", "insert"}
                       /\ Confirming(u)' => visit'[u].link \in Link /\ visit'[u].stale \in BOOLEAN /\ parcel' # <<>>
    BY <1>2 DEF Confirming
<1>5. QED
    BY <1>1, <1>3, <1>4 DEF CheckoutShaped

LEMMA CommitConfirmKeeps ==
    ASSUME CheckoutInv, NEW v \in Visit, CommitConfirm(v)
    PROVE  CheckoutInv'
<1>1. /\ Confirming(v) /\ visit[v].link \in Link /\ raced' = raced
      /\ link' = [link EXCEPT ![visit[v].link] = "used"]
      /\ twice' = IF link[visit[v].link] = "used" THEN twice \cup {visit[v].link} ELSE twice
    BY DEF CommitConfirm, Confirming, CheckoutInv, CheckoutShaped
<1>2. parcel' # <<>> /\ DOMAIN parcel' = Column
    BY MergedShape DEF CommitConfirm
<1>3. /\ DOMAIN visit' = Visit /\ visit'[v] = FreeVisit
      /\ \A u \in Visit : u # v =>
            /\ visit'[u].stage = visit[u].stage /\ visit'[u].link = visit[u].link
            /\ DOMAIN visit'[u] = DOMAIN visit[u]
            /\ visit[u].stage # "idle" => visit'[u].stale = TRUE
    BY VisitsStale DEF CommitConfirm
<1>4. CheckoutShaped'
    <2>1. DOMAIN link' = Link
        BY <1>1 DEF CheckoutInv, CheckoutShaped
    <2>2. QED
        BY <1>2, <2>1, CommitShaped DEF CommitConfirm
<1>5. AsRead'
    BY <1>3 DEF CheckoutInv, CheckoutShaped, AsRead, Confirming, FreeVisit
<1>6. Noted'
    <2>1. \A u \in Visit : Confirming(u)' =>
              u # v /\ Confirming(u) /\ visit'[u].link = visit[u].link /\ visit'[u].link \in Link /\ visit'[u].stale
        BY <1>3 DEF Confirming, FreeVisit, CheckoutInv, CheckoutShaped
    <2>2. \A u \in Visit : Confirming(u)' /\ link'[visit'[u].link] = "used" => visit'[u].link \in raced'
        BY <1>1, <2>1 DEF CheckoutInv, CheckoutShaped, Noted
    <2>3. \A t, u \in Visit : t # u /\ Confirming(t)' /\ Confirming(u)' /\ visit'[t].link = visit'[u].link
                                 => visit'[u].link \in raced'
        BY <1>1, <2>1 DEF CheckoutInv, Noted
    <2>4. QED
        BY <2>1, <2>2, <2>3 DEF Noted
<1>7. LinkSpentOnce'
    BY <1>1 DEF CheckoutInv, Noted, LinkSpentOnce
<1>8. QED
    BY <1>4, <1>5, <1>6, <1>7 DEF CheckoutInv

LEMMA CommitTextKeeps ==
    ASSUME CheckoutInv, NEW v \in Visit, CommitText(v)
    PROVE  CheckoutInv'
<1>1. UNCHANGED <<link, twice, raced>> /\ ~Confirming(v)
    BY DEF CommitText, Confirming
<1>2. parcel' # <<>> /\ DOMAIN parcel' = Column
    BY MergedShape DEF CommitText
<1>3. /\ DOMAIN visit' = Visit /\ visit'[v] = FreeVisit
      /\ \A u \in Visit : u # v =>
            /\ visit'[u].stage = visit[u].stage /\ visit'[u].link = visit[u].link
            /\ DOMAIN visit'[u] = DOMAIN visit[u]
            /\ visit[u].stage # "idle" => visit'[u].stale = TRUE
    BY VisitsStale DEF CommitText
<1>4. CheckoutShaped'
    <2>1. DOMAIN link' = Link
        BY <1>1 DEF CheckoutInv, CheckoutShaped
    <2>2. QED
        BY <1>2, <2>1, CommitShaped DEF CommitText
<1>5. \A u \in Visit : Confirming(u)' =>
          u # v /\ Confirming(u) /\ visit'[u].link = visit[u].link /\ visit'[u].stale
    BY <1>3 DEF Confirming, FreeVisit, CheckoutInv, CheckoutShaped
<1>6. AsRead' /\ Noted' /\ LinkSpentOnce'
    BY <1>1, <1>5 DEF CheckoutInv, AsRead, Noted, LinkSpentOnce
<1>7. QED
    BY <1>4, <1>6 DEF CheckoutInv

LEMMA StepCheckoutInv == CheckoutInv /\ [CheckoutNext]_checkoutVars => CheckoutInv'
<1> SUFFICES ASSUME CheckoutInv, [CheckoutNext]_checkoutVars PROVE CheckoutInv'
    OBVIOUS
<1>1. ASSUME NEW l \in Link, CreateLink(l) PROVE CheckoutInv'
    <2>1. parcel' # <<>> /\ (parcel # <<>> => parcel' = parcel) /\ DOMAIN parcel' = Column
        BY <1>1, FoundShape DEF CreateLink, Found
    <2>2. link' = [link EXCEPT ![l] = "issued"] /\ UNCHANGED <<visit, twice, raced>>
        BY <1>1 DEF CreateLink
    <2>3. QED
        BY <2>1, <2>2, NothingWritten DEF CheckoutInv, CheckoutShaped
<1>2. ASSUME NEW l \in Link, Expire(l) PROVE CheckoutInv'
    BY <1>2, NothingWritten DEF Expire, CheckoutInv, CheckoutShaped
<1>3. ASSUME NEW v \in Visit, Leave(v) PROVE CheckoutInv'
    BY <1>3 DEF Leave, FreeVisit, CheckoutInv, CheckoutShaped, AsRead, Noted, Confirming, LinkSpentOnce
<1>4. ASSUME UpdateStatus("delivered") PROVE CheckoutInv'
    <2>1. DOMAIN parcel' = Column /\ parcel # <<>> /\ \A f \in AddressField : parcel'[f] = parcel[f]
        BY <1>4 DEF UpdateStatus, CheckoutInv, CheckoutShaped, AddressField, Column
    <2>2. parcel' # <<>>
        BY <2>1 DEF Column
    <2>3. UNCHANGED <<link, visit, twice, raced>>
        BY <1>4 DEF UpdateStatus
    <2>4. QED
        BY <2>1, <2>2, <2>3, NothingWritten DEF CheckoutInv, CheckoutShaped
<1>5. CASE UNCHANGED checkoutVars
    BY <1>5, NothingWritten DEF checkoutVars, CheckoutInv, CheckoutShaped
<1>6. QED
    BY <1>1, <1>2, <1>3, <1>4, <1>5, OpenConfirmKeeps, OpenTextKeeps, CommitConfirmKeeps, CommitTextKeeps
       DEF CheckoutNext

\* For any number of links and requests a link confirms once, unless two requests had it open at a time.
THEOREM SpentOnce == CheckoutSpec => []LinkSpentOnce
<1>1. CheckoutInv => LinkSpentOnce
    BY DEF CheckoutInv
<1>2. QED
    BY <1>1, InitCheckoutInv, StepCheckoutInv, PTL DEF CheckoutSpec

\* One confirmation: what the page is told is what the row holds, in every column of the address.
StoredAsTold ==
    \A v \in Visit :
        visit[v].stage = "confirm" /\ link'[visit[v].link] = "used" /\ visit'[v].stage = "idle" /\ ~visit[v].stale
        => \A f \in AddressField : parcel'[f] = visit[v].answer[f]

LEMMA StepAsTold == CheckoutInv /\ [CheckoutNext]_checkoutVars => StoredAsTold
<1> SUFFICES ASSUME CheckoutInv, [CheckoutNext]_checkoutVars, NEW v \in Visit,
                    visit[v].stage = "confirm", link'[visit[v].link] = "used", visit'[v].stage = "idle",
                    ~visit[v].stale, NEW f \in AddressField
             PROVE  parcel'[f] = visit[v].answer[f]
    BY DEF StoredAsTold
<1>1. CASE CommitConfirm(v)
    <2>1. Found = parcel /\ f \in DOMAIN parcel
        BY DEF Found, CheckoutInv, CheckoutShaped, Confirming, AddressField, Column
    <2>2. QED
        BY <1>1, <2>1 DEF CommitConfirm, Merged, CheckoutInv, AsRead, Confirming
<1>2. CASE link[visit[v].link] = "used"
    BY <1>2 DEF CheckoutInv, Noted, Confirming
<1>3. CASE ~CommitConfirm(v) /\ link[visit[v].link] # "used"
    <2>1. PICK u \in Visit : u # v /\ CommitConfirm(u)
        BY <1>3 DEF CheckoutNext, checkoutVars, CreateLink, Expire, OpenConfirm, OpenText, CommitText, Leave,
                    UpdateStatus, CheckoutInv, CheckoutShaped, Confirming
    <2>2. visit'[v].stage = visit[v].stage
        BY <2>1, VisitsStale DEF CommitConfirm
    <2>3. QED
        BY <2>2
<1>4. QED
    BY <1>1, <1>2, <1>3

\* For any number of links, points and requests the page is told what the row then holds, unless another request wrote
\* the address after this one had read it.
THEOREM ToldAndStored == CheckoutSpec => ParcelIsAsTold
BY InitCheckoutInv, StepCheckoutInv, StepAsTold, PTL DEF CheckoutSpec, ParcelIsAsTold, StoredAsTold

-----------------------------------------------------------------------------

\* The outbox.

NCalls(m) == Cardinality(Calls(m))

\* The calls of a message are numbered, and what is not looked at comes last.
LEMMA CallsNumbered ==
    ASSUME NEW m \in Mail
    PROVE  /\ NCalls(m) \in Nat /\ NCalls(m) > 0 /\ Calls(m) = 1 .. NCalls(m)
           /\ \A k \in Calls(m) : ~Checked(m, k) => k = NCalls(m)
<1>1. PICK n \in Nat \ {0} : Calls(m) = 1 .. n /\ (Shape[m].channel = "instagram" /\ Shape[m].kind = "image" => n <= 2)
    <2>1. Shape[m].chunks \in Nat \ {0} /\ Shape[m].kind \in Kind
        BY OutboxAssumption
    <2>2. {1} = 1 .. 1 /\ {1, 2} = 1 .. 2
        OBVIOUS
    <2>3. \E n \in Nat \ {0} : TelegramCalls(m) = 1 .. n
        <3>1. TelegramCalls(m) = 1 .. Shape[m].chunks \/ TelegramCalls(m) = 1 .. 1
            BY <2>2 DEF TelegramCalls
        <3>2. CASE TelegramCalls(m) = 1 .. Shape[m].chunks
            BY <2>1, <3>2
        <3>3. CASE TelegramCalls(m) = 1 .. 1
            <4>1. 1 \in Nat \ {0}
                OBVIOUS
            <4>2. QED
                BY <3>3, <4>1
        <3>4. QED
            BY <3>1, <3>2, <3>3
    <2>4. \E n \in Nat \ {0} : InstagramCalls(m) = 1 .. n /\ (Shape[m].kind = "image" => n <= 2)
        <3>1. \/ Shape[m].kind = "text" /\ InstagramCalls(m) = 1 .. Shape[m].chunks
              \/ InstagramCalls(m) = 1 .. 1
              \/ InstagramCalls(m) = 1 .. 2
            BY <2>2 DEF InstagramCalls
        <3>2. CASE Shape[m].kind = "text" /\ InstagramCalls(m) = 1 .. Shape[m].chunks
            BY <2>1, <3>2
        <3>3. ASSUME NEW n \in {1, 2}, InstagramCalls(m) = 1 .. n
              PROVE  \E k \in Nat \ {0} : InstagramCalls(m) = 1 .. k /\ (Shape[m].kind = "image" => k <= 2)
            <4>1. n \in Nat \ {0} /\ n <= 2
                OBVIOUS
            <4>2. QED
                BY <3>3, <4>1
        <3>4. QED
            BY <3>1, <3>2, <3>3
    <2>5. QED
        BY <2>3, <2>4 DEF Calls
<1>2. NCalls(m) = n
    BY <1>1, FS_Interval DEF NCalls
<1>3. QED
    BY <1>1, <1>2 DEF Checked

\* The state of one message.
SoFar(m) ==
    /\ made[m] \in 0 .. NCalls(m)
    /\ arrived[m] \subseteq 1 .. made[m]
    /\ sender[m] = "idle" => made[m] = 0 /\ row[m] \notin {"sent", "failed"}
    /\ sender[m] = "calling" => row[m] \notin {"sent", "failed"}
    /\ sender[m] = "calling" => \A k \in 1 .. made[m] : Checked(m, k) => k \in arrived[m]
    /\ sender[m] = "refused" => made[m] > 0 /\ made[m] \notin arrived[m] /\ row[m] \notin {"sent", "failed"}
    /\ sender[m] # "idle" /\ ~Notice(m) => row[m] # "none"
    /\ \A k \in arrived[m] : \A j \in 1 .. k : j \in arrived[m]
    /\ row[m] = "sent" => \A k \in Calls(m) : Checked(m, k) => k \in arrived[m]
    /\ row[m] = "failed" => arrived[m] # Calls(m)

OutboxInv ==
    /\ row \in [Mail -> {"none", "pending", "sent", "failed", "skipped", "deleted"}]
    /\ sender \in [Mail -> {"idle", "calling", "refused", "over"}]
    /\ DOMAIN made = Mail /\ DOMAIN arrived = Mail
    /\ \A m \in Mail : SoFar(m)

\* A step concerns one message.
LEMMA OneMessage ==
    ASSUME OutboxInv, NEW m \in Mail, SoFar(m)',
           row' \in [Mail -> {"none", "pending", "sent", "failed", "skipped", "deleted"}],
           sender' \in [Mail -> {"idle", "calling", "refused", "over"}],
           DOMAIN made' = Mail, DOMAIN arrived' = Mail,
           \A n \in Mail : n # m => row'[n] = row[n] /\ sender'[n] = sender[n] /\ made'[n] = made[n] /\ arrived'[n] = arrived[n]
    PROVE  OutboxInv'
<1>1. ASSUME NEW n \in Mail, n # m PROVE SoFar(n)'
    <2>1. SoFar(n)
        BY DEF OutboxInv
    <2>2. row'[n] = row[n] /\ sender'[n] = sender[n] /\ made'[n] = made[n] /\ arrived'[n] = arrived[n]
        BY <1>1
    <2>3. QED
        BY <2>1, <2>2 DEF SoFar
<1>2. QED
    BY <1>1 DEF OutboxInv

LEMMA SavedKeeps ==
    ASSUME OutboxInv, NEW m \in Mail, NEW kind \in {"text", "image", "carousel"}, Saved(m, kind)
    PROVE  OutboxInv'
<1>1. SoFar(m)
    BY DEF OutboxInv
<1>2. row'[m] = "pending" /\ sender'[m] = "calling" /\ made'[m] = made[m] /\ arrived'[m] = arrived[m] /\ sender[m] = "idle"
    BY DEF Saved, OutboxInv
<1>3. SoFar(m)'
    BY <1>1, <1>2 DEF SoFar
<1>4. QED
    BY <1>3, OneMessage DEF Saved, OutboxInv

LEMMA StartNoticeKeeps ==
    ASSUME OutboxInv, NEW m \in Mail, StartNotice(m)
    PROVE  OutboxInv'
<1>1. SoFar(m) /\ Notice(m) /\ sender[m] = "idle" /\ made'[m] = made[m] /\ arrived'[m] = arrived[m]
    BY DEF OutboxInv, StartNotice
<1>2. \/ sender'[m] = "calling" /\ row'[m] = row[m]
      \/ sender'[m] = "over" /\ row'[m] = "skipped"
    BY DEF StartNotice, OutboxInv
<1>3. SoFar(m)'
    BY <1>1, <1>2 DEF SoFar, Notice
<1>4. QED
    BY <1>3, OneMessage DEF StartNotice, OutboxInv

\* A call is made: it arrives only if all before it have.
LEMMA CallMade ==
    ASSUME OutboxInv, NEW m \in Mail, sender[m] = "calling", Left(m), made'[m] = made[m] + 1, row'[m] = row[m],
           \/ arrived'[m] = arrived[m] \cup {made[m] + 1} /\ sender'[m] \in {"calling", "over"}
           \/ arrived'[m] = arrived[m] /\ sender'[m] = "over"
           \/ arrived'[m] = arrived[m] /\ sender'[m] = IF Checked(m, made[m] + 1) THEN "refused" ELSE "calling"
    PROVE  SoFar(m)'
<1>1. SoFar(m) /\ NCalls(m) \in Nat /\ Calls(m) = 1 .. NCalls(m) /\ made[m] < NCalls(m) /\ made[m] \in Nat
    BY CallsNumbered DEF OutboxInv, SoFar, Left, NCalls
<1>2. \A k \in 1 .. made[m] : k \in arrived[m]
    BY <1>1, CallsNumbered DEF SoFar
<1>3. arrived'[m] = arrived[m] \/ arrived'[m] = 1 .. (made[m] + 1)
    <2>1. arrived[m] = 1 .. made[m]
        BY <1>1, <1>2 DEF SoFar
    <2>2. (1 .. made[m]) \cup {made[m] + 1} = 1 .. (made[m] + 1)
        BY <1>1
    <2>3. QED
        BY <2>1, <2>2
<1>4. made'[m] \in 0 .. NCalls(m) /\ arrived'[m] \subseteq 1 .. made'[m]
    BY <1>1, <1>3 DEF SoFar
<1>5. \A k \in arrived'[m] : \A j \in 1 .. k : j \in arrived'[m]
    BY <1>1, <1>3 DEF SoFar
<1>6. sender'[m] = "calling" => \A k \in 1 .. made'[m] : Checked(m, k) => k \in arrived'[m]
    BY <1>1, <1>2
<1>7. sender'[m] = "refused" => made'[m] > 0 /\ made'[m] \notin arrived'[m]
    BY <1>1 DEF SoFar
<1>8. sender'[m] # "idle" /\ row[m] \notin {"sent", "failed"} /\ (~Notice(m) => row[m] # "none")
    BY <1>1 DEF SoFar
<1>9. QED
    BY <1>4, <1>5, <1>6, <1>7, <1>8 DEF SoFar, Notice

LEMMA CallKeeps ==
    ASSUME OutboxInv, NEW m \in Mail, Accepted(m) \/ Refused(m)
    PROVE  OutboxInv'
<1>1. sender[m] = "calling" /\ Left(m) /\ made'[m] = made[m] + 1 /\ row'[m] = row[m]
    BY DEF Accepted, Refused, OutboxInv
<1>2. \/ arrived'[m] = arrived[m] \cup {made[m] + 1} /\ sender'[m] = "calling"
      \/ arrived'[m] = arrived[m] /\ sender'[m] = IF Checked(m, made[m] + 1) THEN "refused" ELSE "calling"
    BY DEF Accepted, Refused, OutboxInv
<1>3. SoFar(m)'
    BY <1>1, <1>2, CallMade
<1>4. QED
    BY <1>3, OneMessage DEF Accepted, Refused, OutboxInv

LEMMA BrokenKeeps ==
    ASSUME OutboxInv, NEW m \in Mail, Broken(m)
    PROVE  OutboxInv'
<1>1. sender'[m] = "over" /\ row'[m] = row[m] /\ sender[m] \in {"calling", "refused"}
    BY DEF Broken, OutboxInv
<1>2. CASE sender[m] = "calling" /\ Left(m)
    <2>1. made'[m] = made[m] + 1 /\ (arrived'[m] = arrived[m] \/ arrived'[m] = arrived[m] \cup {made[m] + 1})
        BY <1>2 DEF Broken, OutboxInv
    <2>2. SoFar(m)'
        BY <1>1, <1>2, <2>1, CallMade
    <2>3. DOMAIN made' = Mail /\ DOMAIN arrived' = Mail
        BY <1>2 DEF Broken, OutboxInv
    <2>4. \A n \in Mail : n # m => made'[n] = made[n] /\ arrived'[n] = arrived[n]
        BY <1>2 DEF Broken, OutboxInv
    <2>5. QED
        BY <2>2, <2>3, <2>4, OneMessage DEF Broken, OutboxInv
<1>3. CASE ~(sender[m] = "calling" /\ Left(m))
    <2>1. UNCHANGED <<made, arrived>>
        BY <1>3 DEF Broken
    <2>2. SoFar(m)'
        BY <1>1, <2>1 DEF SoFar, OutboxInv
    <2>3. QED
        BY <2>1, <2>2, OneMessage DEF Broken, OutboxInv
<1>4. QED
    BY <1>2, <1>3

LEMMA RecordKeeps ==
    ASSUME OutboxInv, NEW m \in Mail, Record(m)
    PROVE  OutboxInv'
<1>1. SoFar(m) /\ NCalls(m) \in Nat /\ Calls(m) = 1 .. NCalls(m)
    BY CallsNumbered DEF OutboxInv
<1>2. sender'[m] = "over" /\ made'[m] = made[m] /\ arrived'[m] = arrived[m]
    BY DEF Record, OutboxInv
<1>3. \/ row'[m] = "deleted"
      \/ row'[m] = "failed" /\ sender[m] = "refused"
      \/ row'[m] = "sent" /\ sender[m] = "calling" /\ ~Left(m)
    BY DEF Record, Finished, OutboxInv
<1>4. sender[m] = "refused" => arrived[m] # Calls(m)
    BY <1>1 DEF SoFar
<1>5. sender[m] = "calling" /\ ~Left(m) => \A k \in Calls(m) : Checked(m, k) => k \in arrived[m]
    BY <1>1 DEF SoFar, Left, NCalls
<1>6. SoFar(m)'
    BY <1>1, <1>2, <1>3, <1>4, <1>5 DEF SoFar
<1>7. row' \in [Mail -> {"none", "pending", "sent", "failed", "skipped", "deleted"}]
    BY <1>3 DEF Record, OutboxInv
<1>8. QED
    BY <1>6, <1>7, OneMessage DEF Record, OutboxInv

LEMMA DeleteKeeps == ASSUME OutboxInv, DeleteTalk PROVE OutboxInv'
<1>1. ASSUME NEW m \in Mail PROVE SoFar(m)'
    <2>1. SoFar(m) /\ (row'[m] = row[m] \/ row'[m] = "deleted") /\ UNCHANGED <<sender, made, arrived>>
        BY DEF DeleteTalk, OutboxInv
    <2>2. QED
        BY <2>1 DEF SoFar
<1>2. QED
    BY <1>1 DEF DeleteTalk, OutboxInv

LEMMA InitOutboxInv == OutboxInit => OutboxInv
<1> SUFFICES ASSUME OutboxInit PROVE OutboxInv
    OBVIOUS
<1>1. ASSUME NEW m \in Mail PROVE SoFar(m)
    BY CallsNumbered DEF OutboxInit, SoFar
<1>2. QED
    BY <1>1 DEF OutboxInit, OutboxInv

LEMMA StepOutboxInv == OutboxInv /\ [OutboxNext]_outboxVars => OutboxInv'
<1> SUFFICES ASSUME OutboxInv, [OutboxNext]_outboxVars PROVE OutboxInv'
    OBVIOUS
<1>1. ASSUME NEW m \in Mail, SaveText(m) \/ SaveImage(m) \/ SaveCarousel(m) PROVE OutboxInv'
    BY <1>1, SavedKeeps DEF SaveText, SaveImage, SaveCarousel
<1>2. CASE UNCHANGED outboxVars
    BY <1>2 DEF outboxVars, OutboxInv, SoFar
<1>3. QED
    BY <1>1, <1>2, StartNoticeKeeps, CallKeeps, BrokenKeeps, RecordKeeps, DeleteKeeps DEF OutboxNext

\* For any number of messages, of any length and kind, the inbox shows what the customer has: "sent" and "failed" are
\* true, parts arrive without a gap, and nothing arrives that has no row.
THEOREM ShownAsArrived == OutboxSpec => []InboxShowsWhatArrived
<1>1. OutboxInv => InboxShowsWhatArrived
    <2> SUFFICES ASSUME OutboxInv, NEW m \in Mail
                 PROVE  /\ row[m] = "sent" => \A k \in Calls(m) : Checked(m, k) => k \in arrived[m]
                        /\ row[m] = "failed" => arrived[m] # Calls(m)
                        /\ \A k \in arrived[m] : \A j \in Calls(m) : j < k => j \in arrived[m]
                        /\ arrived[m] # {} /\ ~Notice(m) => row[m] # "none"
        BY DEF InboxShowsWhatArrived
    <2>1. SoFar(m) /\ NCalls(m) \in Nat /\ Calls(m) = 1 .. NCalls(m)
        BY CallsNumbered DEF OutboxInv
    <2>2. \A k \in arrived[m] : \A j \in Calls(m) : j < k => j \in arrived[m]
        BY <2>1 DEF SoFar
    <2>3. arrived[m] # {} => sender[m] # "idle"
        BY <2>1 DEF SoFar
    <2>4. QED
        BY <2>1, <2>2, <2>3 DEF SoFar
<1>2. QED
    BY <1>1, InitOutboxInv, StepOutboxInv, PTL DEF OutboxSpec

-----------------------------------------------------------------------------
(* The front office.  CardsInv and OutboxInv hold the types of two parts   *)
(* but for a stage; what a request of the checkout page is going to write  *)
(* is a column's value, which types the parcel it is merged into.          *)

CardsTypes == CardsInv /\ \A c \in Clerk : clerk[c].stage \in {"rest", "write"}

\* For any number of cards and requests every variable of the cards keeps its type.
THEOREM CardsTyped == CardsSpec => []CardsTypeOK
<1>1. CardsInit => CardsTypes
    BY InitCardsInv DEF CardsInit, CardsTypes, AtRest
<1>2. CardsTypes /\ [CardsNext]_cardVars => CardsTypes'
    <2> SUFFICES ASSUME CardsTypes, [CardsNext]_cardVars, NEW d \in Clerk PROVE clerk'[d].stage \in {"rest", "write"}
        BY StepCardsInv DEF CardsTypes
    <2> USE DEF CardsTypes, CardsInv, AtRest
    <2>1. ASSUME NEW c \in Clerk, Commit(c) PROVE clerk'[d].stage \in {"rest", "write"}
        <3>1. clerk' = Seen(c)
            BY <2>1 DEF Commit
        <3>2. QED
            BY <3>1 DEF Seen
    <2>2. ASSUME NEW c \in Clerk, NEW k \in Card, NEW primary \in BOOLEAN, Fail(c) \/ Open(c, k, primary)
          PROVE  clerk'[d].stage \in {"rest", "write"}
        BY <2>2 DEF Fail, Open
    <2>3. ASSUME NEW c \in Clerk, Fail(c) PROVE clerk'[d].stage \in {"rest", "write"}
        BY <2>3 DEF Fail
    <2>4. CASE UNCHANGED clerk
        BY <2>4
    <2>5. QED
        BY <2>1, <2>2, <2>3, <2>4 DEF CardsNext, SetActive, DeleteCard, cardVars
<1>3. CardsTypes => CardsTypeOK
    BY DEF CardsTypes, CardsInv, CardsTypeOK, Rows
<1>4. QED
    BY <1>1, <1>2, <1>3, PTL DEF CardsSpec

\* For any messages, of any length, every variable of the outbox keeps its type: no call is made or arrives beyond
\* those of the message.
THEOREM OutboxTyped == OutboxSpec => []OutboxTypeOK
<1> DEFINE Typed == OutboxInv /\ open \in BOOLEAN
<1>1. OutboxInit => Typed
    BY InitOutboxInv DEF OutboxInit
<1>2. Typed /\ [OutboxNext]_outboxVars => Typed'
    <2>1. ASSUME open \in BOOLEAN, [OutboxNext]_outboxVars PROVE open' \in BOOLEAN
        BY <2>1 DEF OutboxNext, outboxVars, SaveText, SaveImage, SaveCarousel, Saved, StartNotice, Accepted, Refused,
                    Broken, Record, DeleteTalk
    <2>2. QED
        BY <2>1, StepOutboxInv
<1>3. Typed => OutboxTypeOK
    <2> SUFFICES ASSUME OutboxInv, open \in BOOLEAN PROVE OutboxTypeOK
        OBVIOUS
    <2>1. ASSUME NEW m \in Mail PROVE made[m] \in 0 .. Cardinality(Calls(m)) /\ arrived[m] \subseteq Calls(m)
        <3>1. made[m] \in 0 .. NCalls(m) /\ arrived[m] \subseteq 1 .. made[m]
            BY DEF OutboxInv, SoFar
        <3>2. NCalls(m) \in Nat /\ Calls(m) = 1 .. NCalls(m)
            BY CallsNumbered
        <3>3. 1 .. made[m] \subseteq 1 .. NCalls(m)
            BY <3>1, <3>2
        <3>4. QED
            BY <3>1, <3>2, <3>3 DEF NCalls
    <2>2. QED
        BY <2>1 DEF OutboxInv, OutboxTypeOK
<1>4. QED
    BY <1>1, <1>2, <1>3, PTL DEF OutboxSpec

\* What each column of a parcel may hold.
ColumnRange ==
    [status |-> {"awaiting_address", "ready", "dispatched", "delivered"}, type |-> {NoValue, "Toshkent", "BTS"},
     branch |-> Branch \cup {NoValue}, point |-> Point \cup {NoValue}, text |-> {NoValue, "given"}]

Fits(columns) == \A f \in DOMAIN columns : f \in Column /\ columns[f] \in ColumnRange[f]

CheckoutTypes ==
    /\ CheckoutInv
    /\ link \in [Link -> {"none", "issued", "used", "expired"}]
    /\ twice \subseteq Link /\ raced \subseteq Link
    /\ parcel # <<>> => Fits(parcel)
    /\ \A v \in Visit : visit[v].stage # "idle" => Fits(visit[v].writes)

LEMMA RowsFit ==
    /\ Fits(NewParcel)
    /\ \A p \in Point : \A chosen \in Branch \cup {NoValue} : Fits(Confirmed(p, chosen))
    /\ \A type \in {"Toshkent", "BTS"} : Fits(Texted(type))
<1>1. Fits(NewParcel)
    BY DEF Fits, NewParcel, Column, ColumnRange
<1>2. ASSUME NEW p \in Point, NEW chosen \in Branch \cup {NoValue} PROVE Fits(Confirmed(p, chosen))
    <2>1. TypeOfPoint(p) \in {"Toshkent", "BTS"} /\ BranchOf(p, chosen) \in Branch \cup {NoValue}
        BY CheckoutAssumption DEF TypeOfPoint, BranchOf
    <2>2. QED
        BY <2>1 DEF Fits, Confirmed, Column, ColumnRange
<1>3. ASSUME NEW type \in {"Toshkent", "BTS"} PROVE Fits(Texted(type))
    BY DEF Fits, Texted, Column, ColumnRange
<1>4. QED
    BY <1>1, <1>2, <1>3

LEMMA ChangesFit ==
    ASSUME NEW values, NEW read, Fits(values)
    PROVE  Fits(Changes(values, read))
BY DEF Fits, Changes, Written

LEMMA MergedFits ==
    ASSUME NEW v \in Visit, Fits(Found), Fits(visit[v].writes)
    PROVE  Fits(Merged(v))
<1>1. DOMAIN Merged(v) = DOMAIN Found
    BY DEF Merged
<1>2. ASSUME NEW f \in DOMAIN Found PROVE Merged(v)[f] \in ColumnRange[f]
    BY <1>2 DEF Merged, Fits
<1>3. QED
    BY <1>1, <1>2 DEF Fits

LEMMA StepCheckoutTypes == CheckoutTypes /\ [CheckoutNext]_checkoutVars => CheckoutTypes'
<1> SUFFICES ASSUME CheckoutTypes, [CheckoutNext]_checkoutVars PROVE CheckoutTypes'
    OBVIOUS
<1> DEFINE Links == link \in [Link -> {"none", "issued", "used", "expired"}] /\ twice \subseteq Link /\ raced \subseteq Link
           Parcels == parcel # <<>> => Fits(parcel)
           Writes == \A v \in Visit : visit[v].stage # "idle" => Fits(visit[v].writes)
<1>0. Links /\ Parcels /\ Writes /\ CheckoutInv /\ CheckoutInv'
    BY StepCheckoutInv DEF CheckoutTypes
<1>1. DOMAIN visit = Visit
    BY <1>0 DEF CheckoutInv, CheckoutShaped
<1>2. ASSUME NEW l \in Link, CreateLink(l) \/ Expire(l) PROVE Links' /\ Parcels' /\ Writes'
    BY <1>0, <1>2, RowsFit DEF CreateLink, Expire, Found
<1>3. ASSUME NEW v \in Visit, NEW l \in Link, NEW p \in Point, NEW chosen \in Branch \cup {NoValue},
             OpenConfirm(v, l, p, chosen)
      PROVE  Links' /\ Parcels' /\ Writes'
    <2>1. Links' /\ Parcels'
        BY <1>0, <1>3 DEF OpenConfirm
    <2>2. visit'[v].writes = Changes(Confirmed(p, chosen), parcel) /\ \A u \in Visit : u # v => visit'[u] = visit[u]
        BY <1>1, <1>3 DEF OpenConfirm
    <2>3. Fits(Changes(Confirmed(p, chosen), parcel))
        BY RowsFit, ChangesFit
    <2>4. QED
        BY <1>0, <2>1, <2>2, <2>3
<1>4. ASSUME NEW v \in Visit, NEW type \in {"Toshkent", "BTS"}, OpenText(v, type) PROVE Links' /\ Parcels' /\ Writes'
    <2>1. Links' /\ Parcels'
        BY <1>0, <1>4 DEF OpenText
    <2>2. visit'[v].writes = Changes(Texted(type), Found) /\ \A u \in Visit : u # v => visit'[u] = visit[u]
        BY <1>1, <1>4 DEF OpenText, FreeVisit
    <2>3. Fits(Changes(Texted(type), Found))
        BY RowsFit, ChangesFit
    <2>4. QED
        BY <1>0, <2>1, <2>2, <2>3
<1>5. ASSUME NEW v \in Visit, CommitConfirm(v) \/ CommitText(v) PROVE Links' /\ Parcels' /\ Writes'
    <2>1. Fits(visit[v].writes) /\ Fits(Found)
        BY <1>0, <1>5, RowsFit DEF CommitConfirm, CommitText, Found
    <2>2. Parcels'
        <3>1. parcel' = Merged(v)
            BY <1>5 DEF CommitConfirm, CommitText
        <3>2. Fits(Merged(v))
            BY <2>1, MergedFits
        <3>3. QED
            BY <3>1, <3>2
    <2>3. visit' = AllStale(v, [visit EXCEPT ![v] = FreeVisit])
        BY <1>5 DEF CommitConfirm, CommitText
    <2>4. ASSUME NEW u \in Visit, visit'[u].stage # "idle" PROVE Fits(visit'[u].writes)
        <3>0. visit'[v] = FreeVisit /\ (u # v => visit'[u].stage = visit[u].stage)
            BY <1>0, <2>3, VisitsStale
        <3>1. u # v /\ visit'[u].stage = visit[u].stage
            BY <2>4, <3>0 DEF FreeVisit
        <3>2. visit'[u].writes = visit[u].writes
            BY <1>0, <1>1, <2>3, <3>1 DEF AllStale, CheckoutInv, CheckoutShaped
        <3>3. QED
            BY <1>0, <2>4, <3>1, <3>2
    <2>5. Links'
        <3>1. CASE CommitConfirm(v)
            <4>1. visit[v].link \in Link
                BY <1>0, <3>1 DEF CommitConfirm, CheckoutInv, CheckoutShaped, Confirming
            <4>2. QED
                BY <1>0, <3>1, <4>1 DEF CommitConfirm
        <3>2. CASE CommitText(v)
            BY <1>0, <3>2 DEF CommitText
        <3>3. QED
            BY <1>5, <3>1, <3>2
    <2>6. QED
        BY <2>2, <2>4, <2>5
<1>6. ASSUME NEW v \in Visit, Leave(v) PROVE Links' /\ Parcels' /\ Writes'
    BY <1>0, <1>1, <1>6 DEF Leave, FreeVisit
<1>7. ASSUME UpdateStatus("delivered") PROVE Links' /\ Parcels' /\ Writes'
    <2>1. Fits(parcel) /\ DOMAIN parcel = Column /\ parcel' = [parcel EXCEPT !.status = "delivered"]
        BY <1>0, <1>7 DEF UpdateStatus, CheckoutInv, CheckoutShaped
    <2>2. DOMAIN parcel' = Column /\ \A f \in Column : parcel'[f] = IF f = "status" THEN "delivered" ELSE parcel[f]
        BY <2>1 DEF Column
    <2>3. "delivered" \in ColumnRange["status"]
        BY DEF ColumnRange
    <2>4. Parcels'
        BY <2>1, <2>2, <2>3 DEF Fits
    <2>5. UNCHANGED <<link, visit, twice, raced>>
        BY <1>7 DEF UpdateStatus
    <2>6. QED
        BY <1>0, <2>4, <2>5
<1>8. ASSUME UNCHANGED checkoutVars PROVE Links' /\ Parcels' /\ Writes'
    BY <1>0, <1>8 DEF checkoutVars
<1> HIDE DEF Links, Parcels, Writes
<1>9. Links' /\ Parcels' /\ Writes'
    BY <1>2, <1>3, <1>4, <1>5, <1>6, <1>7, <1>8 DEF CheckoutNext
<1>10. CheckoutInv' /\ Links' /\ Parcels' /\ Writes' => CheckoutTypes'
    BY DEF CheckoutTypes, Links, Parcels, Writes
<1>11. QED
    BY <1>0, <1>9, <1>10

\* For any links, points and requests every variable of the checkout page keeps its type: no column of the parcel is
\* written with what another column holds, and its branch is an active one.
THEOREM CheckoutTyped == CheckoutSpec => []CheckoutTypeOK
<1>1. CheckoutInit => CheckoutTypes
    BY InitCheckoutInv DEF CheckoutInit, CheckoutTypes, FreeVisit
<1>2. CheckoutTypes => CheckoutTypeOK
    <2> SUFFICES ASSUME CheckoutTypes PROVE CheckoutTypeOK
        OBVIOUS
    <2>1. ASSUME parcel # <<>> PROVE \A f \in Column : parcel[f] \in ColumnRange[f]
        BY <2>1 DEF CheckoutTypes, CheckoutInv, CheckoutShaped, Fits
    <2>2. parcel # <<>> =>
              /\ parcel.status \in {"awaiting_address", "ready", "dispatched", "delivered"}
              /\ parcel.type \in {NoValue, "Toshkent", "BTS"} /\ parcel.branch \in Branch \cup {NoValue}
              /\ parcel.point \in Point \cup {NoValue} /\ parcel.text \in {NoValue, "given"}
        BY <2>1 DEF Column, ColumnRange
    <2>3. \A v \in Visit : visit[v].stage \in {"idle", "confirm", "text", "insert"}
        BY DEF CheckoutTypes, CheckoutInv, CheckoutShaped
    <2>4. QED
        BY <2>2, <2>3 DEF CheckoutTypes, CheckoutTypeOK
<1>3. QED
    BY <1>1, <1>2, StepCheckoutTypes, PTL DEF CheckoutSpec

\* The composition starts and moves each part as the part's own specification does, with the fairness it asks for.
THEOREM FrontOfficeParts ==
    Spec => InboxSpec /\ OutboxSpec /\ CheckoutSpec /\ StoriesSpec /\ CardsSpec /\ CatalogSpec
<1>1. Init => InboxInit /\ OutboxInit /\ CheckoutInit /\ StoriesInit /\ CardsInit /\ CatalogInit
    BY DEF Init
<1>2. [Next]_frontOffice => [InboxNext]_inboxVars
    BY DEF Next, frontOffice
<1>3. [Next]_frontOffice => [OutboxNext]_outboxVars
    BY DEF Next, frontOffice
<1>4. [Next]_frontOffice => [CheckoutNext]_checkoutVars
    BY DEF Next, frontOffice
<1>5. [Next]_frontOffice => [StoriesNext]_storyVars
    BY DEF Next, frontOffice
<1>6. [Next]_frontOffice => [CardsNext]_cardVars
    BY DEF Next, frontOffice
<1>7. [Next]_frontOffice => [CatalogNext]_catalogVars
    BY DEF Next, frontOffice
<1>8. QED
    BY <1>1, <1>2, <1>3, <1>4, <1>5, <1>6, <1>7, PTL
    DEF Spec, InboxSpec, OutboxSpec, CheckoutSpec, StoriesSpec, CardsSpec, CatalogSpec

\* Every variable of the front office keeps its type, for any customers, messages, links, stories, cards and products.
THEOREM FrontOfficeTyped == Spec => []TypeOK
<1>1. StoriesInit => StoriesTypeOK
    BY DEF StoriesInit, StoriesTypeOK
<1>2. InboxTypeOK /\ OutboxTypeOK /\ CheckoutTypeOK /\ StoriesTypeOK /\ CardsTypeOK /\ CatalogTypeOK => TypeOK
    BY DEF TypeOK
<1>3. QED
    BY <1>1, <1>2, FrontOfficeParts, StepStoriesTypeOK, InboxTyped, OutboxTyped, CheckoutTyped, CardsTyped, CatalogTyped,
       PTL DEF StoriesSpec
=============================================================================
