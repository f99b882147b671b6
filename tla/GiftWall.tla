------------------------------ MODULE GiftWall ------------------------------
(***************************************************************************)
(* The wishlist hearts of one product (wishes.service.ts), what creating   *)
(* and cancelling gifts of that product does to them (gifts.service.ts),   *)
(* and the posts that share those gifts (gift-posts.service.ts): hearting  *)
(* and unhearting, publishing, appreciating.                               *)
(*                                                                         *)
(* Three counters are kept beside the rows they count: the product's       *)
(* wishlistedByCount and giftedByCount, and each post's appreciationCount. *)
(* Only the last one moves in the transaction of its row.                  *)
(*                                                                         *)
(* All gifts are for one receiver, who is one of the fans of the product;  *)
(* each has at most one post, the sender's.                                *)
(***************************************************************************)
EXTENDS Integers, FiniteSets

CONSTANTS
    Fans,         \* people with a wishlist; they also appreciate posts
    Receiver,     \* the one the gifts are for
    Taps,         \* requests under way at the same time
    Presents,     \* gifts of the product
    MaxTaps       \* bound on the requests of a behaviour

ASSUME WallAssumption ==
    /\ Receiver \in Fans /\ MaxTaps \in Nat
    /\ IsFiniteSet(Fans) /\ IsFiniteSet(Taps) /\ IsFiniteSet(Presents)

VARIABLES
    wish,         \* the Wish row of each fan for the product
    hearts,       \* Product.wishlistedByCount
    present,      \* status of each gift
    gifted,       \* Product.giftedByCount
    post,         \* the GiftPost of each gift
    liked,        \* GiftPostAppreciation rows, pairs of gift and fan
    likes,        \* GiftPost.appreciationCount
    pinged,       \* GiftPostAppreciated notifications of the day, by gift
    tap,          \* the requests
    taps,
    crossed,      \* history: fans two of whose heart requests overlapped
    raced,        \* history: gifts cancelled while a publish was under way
    slipped       \* history: hooks that failed and were swallowed

productVars == <<wish, hearts, present, gifted, slipped>>
postVars == <<post, liked, likes, pinged>>
wallVars == <<productVars, postVars, tap, taps, crossed, raced>>

NoTap == [pc |-> "idle", fan |-> Receiver, gift |-> "none", found |-> FALSE]
NoPost == [exists |-> FALSE, published |-> FALSE, public |-> FALSE, dead |-> FALSE]

WallInit ==
    /\ wish = [f \in Fans |-> "none"] /\ hearts = 0
    /\ present = [g \in Presents |-> "none"] /\ gifted = 0
    /\ post = [g \in Presents |-> NoPost]
    /\ liked = {} /\ likes = [g \in Presents |-> 0] /\ pinged = [g \in Presents |-> 0]
    /\ tap = [t \in Taps |-> NoTap] /\ taps = 0
    /\ crossed = {} /\ raced = {} /\ slipped = 0

TapGoes(t, r) == tap' = [tap EXCEPT ![t] = r]
TapAt(t, pc) == TapGoes(t, [tap[t] EXCEPT !.pc = pc])
TapEnds(t) == TapGoes(t, NoTap)
NewTap(t) == tap[t] = NoTap /\ taps < MaxTaps /\ taps' = taps + 1

Hearting == {"upsert", "count", "delete", "uncount"}
Crosses(f) == crossed' = IF \E t \in Taps : tap[t].pc \in Hearting /\ tap[t].fan = f
                         THEN crossed \cup {f} ELSE crossed

-----------------------------------------------------------------------------
\* create with a product: is there a row, the upsert, and the count if there was none.
Heart(t, f) ==
    /\ NewTap(t)
    /\ TapGoes(t, [NoTap EXCEPT !.pc = "upsert", !.fan = f, !.found = wish[f] # "none"])
    /\ Crosses(f)
    /\ UNCHANGED <<productVars, postVars, raced>>

CountsAgain(t) == TRUE

CountsHeart(t) == ~tap[t].found

\* The upsert clears a fulfilment; the visibility stays as it was.
HeartUpsert(t) ==
    /\ tap[t].pc = "upsert"
    /\ wish' = [wish EXCEPT ![tap[t].fan] = "live"]
    /\ IF CountsHeart(t) THEN TapAt(t, "count") ELSE TapEnds(t)
    /\ UNCHANGED <<hearts, present, gifted, slipped, postVars, taps, crossed, raced>>

HeartCount(t) ==
    /\ tap[t].pc = "count" /\ hearts' = hearts + 1 /\ TapEnds(t)
    /\ UNCHANGED <<wish, present, gifted, slipped, postVars, taps, crossed, raced>>

\* remove and removeByProduct: find the row, delete it by id, then decrement.
\* A delete that finds no row throws.
Unheart(t, f) ==
    /\ NewTap(t) /\ wish[f] # "none"
    /\ TapGoes(t, [NoTap EXCEPT !.pc = "delete", !.fan = f])
    /\ Crosses(f)
    /\ UNCHANGED <<productVars, postVars, raced>>

UnheartDelete(t) ==
    /\ tap[t].pc = "delete"
    /\ IF wish[tap[t].fan] = "none" THEN TapEnds(t) /\ UNCHANGED wish
       ELSE TapAt(t, "uncount") /\ wish' = [wish EXCEPT ![tap[t].fan] = "none"]
    /\ UNCHANGED <<hearts, present, gifted, slipped, postVars, taps, crossed, raced>>

UnheartCount(t) ==
    /\ tap[t].pc = "uncount" /\ hearts' = hearts - 1 /\ TapEnds(t)
    /\ UNCHANGED <<wish, present, gifted, slipped, postVars, taps, crossed, raced>>

-----------------------------------------------------------------------------
\* gifts.create after its insert: fulfil the receiver's wish, then count the gift.
GiveGift(t, g) ==
    /\ NewTap(t) /\ present[g] = "none"
    /\ present' = [present EXCEPT ![g] = "live"]
    /\ TapGoes(t, [NoTap EXCEPT !.pc = "fulfil", !.gift = g])
    /\ UNCHANGED <<wish, hearts, gifted, slipped, postVars, crossed, raced>>

FulfilWish(t) ==
    /\ tap[t].pc = "fulfil"
    /\ wish' = [wish EXCEPT ![Receiver] = IF @ = "live" THEN "fulfilled" ELSE @]
    /\ TapAt(t, "gifted")
    /\ UNCHANGED <<hearts, present, gifted, slipped, postVars, taps, crossed, raced>>

\* Each hook is swallowed when it fails.
HookFails(t) ==
    /\ tap[t].pc \in {"gifted", "ungifted"}
    /\ slipped' = slipped + (IF tap[t].pc = "gifted" THEN 1 ELSE -1)
    /\ IF tap[t].pc = "gifted" THEN TapEnds(t) ELSE TapAt(t, "cascade")
    /\ UNCHANGED <<wish, hearts, present, gifted, postVars, taps, crossed, raced>>

CountGift(t) ==
    /\ tap[t].pc = "gifted" /\ gifted' = gifted + 1 /\ TapEnds(t)
    /\ UNCHANGED <<wish, hearts, present, slipped, postVars, taps, crossed, raced>>

CancelsAnyGift(g) == present[g] # "none"

\* The cancel goes on only when its conditional update has found the gift.
CancelsLive(g) == present[g] = "live"

CancelGift(t, g) ==
    /\ NewTap(t) /\ CancelsLive(g)
    /\ present' = [present EXCEPT ![g] = "cancelled"]
    /\ TapGoes(t, [NoTap EXCEPT !.pc = "unfulfil", !.gift = g])
    /\ raced' = IF \E u \in Taps : tap[u].pc \in {"find", "publish"} /\ tap[u].gift = g
                THEN raced \cup {g} ELSE raced
    /\ UNCHANGED <<wish, hearts, gifted, slipped, postVars, crossed>>

UnfulfilWish(t) ==
    /\ tap[t].pc = "unfulfil"
    /\ wish' = [wish EXCEPT ![Receiver] = IF @ = "fulfilled" THEN "live" ELSE @]
    /\ TapAt(t, "ungifted")
    /\ UNCHANGED <<hearts, present, gifted, slipped, postVars, taps, crossed, raced>>

UncountGift(t) ==
    /\ tap[t].pc = "ungifted" /\ gifted' = gifted - 1 /\ TapAt(t, "cascade")
    /\ UNCHANGED <<wish, hearts, present, slipped, postVars, taps, crossed, raced>>

\* The post is deactivated, not deleted; its slug and its appreciations stay.
CascadeToPost(t) ==
    /\ tap[t].pc = "cascade"
    /\ post' = [post EXCEPT ![tap[t].gift].dead = @ \/ post[tap[t].gift].exists]
    /\ TapEnds(t)
    /\ UNCHANGED <<productVars, liked, likes, pinged, taps, crossed, raced>>

-----------------------------------------------------------------------------
PublishableAlways(g) == present[g] # "none"

\* publish: a cancelled gift is not shared.
Publishable(g) == present[g] = "live"

Publish(t, g) ==
    /\ NewTap(t) /\ Publishable(g)
    /\ TapGoes(t, [NoTap EXCEPT !.pc = "find", !.gift = g])
    /\ UNCHANGED <<productVars, postVars, crossed, raced>>

\* A post that is already published is returned as it is.
PublishFinds(t) ==
    /\ tap[t].pc = "find"
    /\ IF post[tap[t].gift].published THEN TapEnds(t) ELSE TapAt(t, "publish")
    /\ UNCHANGED <<productVars, postVars, taps, crossed, raced>>

\* A first publish and a publish after unpublish end alike: visible, not deactivated.
PublishWrites(t, public) ==
    /\ tap[t].pc = "publish"
    /\ post' = [post EXCEPT ![tap[t].gift] = [exists |-> TRUE, published |-> TRUE, public |-> public, dead |-> FALSE]]
    /\ TapEnds(t)
    /\ UNCHANGED <<productVars, liked, likes, pinged, taps, crossed, raced>>

\* unpublish and setVisibility are one update each, of a post its owner has.
EditPost(g) ==
    /\ post[g].exists /\ taps < MaxTaps /\ taps' = taps + 1
    /\ \/ post[g].published /\ post' = [post EXCEPT ![g].published = FALSE]
       \/ post' = [post EXCEPT ![g].public = ~@]
    /\ UNCHANGED <<productVars, liked, likes, pinged, tap, crossed, raced>>

Visible(g) == post[g].published /\ post[g].public /\ ~post[g].dead

-----------------------------------------------------------------------------
\* appreciate: the post must be visible; then create, or else delete.
Appreciate(t, f, g) ==
    /\ NewTap(t) /\ Visible(g)
    /\ TapGoes(t, [NoTap EXCEPT !.pc = "like", !.fan = f, !.gift = g])
    /\ UNCHANGED <<productVars, postVars, crossed, raced>>

\* One transaction: the row and the count, or the unique index refuses both.
LikeCreates(t) ==
    /\ tap[t].pc = "like"
    /\ LET g == tap[t].gift
           row == <<g, tap[t].fan>>
       IN IF row \in liked THEN TapAt(t, "unlike") /\ UNCHANGED <<liked, likes>>
          ELSE /\ liked' = liked \cup {row} /\ likes' = [likes EXCEPT ![g] = @ + 1]
               /\ TapAt(t, "throttle")
    /\ UNCHANGED <<productVars, post, pinged, taps, crossed, raced>>

\* A deleteMany, which is content to find nothing.
LikeGoneIsFine(t) == TRUE

\* The delete throws, and takes the decrement with it, when the row is gone.
LikeToDelete(t) == <<tap[t].gift, tap[t].fan>> \in liked

LikeDeletes(t) ==
    /\ tap[t].pc = "unlike"
    /\ IF LikeToDelete(t)
       THEN /\ liked' = liked \ {<<tap[t].gift, tap[t].fan>>}
            /\ likes' = [likes EXCEPT ![tap[t].gift] = @ - 1]
       ELSE UNCHANGED <<liked, likes>>
    /\ TapEnds(t)
    /\ UNCHANGED <<productVars, post, pinged, taps, crossed, raced>>

\* notifyAppreciationThrottled: probe, then send; not one step.
ProbesPing(t) ==
    /\ tap[t].pc = "throttle"
    /\ IF pinged[tap[t].gift] > 0 THEN TapEnds(t) ELSE TapAt(t, "ping")
    /\ UNCHANGED <<productVars, postVars, taps, crossed, raced>>

Pings(t) ==
    /\ tap[t].pc = "ping"
    /\ pinged' = [pinged EXCEPT ![tap[t].gift] = @ + 1] /\ TapEnds(t)
    /\ UNCHANGED <<productVars, post, liked, likes, taps, crossed, raced>>

-----------------------------------------------------------------------------
WallNext ==
    \/ \E t \in Taps, f \in Fans : Heart(t, f) \/ Unheart(t, f)
    \/ \E t \in Taps, g \in Presents : GiveGift(t, g) \/ CancelGift(t, g) \/ Publish(t, g)
    \/ \E t \in Taps, f \in Fans, g \in Presents : Appreciate(t, f, g)
    \/ \E t \in Taps, public \in BOOLEAN : PublishWrites(t, public)
    \/ \E g \in Presents : EditPost(g)
    \/ \E t \in Taps : \/ HeartUpsert(t) \/ HeartCount(t) \/ UnheartDelete(t) \/ UnheartCount(t)
                       \/ FulfilWish(t) \/ CountGift(t) \/ UnfulfilWish(t) \/ UncountGift(t)
                       \/ HookFails(t) \/ CascadeToPost(t) \/ PublishFinds(t)
                       \/ LikeCreates(t) \/ LikeDeletes(t) \/ ProbesPing(t) \/ Pings(t)

WallSpec == WallInit /\ [][WallNext]_wallVars

-----------------------------------------------------------------------------
\* Type invariant of the wishes, the posts and the counters.
WallTypeOK ==
    /\ wish \in [Fans -> {"none", "live", "fulfilled"}] /\ hearts \in Int /\ gifted \in Int
    /\ present \in [Presents -> {"none", "live", "cancelled"}]
    /\ liked \subseteq Presents \X Fans /\ likes \in [Presents -> Nat]
    /\ pinged \in [Presents -> Nat] /\ taps \in 0..MaxTaps

Quiet == \A t \in Taps : tap[t].pc \notin Hearting

\* When no request is between its row and its count, wishlistedByCount is the
\* number of people with the product on their list, whatever gifts do to the
\* rows - provided no two heart requests of one person overlapped.
HeartsCounted ==
    Quiet /\ crossed = {} => hearts = Cardinality({f \in Fans : wish[f] # "none"})

\* When no gift is between its row and its count, giftedByCount is the number
\* of gifts that are not cancelled, up to the hooks that failed ("it stays in
\* lockstep with non-cancelled Gift rows").
GiftedCounted ==
    (\A t \in Taps : tap[t].pc \notin {"fulfil", "gifted", "unfulfil", "ungifted"})
        => gifted + slipped = Cardinality({g \in Presents : present[g] = "live"})

\* appreciationCount is the number of appreciations at every moment, however
\* the taps of one person overlap ("the counter and the row stay in lockstep").
AppreciationsCounted ==
    \A g \in Presents : likes[g] = Cardinality({f \in Fans : <<g, f>> \in liked})

\* Once a cancel is through, the gift's post is not on any wall, and no later
\* publish brings it back - unless a publish was under way when the gift was cancelled.
CancelledNotShown ==
    \A g \in Presents :
        /\ present[g] = "cancelled" /\ g \notin raced
        /\ \A t \in Taps : tap[t].gift # g \/ tap[t].pc \notin {"unfulfil", "ungifted", "cascade"}
        => ~Visible(g)

\* The counters agree with their rows and the posts with their gifts.
WallAgrees ==
    /\ WallTypeOK
    /\ HeartsCounted
    /\ GiftedCounted
    /\ AppreciationsCounted
    /\ CancelledNotShown

\* "re-hearting the same product must not double-count" (wishes.service.ts:145).
\* Does not hold when two taps of one person overlap; the count can also go below zero.
HeartsNeverDoubleCounted ==
    Quiet => hearts = Cardinality({f \in Fans : wish[f] # "none"})

\* "a burst of appreciations within 24h generates ONE ping, not N"
\* (gift-posts.service.ts:356).  Does not hold: the probe and the send are two steps.
OnePingADay == \A g \in Presents : pinged[g] <= 1

\* "if the gift is cancelled" the post "disappears from walls" (gifts.service.ts:1136).
\* Does not hold when a publish that read the gift before the cancel writes after it.
CancelledNeverShown ==
    \A g \in Presents :
        /\ present[g] = "cancelled"
        /\ \A t \in Taps : tap[t].gift # g \/ tap[t].pc \notin {"unfulfil", "ungifted", "cascade"}
        => ~Visible(g)

-----------------------------------------------------------------------------
(***************************************************************************)
(* The inductive invariant: each counter against its rows at every moment, *)
(* with the requests that stand between the two.                           *)
(***************************************************************************)
GiftHooks == {"fulfil", "gifted", "unfulfil", "ungifted"}
Sharing == {"find", "publish"}
Withdrawing == {"unfulfil", "ungifted", "cascade"}
OfAGift == GiftHooks \cup Sharing \cup Withdrawing \cup {"like", "unlike", "throttle", "ping"}
TapRows == [pc : {"idle"} \cup Hearting \cup OfAGift, fan : Fans, gift : Presents \cup {"none"}, found : BOOLEAN]
PostRows == [exists : BOOLEAN, published : BOOLEAN, public : BOOLEAN, dead : BOOLEAN]

TapFits(r) == r \in TapRows /\ (r.pc \in OfAGift => r.gift \in Presents)

Counting == {t \in Taps : tap[t].pc = "count"}
Uncounting == {t \in Taps : tap[t].pc = "uncount"}
Giving == {t \in Taps : tap[t].pc \in {"fulfil", "gifted"}}
Ungiving == {t \in Taps : tap[t].pc \in {"unfulfil", "ungifted"}}
Hearted == {f \in Fans : wish[f] # "none"}
LiveGifts == {g \in Presents : present[g] = "live"}

\* The requests, the posts and the histories are rows of their kind.
WallRows ==
    /\ \A t \in Taps : TapFits(tap[t])
    /\ tap \in [Taps -> TapRows] /\ post \in [Presents -> PostRows]
    /\ raced \subseteq Presents /\ slipped \in Int

\* Without an overlap, each fan has one heart request at a time, and what it
\* has found is still so.
HeartsAlone ==
    crossed = {} =>
        /\ \A t, u \in Taps : /\ tap[t].pc \in Hearting /\ tap[u].pc \in Hearting
                              /\ tap[t].fan = tap[u].fan
                              => t = u
        /\ \A t \in Taps : tap[t].pc = "upsert" => (tap[t].found <=> wish[tap[t].fan] # "none")

\* The hearts on the counter and those on their way to it.
HeartsBalance ==
    crossed = {} =>
        hearts + Cardinality(Counting) - Cardinality(Uncounting) = Cardinality(Hearted)

\* The gifts on the counter, those on their way to it and those that slipped.
GiftsBalance ==
    gifted + slipped + Cardinality(Giving) - Cardinality(Ungiving) = Cardinality(LiveGifts)

\* No publish of a cancelled gift is under way unless the cancel came meanwhile,
\* and the gift's post is dead once the cancel is through.
PostsSwept ==
    /\ \A g \in Presents : post[g].published => post[g].exists
    /\ \A g \in Presents : present[g] = "cancelled" /\ g \notin raced =>
          /\ \A t \in Taps : tap[t].gift # g \/ tap[t].pc \notin Sharing
          /\ (\A t \in Taps : tap[t].gift # g \/ tap[t].pc \notin Withdrawing)
             => (post[g].exists => post[g].dead)

WallInv ==
    /\ WallTypeOK /\ WallRows
    /\ HeartsAlone /\ HeartsBalance
    /\ GiftsBalance
    /\ AppreciationsCounted
    /\ PostsSwept
=============================================================================
