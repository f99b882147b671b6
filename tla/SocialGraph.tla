----------------------------- MODULE SocialGraph -----------------------------
(***************************************************************************)
(* Follows, blocks, privacy, and everything one person may read of another *)
(* (follows.service.ts, blocks.service.ts, the public reads of             *)
(* users.service.ts, of occasions.service.ts and of gift-posts.service.ts).*)
(*                                                                         *)
(* A read is several queries: a block check, the target's flags, the rows, *)
(* and for some lists the viewer's exclusions.  Others block, follow and   *)
(* change their privacy in between.  Reads change nothing, so one read in  *)
(* progress stands for any number of them.                                 *)
(*                                                                         *)
(* What is read is abstracted to whose it is: everybody has sent everybody *)
(* a gift, and has a wish, a live public post and one occasion per tier.   *)
(* An answer is a set of pairs, a person and what is told about that       *)
(* person.  Reading one's own data meets no gate and is left out, and so   *)
(* is what the replies of writes give away (follow's status, an order that *)
(* is refused for want of an address).                                     *)
(***************************************************************************)
EXTENDS Naturals, FiniteSets

CONSTANTS
    People,
    MaxEdits        \* bound on the changes of the graph

ASSUME SocialAssumption == MaxEdits \in Nat

VARIABLES
    follow,         \* Follow rows: [People \X People -> none, pending, accepted]
    blocks,         \* Block rows: pairs of blocker and blocked
    private,        \* profileVisibility = 'private'
    hidden,         \* the show* and allow*Discovery flags that are off: pairs of person and flag
    gone,           \* soft-deleted people
    asking,         \* a follow request between its read and its upsert
    look,           \* the read in progress
    during,         \* history: what held throughout the read, or at some time in it
    edits

graphVars == <<follow, blocks, private, hidden, gone, edits>>
socialVars == <<graphVars, asking, look, during>>

Flags == {"followers", "following", "received", "sent", "contact"}
Tiers == {"private", "followers", "mutual", "public"}
Kinds == {"followers", "following", "received", "sent", "wishes", "profile", "username", "contact",
          "occasions", "upcoming", "wall", "post", "check", "party"}
NoPerson == [a |-> "nobody", b |-> "nobody", status |-> "none"]
NoLook == [pc |-> "idle", kind |-> "profile", viewer |-> "nobody", target |-> "nobody", private |-> FALSE,
           out |-> {}, in |-> {}, rows |-> {}, answer |-> {}]
NoHistory == [barred |-> {}, secret |-> {}, out |-> {}, in |-> {}]

SocialInit ==
    /\ follow = [p \in People \X People |-> "none"]
    /\ blocks = {} /\ private = {} /\ gone = {} /\ hidden = {}
    /\ asking = NoPerson /\ look = NoLook /\ during = NoHistory /\ edits = 0

Edited == edits < MaxEdits /\ edits' = edits + 1

-----------------------------------------------------------------------------
\* follow reads the target's visibility, then upserts with an empty update: a
\* row that is there keeps its status.  It asks nothing about blocks.
FollowLoad(a, b) ==
    /\ asking = NoPerson /\ a # b /\ b \notin gone
    /\ asking' = [a |-> a, b |-> b, status |-> IF b \in private THEN "pending" ELSE "accepted"]
    /\ Edited
    /\ UNCHANGED <<follow, blocks, private, hidden, gone, look>>

Upserted(q) == [follow EXCEPT ![<<q.a, q.b>>] = IF @ = "none" THEN q.status ELSE @]

Follow ==
    /\ asking # NoPerson
    /\ follow' = Upserted(asking) /\ asking' = NoPerson
    /\ UNCHANGED <<blocks, private, hidden, gone, look, edits>>

Unfollow(a, b) ==
    /\ a # b /\ follow[<<a, b>>] # "none" /\ Edited
    /\ follow' = [follow EXCEPT ![<<a, b>>] = "none"]
    /\ UNCHANGED <<blocks, private, hidden, gone, asking, look>>

\* The block and the end of the follows in both directions are one transaction.
Block(a, b) ==
    /\ a # b /\ b \notin gone /\ <<a, b>> \notin blocks /\ Edited
    /\ blocks' = blocks \cup {<<a, b>>}
    /\ follow' = [follow EXCEPT ![<<a, b>>] = "none", ![<<b, a>>] = "none"]
    /\ UNCHANGED <<private, hidden, gone, asking, look>>

Unblock(a, b) ==
    /\ <<a, b>> \in blocks /\ Edited
    /\ blocks' = blocks \ {<<a, b>>}
    /\ UNCHANGED <<follow, private, hidden, gone, asking, look>>

\* updatePrivacy writes only what the body names.
UpdateVisibility(p) ==
    /\ Edited
    /\ private' = IF p \in private THEN private \ {p} ELSE private \cup {p}
    /\ UNCHANGED <<follow, blocks, hidden, gone, asking, look>>

UpdateFlag(p, f) ==
    /\ Edited
    /\ hidden' = IF <<p, f>> \in hidden THEN hidden \ {<<p, f>>} ELSE hidden \cup {<<p, f>>}
    /\ UNCHANGED <<follow, blocks, private, gone, asking, look>>

\* The administrator's soft delete and restore, as far as these reads see it.
SetDeleted(p) ==
    /\ Edited
    /\ gone' = IF p \in gone THEN gone \ {p} ELSE gone \cup {p}
    /\ UNCHANGED <<follow, blocks, private, hidden, asking, look>>

-----------------------------------------------------------------------------
\* A block that only hides the blocked person from the blocker.
BlockedByViewer(v, t) == <<v, t>> \in blocks

\* isBlockedEitherWay of blocks.service.ts and of gift-posts.service.ts.
BlockedEitherWay(v, t) == <<v, t>> \in blocks \/ <<t, v>> \in blocks

\* listExcludedIds
Excluded(v) == {p \in People : <<v, p>> \in blocks \/ <<p, v>> \in blocks}

PendingCounts(a, b) == follow[<<a, b>>] # "none"

Accepted(a, b) == follow[<<a, b>>] = "accepted"

Go(pc) == look' = [look EXCEPT !.pc = pc]
Answer(told) == look' = [look EXCEPT !.pc = "answered", !.answer = told]
Refuse == Answer({})

\* Reads that ask nothing about blocks: /users/check, and the page of a post
\* when the viewer is a party to its gift.
UncheckedKinds == {"check", "party"}

Begin(v, t, kind) ==
    /\ look = NoLook /\ v # t /\ v \notin gone
    /\ look' = [NoLook EXCEPT !.kind = kind, !.viewer = v, !.target = t,
                    !.pc = CASE kind = "profile" -> "user"
                             [] kind \in {"username", "contact"} -> "exclusions"
                             [] kind \in {"occasions", "upcoming"} -> "context"
                             [] kind \in UncheckedKinds -> "open"
                             [] OTHER -> "gate"]
    /\ UNCHANGED <<graphVars, asking>>

\* The block check of the lists, of the wall and of a post's page.
Gate ==
    /\ look.pc = "gate"
    /\ IF BlockedEitherWay(look.viewer, look.target) THEN Refuse
       ELSE IF look.kind \in {"wall", "post"} THEN Go("rows") ELSE Go("target")
    /\ UNCHANGED <<graphVars, asking>>

FlagOnly(t, kind) == <<t, kind>> \notin hidden

\* loadTargetWithFlags and assertLiveUser: a private profile hides every list
\* whatever its flags; wishes have no flag of their own.
Shown(t, kind) == t \notin private /\ <<t, kind>> \notin hidden

Target ==
    /\ look.pc = "target"
    /\ IF look.target \notin gone /\ Shown(look.target, look.kind) THEN Go("rows") ELSE Refuse
    /\ UNCHANGED <<graphVars, asking>>

\* The rows of the lists: deleted people are not among them.
Followers(t) == {p \in People \ (gone \cup {t}) : Accepted(p, t)}
Following(t) == {p \in People \ (gone \cup {t}) : Accepted(t, p)}
GiftParties(t) == People \ (gone \cup {t})

\* Gifts name the other side (an anonymous gift names nobody and is left out);
\* wishes and posts are the target's.  The follow lists have one query more.
Rows ==
    /\ look.pc = "rows"
    /\ LET named == CASE look.kind = "followers" -> Followers(look.target)
                      [] look.kind = "following" -> Following(look.target)
                      [] look.kind \in {"received", "sent"} -> GiftParties(look.target)
                      [] OTHER -> {}
       IN IF look.kind \in {"followers", "following"}
          THEN look' = [look EXCEPT !.pc = "filter", !.rows = named]
          ELSE Answer({<<look.target, look.kind>>} \cup {<<p, "identity">> : p \in named})
    /\ UNCHANGED <<graphVars, asking>>

Filter ==
    /\ look.pc = "filter"
    /\ Answer({<<look.target, look.kind>>} \cup {<<p, "identity">> : p \in look.rows \ Excluded(look.viewer)})
    /\ UNCHANGED <<graphVars, asking>>

\* getPublicProfile reads the user, then the block, then what the flags it has read allow.
ProfileUser ==
    /\ look.pc = "user"
    /\ IF look.target \in gone THEN Refuse
       ELSE look' = [look EXCEPT !.pc = "profile", !.private = look.target \in private,
                                 !.rows = {f \in Flags \ {"contact"} : Shown(look.target, f)}]
    /\ UNCHANGED <<graphVars, asking>>

Profile ==
    /\ look.pc = "profile"
    /\ IF BlockedEitherWay(look.viewer, look.target) THEN Refuse
       ELSE Answer({<<look.target, "identity">>}
                   \cup (IF look.private THEN {} ELSE {<<look.target, f>> : f \in look.rows \cup {"bio"}}))
    /\ UNCHANGED <<graphVars, asking>>

\* searchUsers: the exclusions first, then one query.  A contact channel
\* finds only those who opted in and are public; a username finds anybody.
SearchExclusions ==
    /\ look.pc = "exclusions"
    /\ look' = [look EXCEPT !.pc = "search", !.out = Excluded(look.viewer)]
    /\ UNCHANGED <<graphVars, asking>>

Search ==
    /\ look.pc = "search"
    /\ LET t == look.target
           found == /\ t \notin gone \cup look.out
                    /\ (look.kind = "contact" => Shown(t, "contact"))
       IN IF found THEN Answer({<<t, look.kind>>}) ELSE Refuse
    /\ UNCHANGED <<graphVars, asking>>

\* listUpcomingForFollowed: whom the viewer follows, without the excluded.
Followed(v) == {p \in People \ {v} : Accepted(v, p)} \ Excluded(v)

\* buildViewerContext: who is blocked and the two follow edges.
OccasionContext ==
    /\ look.pc = "context"
    /\ LET owners == Followed(look.viewer)
       IN look' = [look EXCEPT !.pc = "tiers",
                       !.out = IF look.kind = "upcoming" THEN owners ELSE owners \cap {look.target},
                       !.rows = IF look.kind = "upcoming" THEN owners
                                ELSE {look.target} \ Excluded(look.viewer)]
    /\ UNCHANGED <<graphVars, asking>>

\* canSeeOccasion: each row of an owner by its tier.  The reverse edges come from one more query.
SeesTier(out, in, tier) ==
    CASE tier = "private" -> FALSE
      [] tier = "public" -> TRUE
      [] tier = "followers" -> out
      [] OTHER -> out /\ in

\* projectOccasionForViewer: a row the viewer may not see is dropped.
Projected(owners, out, in) == {q \in owners \X Tiers : SeesTier(q[1] \in out, q[1] \in in, q[2])}

Occasions ==
    /\ look.pc = "tiers"
    /\ Answer(Projected(look.rows, look.out, {p \in look.rows : Accepted(p, look.viewer)}))
    /\ UNCHANGED <<graphVars, asking>>

\* checkByUsername confirms any live person to a sender: name, picture, public
\* or private, and whether a delivery can reach them.  The parties of a gift
\* see its post always.
Open ==
    /\ look.pc = "open"
    /\ IF look.kind = "party" THEN Answer({<<look.target, "party">>})
       ELSE IF look.target \in gone THEN Refuse
       ELSE Answer({<<look.target, "identity">>, <<look.target, "check">>})
    /\ UNCHANGED <<graphVars, asking>>

Close ==
    /\ look.pc = "answered" /\ look' = NoLook
    /\ UNCHANGED <<graphVars, asking>>

-----------------------------------------------------------------------------
SocialStep ==
    \/ \E a, b \in People : FollowLoad(a, b) \/ Unfollow(a, b) \/ Block(a, b) \/ Unblock(a, b)
    \/ Follow
    \/ \E p \in People : UpdateVisibility(p) \/ SetDeleted(p)
    \/ \E p \in People, f \in Flags : UpdateFlag(p, f)
    \/ \E v, t \in People, kind \in Kinds : Begin(v, t, kind)
    \/ Gate \/ Target \/ Rows \/ Filter \/ ProfileUser \/ Profile \/ SearchExclusions \/ Search
    \/ OccasionContext \/ Occasions \/ Open \/ Close

\* History: barred and secret held at every moment of the read so far,
\* out and in at some moment of it.
Observed ==
    LET v == look'.viewer
        barred == {p \in People : <<v, p>> \in blocks' \/ <<p, v>> \in blocks'}
        out == {p \in People \ {v} : follow'[<<v, p>>] = "accepted"}
        in == {p \in People \ {v} : follow'[<<p, v>>] = "accepted"}
        fresh == [barred |-> barred, secret |-> private', out |-> out, in |-> in]
    IN IF look'.pc = "idle" THEN NoHistory
       ELSE IF look.pc = "idle" THEN fresh
       ELSE [barred |-> during.barred \cap barred, secret |-> during.secret \cap private',
             out |-> during.out \cup out, in |-> during.in \cup in]

SocialNext == SocialStep /\ during' = Observed

SocialSpec == SocialInit /\ [][SocialNext]_socialVars

-----------------------------------------------------------------------------
\* Type invariant of the graph and of the answers.
SocialTypeOK ==
    /\ follow \in [People \X People -> {"none", "pending", "accepted"}]
    /\ blocks \subseteq People \X People
    /\ private \subseteq People /\ gone \subseteq People
    /\ hidden \subseteq People \X Flags
    /\ look.answer \subseteq People \X (Flags \cup Kinds \cup Tiers \cup {"identity", "bio"})
    /\ edits \in 0..MaxEdits

Told == {q[1] : q \in look.answer}

\* A block that stands for the whole of a read, in whichever direction,
\* keeps the two apart in every read that asks about blocks: nothing of the
\* other is told, be it the target or one of the people a follow list, a search
\* or a feed names ("blocks are bidirectional - either direction hides the
\* wall").  The gift lists name third parties without this filter, see
\* ListsNameNoBlocked; /users/check asks nothing, see EveryReadChecks.
BlockHides ==
    look.pc = "answered" /\ look.kind \notin UncheckedKinds =>
        /\ look.target \notin during.barred \cap Told
        /\ (look.kind \notin {"received", "sent"} => Told \cap during.barred = {})

\* A profile that is private for the whole of a read shows no list, no
\* wishes, no numbers and no bio, and no phone or email finds it, whatever the
\* flags say and whenever they change.  Its name, its picture and whether a
\* delivery can reach it are told all the same.
PrivateHides ==
    look.pc = "answered" /\ look.target \in during.secret =>
        \A q \in look.answer : q[1] = look.target /\ look.kind \notin {"wall", "post", "party", "occasions", "upcoming"}
                                  => q[2] \in {"identity", "username", "check"}

\* An occasion for followers is told only to somebody whose follow was
\* accepted at some time during the read, a mutual one only if the owner's
\* was as well: a pending request opens nothing.
TierKept ==
    look.pc = "answered" =>
        \A q \in look.answer :
            /\ q[2] = "followers" /\ look.kind \in {"occasions", "upcoming"} => q[1] \in during.out
            /\ q[2] = "mutual" => q[1] \in during.out \cap during.in

\* What a reader learns of others respects private profiles and tiers that
\* stood throughout the read, and blocks in the reads that check them.
ReadsKeepPrivacy ==
    /\ SocialTypeOK
    /\ BlockHides
    /\ PrivateHides
    /\ TierKept

\* "blocks supersede follows" (blocks.service.ts:21): nobody follows across a
\* block.  Does not hold: follow never looks at the blocks.
BlocksSupersedeFollows ==
    \A a, b \in People : <<a, b>> \in blocks => follow[<<a, b>>] = "none" /\ follow[<<b, a>>] = "none"

\* "a viewer should never see anyone they've blocked" (follows.service.ts:144),
\* on every list.  Does not hold for the lists of gifts.
ListsNameNoBlocked ==
    look.pc = "answered" => Told \cap during.barred = {}

\* "Used by every give-me-one-specific-user's-data endpoint" (isBlockedEitherWay,
\* blocks.service.ts:104-105): across a block no read tells anything of the
\* person asked for, the parties of a gift apart.  Does not hold for /users/check.
EveryReadChecks ==
    look.pc = "answered" /\ look.kind # "party" => look.target \notin during.barred \cap Told

-----------------------------------------------------------------------------
(***************************************************************************)
(* The inductive invariant: the rows in full; the history, as a bound on   *)
(* what the graph says now; and what each step of a read has established   *)
(* that later steps rely on.                                               *)
(***************************************************************************)
ListKinds == {"followers", "following", "received", "sent", "wishes"}

LookRows == [pc : {"idle", "gate", "target", "rows", "filter", "user", "profile", "exclusions", "search", "context",
                   "tiers", "open", "answered"},
             kind : Kinds, viewer : People \cup {"nobody"}, target : People \cup {"nobody"}, private : BOOLEAN,
             out : SUBSET People, in : SUBSET People, rows : SUBSET (People \cup Flags),
             answer : SUBSET (People \X (Flags \cup Kinds \cup Tiers \cup {"identity", "bio"}))]

SocialRows ==
    /\ asking = NoPerson \/ asking \in [a : People, b : People, status : {"pending", "accepted"}]
    /\ look \in LookRows
    /\ during \in [barred : SUBSET People, secret : SUBSET People, out : SUBSET People, in : SUBSET People]

HistoryBounds ==
    look.pc # "idle" =>
        /\ during.barred \subseteq Excluded(look.viewer) /\ during.secret \subseteq private
        /\ \A p \in People \ {look.viewer} : /\ Accepted(look.viewer, p) => p \in during.out
                                             /\ Accepted(p, look.viewer) => p \in during.in

ReadFits ==
    /\ look.pc # "idle" => look.viewer \in People /\ look.target \in People /\ look.viewer # look.target
    /\ look.pc = "gate" => look.kind \in ListKinds \cup {"wall", "post"}
    /\ look.pc \in {"target", "rows", "filter"} => look.target \notin during.barred
    /\ look.pc = "target" => look.kind \in ListKinds
    /\ look.pc = "rows" => \/ look.kind \in {"wall", "post"}
                           \/ look.kind \in ListKinds /\ look.target \notin during.secret
    /\ look.pc = "filter" => /\ look.kind \in {"followers", "following"}
                             /\ look.target \notin during.secret /\ look.rows \subseteq People
    /\ look.pc = "open" => look.kind \in UncheckedKinds
    /\ look.pc \in {"user", "profile"} => look.kind = "profile"
    /\ look.pc = "profile" => look.rows \subseteq Flags /\ (look.private \/ look.target \notin during.secret)
    /\ look.pc \in {"exclusions", "search"} => look.kind \in {"username", "contact"}
    /\ look.pc = "search" => during.barred \subseteq look.out
    /\ look.pc \in {"context", "tiers"} => look.kind \in {"occasions", "upcoming"}
    /\ look.pc = "tiers" => /\ look.rows \subseteq People \ {look.viewer}
                            /\ look.rows \cap during.barred = {} /\ look.out \subseteq during.out

\* ReadsKeepPrivacy with what the read under way knows.
PrivacyInv == ReadsKeepPrivacy /\ SocialRows /\ HistoryBounds /\ ReadFits
=============================================================================
