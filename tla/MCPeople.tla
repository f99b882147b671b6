------------------------------ MODULE MCPeople ------------------------------
(***************************************************************************)
(* People and shops, on small instances: codes and accounts, the social    *)
(* graph, the decisions of staff, a storefront.  They share no row below,  *)
(* so a behaviour works on one of them: `focus' says which, and which of   *)
(* its operations overlap.                                                 *)
(***************************************************************************)
EXTENDS Accounts, SocialGraph, Administration, Storefront, TLC

VARIABLE focus

peopleSide == <<accountVars, socialVars, adminVars, shopVars, focus>>

\* The configuration uses the same two names for the callers of every
\* component, and the same two for ordinary people; no definition tells them
\* apart.
MCSymmetry == Permutations(Requests) \cup Permutations(Users \ Admins)

MCInit ==
    /\ AccountsInit /\ SocialInit /\ AdministrationInit /\ ShopInit
    /\ focus \in {"codes", "register", "contacts", "admins", "graph", "vat", "business", "org", "shop"}
    /\ focus # "vat" => admins = {Founder}

-----------------------------------------------------------------------------
Pcs == {request'[r].pc : r \in Requests}
Coding == {"idle", "verify", "row", "compare"}
Verifying == {r \in Requests : request'[r].pc \in Coding \ {"idle"}}

\* Codes arrive, are typed right and in time; the loss and the guessing of
\* codes are the matter of the first focus.
Prompt ==
    /\ \A u \in Admins \ Legacy : account'[u] = account[u]
    /\ Len(otp') <= 2 /\ lost' = 0
    /\ \A i \in DOMAIN otp' : otp'[i].age = "fresh" /\ otp'[i].arrived /\ otp'[i].attempts = 0
    /\ Cardinality(Verifying) <= 1

\* One target's codes: sent, lost, aged, guessed and spent.
CodesFocus ==
    /\ AccountsNext
    /\ UNCHANGED <<account, betaOff>>
    /\ Pcs \subseteq Coding /\ \A r \in Requests : request'[r].next = "end"
    /\ \A i \in DOMAIN otp' : otp'[i].target = OldPhone

\* Registrations against each other and against the closing of the beta code.
RegisterFocus ==
    /\ AccountsNext /\ Prompt
    /\ betaOff' # betaOff => ~betaOff /\ \E r \in Requests : request[r].pc = "insert"
    /\ Pcs \subseteq Coding \cup {"existing", "gate", "conflict", "insert", "spend"}
    /\ \A r \in Requests : /\ request'[r].target \in Phones => request'[r].extra = NoTarget
                           /\ request'[r].next = "existing" \/ request'[r] = Idle
    /\ \A u \in Admins : account'[u] = account[u]

\* Logins that repair a phone, password resets and changes of contact.
ContactsFocus ==
    /\ AccountsNext /\ Prompt /\ betaOff' = betaOff
    /\ Pcs \subseteq Coding \cup {"repair", "reset", "change", "email"}
    /\ \A r \in Requests : \/ request'[r].next \in {"reset", "change"}
                           \/ request'[r].pc \in {"idle", "repair", "email"}

\* Administrators against each other.
AdminsFocus ==
    AccountsNext /\ Pcs \subseteq {"idle", "admin"} /\ otp' = <<>> /\ betaOff' = betaOff

\* By symmetry of the people it is enough that one of them reads, whose own
\* flags open and close nothing, and that no flag is hidden but those of the
\* target the read asks for.  An answer is judged when it is given: what is edited
\* behind it only weakens what it had to respect.
AskedFlags == {look'.target} \X (IF look'.kind = "profile" THEN Flags ELSE {look'.kind})
GraphFocus ==
    /\ SocialNext /\ (look' # NoLook => hidden' \subseteq AskedFlags)
    /\ look'.viewer \in {"nobody", Founder} /\ Founder \notin {q[1] : q \in hidden'}
    /\ look.pc = "answered" => look' = NoLook

VatFocus == /\ AdministrationNext /\ UNCHANGED <<org, seat, business, ownNumber>>
            /\ \A d \in Desks : desk'[d].pc \in {"idle", "grant", "propose", "approve", "approved", "reject"}
BusinessFocus == /\ AdministrationNext /\ UNCHANGED admins
                 /\ \A d \in Desks : desk'[d].pc \in {"idle", "apply", "business"}
OrgFocus == /\ AdministrationNext /\ UNCHANGED <<admins, ownNumber>>
            /\ \A d \in Desks : desk'[d].pc \in {"idle", "org", "seat", "unseat"}

MCNext ==
    /\ UNCHANGED focus
    /\ \/ /\ \/ focus = "codes" /\ CodesFocus
             \/ focus = "register" /\ RegisterFocus
             \/ focus = "contacts" /\ ContactsFocus
             \/ focus = "admins" /\ AdminsFocus
          /\ UNCHANGED <<socialVars, adminVars, shopVars>>
       \/ focus = "graph" /\ GraphFocus /\ UNCHANGED <<accountVars, adminVars, shopVars>>
       \/ /\ \/ focus = "vat" /\ VatFocus
             \/ focus = "business" /\ BusinessFocus
             \/ focus = "org" /\ OrgFocus
          /\ UNCHANGED <<accountVars, socialVars, shopVars>>
       \/ focus = "shop" /\ ShopNext /\ UNCHANGED <<accountVars, socialVars, adminVars>>

MCSpec == MCInit /\ [][MCNext]_peopleSide
=============================================================================
