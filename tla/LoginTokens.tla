----------------------------- MODULE LoginTokens -----------------------------
(***************************************************************************)
(* The login tokens of members and administrators: a pair of an access and *)
(* a refresh document in MongoDB for each login, exchanged for a new pair  *)
(* by a refresh and wiped by a logout, by the deletion of the account and  *)
(* by the Celery task that follows a change of the password                *)
(* (services/user_service.py, services/admin_service.py,                   *)
(* repositories/tokens_repo.py, security/auth.py).  A step of a request is *)
(* what it does between two awaits; MongoDB may fail at each of them.      *)
(* All members have one mail address, and so have all invited              *)
(* administrators.  A JWT that has expired only makes a request fail that  *)
(* changes nothing, except a refresh, which ignores the expiry.            *)
(***************************************************************************)
EXTENDS Naturals, FiniteSets

CONSTANTS
  Members, Admins,
  Super,        \* the administrator the code itself knows
  Pairs,        \* bound: the pairs of tokens ever minted
  Requests,     \* bound: the requests and tasks under way at once
  MaxPending,   \* bound: the delete_tokens messages of one member
  NoAccount, NoPair

Accounts == Members \union Admins

ASSUME LoginAssumption ==
  /\ Members \cap Admins = {} /\ Super \in Admins
  /\ NoAccount \notin Accounts /\ NoPair \notin Pairs
  /\ MaxPending \in Nat

VARIABLES
  accounts,   \* the documents of users and admins, the super admin with them
  fresh,      \* accounts not created yet
  access,     \* accessToken: whose each pair's document is
  refresh,    \* refreshToken, with previousAccessToken the pair's own
  minted,     \* pairs that got their ids
  handed,     \* pairs a response handed to a client
  pending,    \* delete_tokens messages, by member
  req,        \* the requests and tasks under way
  spent,      \* history: pairs whose exchange was answered
  revoked     \* history: pairs a finished wipe found when it began

vars == <<accounts, fresh, access, refresh, minted, handed, pending, req,
          spent, revoked>>

Endpoints == {"member", "admin"}

Stages == {"idle", "create", "mint", "pair", "hand", "look", "find", "drop",
           "undoRefresh", "undoAccess", "wipeRefresh", "wipeAccess", "queue"}

(* A request: its endpoint, the pairs its access and refresh token come from,
   the pair it mints and for whom; and, as history, whether the pair it
   exchanges was spent or an orphan when it began, and the pairs a wipe found. *)
Request ==
  [at : Stages, endpoint : Endpoints, user : Accounts \union {NoAccount},
   shown : Pairs \union {NoPair}, old : Pairs \union {NoPair},
   new : Pairs \union {NoPair},
   was : {"fresh", "spent", "orphan"}, seen : SUBSET Pairs]

Idle ==
  [at |-> "idle", endpoint |-> "member", user |-> NoAccount, shown |-> NoPair,
   old |-> NoPair, new |-> NoPair, was |-> "fresh", seen |-> {}]

TypeOK ==
  /\ accounts \subseteq Accounts /\ fresh \subseteq Accounts
  /\ access \in [Pairs -> Accounts \union {NoAccount}]
  /\ refresh \in [Pairs -> Accounts \union {NoAccount}]
  /\ minted \subseteq Pairs /\ handed \subseteq minted
  /\ pending \in [Members -> 0 .. MaxPending]
  /\ req \in [Requests -> Request]
  /\ spent \subseteq handed /\ revoked \subseteq minted

Init ==
  /\ accounts = {Super}
  /\ fresh = Accounts \ {Super}
  /\ access = [p \in Pairs |-> NoAccount]
  /\ refresh = [p \in Pairs |-> NoAccount]
  /\ minted = {} /\ handed = {}
  /\ pending = [m \in Members |-> 0]
  /\ req = [r \in Requests |-> Idle]
  /\ spent = {} /\ revoked = {}

-----------------------------------------------------------------------------
(* Whom get_user and get_admin find: each looks into its own collection. *)
Of(endpoint) == IF endpoint = "member" THEN Members ELSE Admins

(* verify_token_user_role and verify_admin_token: the access document exists
   and so does its account, in the collection of its role. *)
AuthorisedMember(p) == access[p] \in accounts \cap Members
AuthorisedAdmin(p) == access[p] \in accounts \cap Admins
Authorised(p) == AuthorisedMember(p) \/ AuthorisedAdmin(p)

Owned(u) == {p \in Pairs : access[p] = u}

(* What has become of a pair: exchanged already, or left by a deleted account. *)
Fate(p) ==
  CASE p \in spent -> "spent"
    [] p \notin spent /\ refresh[p] \notin accounts \union {NoAccount} -> "orphan"
    [] OTHER -> "fresh"

Begins(r, request) ==
  /\ req[r] = Idle
  /\ req' = [req EXCEPT ![r] = request]

Goes(r, stage) == req' = [req EXCEPT ![r].at = stage]
Ends(r) == req' = [req EXCEPT ![r] = Idle]

(* signup_new_user and the Google callback of an unknown address, or an
   administrator's invitation: nobody has the address. *)
SignUp(r, endpoint) ==
  /\ (accounts \cap Of(endpoint)) \subseteq {Super}
  /\ endpoint = "admin" => \E p \in handed : AuthorisedAdmin(p)
  /\ Begins(r, [Idle EXCEPT !.at = "create", !.endpoint = endpoint])
  /\ UNCHANGED <<accounts, fresh, access, refresh, minted, handed, pending, spent, revoked>>

(* create_user and create_admin: no unique index stops a second account. *)
Create(r) ==
  /\ req[r].at = "create"
  /\ \E u \in fresh \cap Of(req[r].endpoint) :
       /\ accounts' = accounts \union {u}
       /\ fresh' = fresh \ {u}
       /\ req' = [req EXCEPT ![r].at = "mint", ![r].user = u]
  /\ UNCHANGED <<access, refresh, minted, handed, pending, spent, revoked>>

(* authenticate_user and authenticate_admin: the account is found by its
   address, and the password or Google vouches for it. *)
Login(r, u) ==
  /\ u \in accounts
  /\ Begins(r, [Idle EXCEPT !.at = "mint", !.user = u])
  /\ UNCHANGED <<accounts, fresh, access, refresh, minted, handed, pending, spent, revoked>>

-----------------------------------------------------------------------------
(* add_access_tokens and add_admin_access_tokens insert the document ... *)
MintAccess(r) ==
  /\ req[r].at = "mint"
  /\ \E p \in Pairs \ minted :
       /\ minted' = minted \union {p}
       /\ access' = [access EXCEPT ![p] = req[r].user]
       /\ req' = [req EXCEPT ![r].at = "pair", ![r].new = p]
  /\ UNCHANGED <<accounts, fresh, refresh, handed, pending, spent, revoked>>

(* ... and read it back, which raises when it is gone again; then
   add_refresh_tokens inserts the other. *)
MintRefresh(r) ==
  /\ req[r].at = "pair"
  /\ LET p == req[r].new
     IN  \/ /\ access[p] = NoAccount
            /\ Ends(r)
            /\ UNCHANGED refresh
         \/ /\ access[p] # NoAccount
            /\ refresh' = [refresh EXCEPT ![p] = req[r].user]
            /\ Goes(r, "hand")
  /\ UNCHANGED <<accounts, fresh, access, minted, handed, pending, spent, revoked>>

(* Variant: an exchange is answered without deleting the old pair. *)
HandKeepsOld(r) ==
  /\ req[r].at = "hand" /\ refresh[req[r].new] # NoAccount
  /\ handed' = handed \union {req[r].new}
  /\ spent' = spent \union ({req[r].old} \ {NoPair})
  /\ Ends(r)
  /\ UNCHANGED <<accounts, fresh, access, refresh, minted, pending, revoked>>

(* Variant: a login is answered with the pair it was asked with. *)
HandWrong(r) ==
  /\ req[r].at = "hand"
  /\ handed' = handed \union {req[r].old}
  /\ Ends(r)
  /\ UNCHANGED <<accounts, fresh, access, refresh, minted, pending, spent, revoked>>

(* The refresh document is read back too.  A login is answered with the pair,
   a refresh first deletes the old access document. *)
Hand(r) ==
  /\ req[r].at = "hand"
  /\ LET q == req[r]
     IN  \/ /\ refresh[q.new] = NoAccount
            /\ Ends(r)
            /\ UNCHANGED <<access, handed>>
         \/ /\ refresh[q.new] # NoAccount /\ q.old = NoPair
            /\ handed' = handed \union {q.new}
            /\ Ends(r)
            /\ UNCHANGED access
         \/ /\ refresh[q.new] # NoAccount /\ q.old # NoPair
            /\ access' = [access EXCEPT ![q.shown] = NoAccount]
            /\ Goes(r, "drop")
            /\ UNCHANGED handed
  /\ UNCHANGED <<accounts, fresh, refresh, minted, pending, spent, revoked>>

(* The old refresh document goes last, and the exchange is answered. *)
Drop(r) ==
  /\ req[r].at = "drop"
  /\ refresh' = [refresh EXCEPT ![req[r].old] = NoAccount]
  /\ handed' = handed \union {req[r].new}
  /\ spent' = spent \union {req[r].old}
  /\ Ends(r)
  /\ UNCHANGED <<accounts, fresh, access, minted, pending, revoked>>

-----------------------------------------------------------------------------
(* A refresh at either endpoint: verify_token_to_refresh asks only for the
   access document, of whatever role and however old. *)
Refresh(r, endpoint, shown, old) ==
  /\ {shown, old} \subseteq handed
  /\ access[shown] # NoAccount
  /\ Begins(r, [Idle EXCEPT !.at = "look", !.endpoint = endpoint, !.shown = shown,
                            !.old = old, !.was = Fate(old)])
  /\ UNCHANGED <<accounts, fresh, access, refresh, minted, handed, pending, spent, revoked>>

(* A refused refresh: the members' endpoint deletes both tokens it was shown,
   the administrators' deletes nothing. *)
Refused(r) ==
  \/ req[r].endpoint = "member" /\ Goes(r, "undoRefresh")
  \/ req[r].endpoint = "admin" /\ Ends(r)

(* The refresh document is read, and must name the access token shown. *)
Look(r) ==
  /\ req[r].at = "look"
  /\ LET q == req[r]
     IN  \/ refresh[q.old] = NoAccount /\ Ends(r)
         \/ refresh[q.old] # NoAccount /\ q.old # q.shown /\ Refused(r)
         \/ /\ refresh[q.old] # NoAccount /\ q.old = q.shown
            /\ req' = [req EXCEPT ![r].at = "find", ![r].user = refresh[q.old]]
  /\ UNCHANGED <<accounts, fresh, access, refresh, minted, handed, pending, spent, revoked>>

(* Variant: the account is not looked up. *)
FindUnchecked(r) ==
  /\ req[r].at = "find"
  /\ Goes(r, "mint")
  /\ UNCHANGED <<accounts, fresh, access, refresh, minted, handed, pending, spent, revoked>>

(* Its account must exist, among those of the endpoint. *)
Find(r) ==
  /\ req[r].at = "find"
  /\ \/ req[r].user \in accounts \cap Of(req[r].endpoint) /\ Goes(r, "mint")
     \/ req[r].user \notin accounts \cap Of(req[r].endpoint) /\ Refused(r)
  /\ UNCHANGED <<accounts, fresh, access, refresh, minted, handed, pending, spent, revoked>>

UndoRefresh(r) ==
  /\ req[r].at = "undoRefresh"
  /\ refresh' = [refresh EXCEPT ![req[r].old] = NoAccount]
  /\ Goes(r, "undoAccess")
  /\ UNCHANGED <<accounts, fresh, access, minted, handed, pending, spent, revoked>>

UndoAccess(r) ==
  /\ req[r].at = "undoAccess"
  /\ access' = [access EXCEPT ![req[r].shown] = NoAccount]
  /\ Ends(r)
  /\ UNCHANGED <<accounts, fresh, refresh, minted, handed, pending, spent, revoked>>

-----------------------------------------------------------------------------
Wipe(u) ==
  [Idle EXCEPT !.at = "wipeRefresh", !.user = u, !.seen = Owned(u)]

(* logout_user and logout_admin (if the administrator has the permission). *)
Logout(r, p) ==
  /\ p \in handed /\ Authorised(p)
  /\ Begins(r, Wipe(access[p]))
  /\ UNCHANGED <<accounts, fresh, access, refresh, minted, handed, pending, spent, revoked>>

(* remove_user deletes the document first; no route can delete an
   administrator. *)
Remove(r, p) ==
  /\ p \in handed /\ AuthorisedMember(p)
  /\ accounts' = accounts \ {access[p]}
  /\ Begins(r, Wipe(access[p]))
  /\ UNCHANGED <<fresh, access, refresh, minted, handed, pending, spent, revoked>>

(* update_user_by_id, from the profile or from a reset link: the password is
   stored, then the revocation is queued, which the broker may refuse. *)
ChangePassword(r, u) ==
  /\ u \in accounts \cap Members
  /\ Begins(r, [Idle EXCEPT !.at = "queue", !.user = u])
  /\ UNCHANGED <<accounts, fresh, access, refresh, minted, handed, pending, spent, revoked>>

Queue(r) ==
  /\ req[r].at = "queue"
  /\ pending[req[r].user] < MaxPending
  /\ pending' = [pending EXCEPT ![req[r].user] = @ + 1]
  /\ Ends(r)
  /\ UNCHANGED <<accounts, fresh, access, refresh, minted, handed, spent, revoked>>

(* A Celery worker takes a message, which it acknowledges at once. *)
TakeTask(r, u) ==
  /\ pending[u] > 0
  /\ pending' = [pending EXCEPT ![u] = @ - 1]
  /\ Begins(r, Wipe(u))
  /\ UNCHANGED <<accounts, fresh, access, refresh, minted, handed, spent, revoked>>

(* delete_all_tokens_with_user_id: the refresh documents, then the access
   documents. *)
WipeRefresh(r) ==
  /\ req[r].at = "wipeRefresh"
  /\ refresh' = [p \in Pairs |->
       IF refresh[p] = req[r].user THEN NoAccount ELSE refresh[p]]
  /\ Goes(r, "wipeAccess")
  /\ UNCHANGED <<accounts, fresh, access, minted, handed, pending, spent, revoked>>

(* Variant: only the tokens of complete pairs are wiped. *)
WipeAccessOfPairs(r) ==
  /\ req[r].at = "wipeAccess"
  /\ access' = [p \in Pairs |->
       IF access[p] = req[r].user /\ p \in handed THEN NoAccount ELSE access[p]]
  /\ revoked' = revoked \union req[r].seen
  /\ Ends(r)
  /\ UNCHANGED <<accounts, fresh, refresh, minted, handed, pending, spent>>

WipeAccess(r) ==
  /\ req[r].at = "wipeAccess"
  /\ access' = [p \in Pairs |->
       IF access[p] = req[r].user THEN NoAccount ELSE access[p]]
  /\ revoked' = revoked \union req[r].seen
  /\ Ends(r)
  /\ UNCHANGED <<accounts, fresh, refresh, minted, handed, pending, spent>>

(* MongoDB, the broker or the process fails between two steps. *)
Fail(r) ==
  /\ req[r] # Idle
  /\ Ends(r)
  /\ UNCHANGED <<accounts, fresh, access, refresh, minted, handed, pending, spent, revoked>>

Step(r) ==
  \/ Create(r) \/ MintAccess(r) \/ MintRefresh(r) \/ Hand(r) \/ Drop(r)
  \/ Look(r) \/ Find(r) \/ UndoRefresh(r) \/ UndoAccess(r)
  \/ Queue(r) \/ WipeRefresh(r) \/ WipeAccess(r) \/ Fail(r)

Arrive(r) ==
  \/ \E e \in Endpoints : SignUp(r, e)
  \/ \E u \in Accounts : Login(r, u) \/ ChangePassword(r, u)
  \/ \E u \in Members : TakeTask(r, u)
  \/ \E e \in Endpoints, p, q \in Pairs : Refresh(r, e, p, q)
  \/ \E p \in Pairs : Logout(r, p) \/ Remove(r, p)

Next == \E r \in Requests : Arrive(r) \/ Step(r)

Spec == Init /\ [][Next]_vars
-----------------------------------------------------------------------------
Minting == {"mint", "pair", "hand", "drop"}

(* A pair whose exchange was answered cannot be exchanged again: of two
   exchanges of one pair each began before the other was answered
   (refresh_user_tokens_reduce_number_of_logins). *)
NoReplay ==
  \A r \in Requests : req[r].was = "spent" => req[r].at \notin Minting

(* A pair that was in the store, even half of it, when a logout, a deletion or
   a revocation began authorises nothing and cannot be exchanged once that is
   done: what outlives it was minted by a request that ran meanwhile
   (delete_all_tokens_with_user_id). *)
RevokedStayOut == \A p \in revoked : access[p] = NoAccount

(* Nor can a pair that its account left behind when it was deleted, if the
   exchange begins after that: such pairs exist, minted by a login or a refresh
   that had found the account (remove_user). *)
OrphansStayOut ==
  \A r \in Requests : req[r].was = "orphan" => req[r].at \notin Minting
=============================================================================
