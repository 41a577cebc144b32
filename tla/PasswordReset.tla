---------------------------- MODULE PasswordReset ----------------------------
(***************************************************************************)
(* The password reset by mailed link: services/user_service.py keeps a     *)
(* reset token in MongoDB (reset_tokens, never deleted) and a copy of its  *)
(* state in Redis that lives as long as the token is valid.  Handlers of   *)
(* any of the web workers read the copy first and fill it from MongoDB     *)
(* when it is missing; a conclusion changes the password, queues the       *)
(* revocation of the user's logins, and then marks the token used in       *)
(* MongoDB and in Redis, each in a step of its own.                        *)
(***************************************************************************)
EXTENDS Naturals, FiniteSets

CONSTANTS
  Token,     \* reset tokens; token_urlsafe(32) never repeats one
  Handler,   \* concurrent requests
  None,      \* no token
  Faults     \* failures this instance may inject: "mail", "abort"

ASSUME ResetAssumption == None \notin Token /\ Faults \subseteq {"mail", "abort"}

VARIABLES
  db,        \* the token's document: "none", "fresh" or "used"
  cache,     \* the Redis key pwreset:<token>: "none", "fresh" or "used"
  expired,   \* tokens older than RESET_TOKEN_TTL_SECONDS
  sent,      \* tokens whose link was mailed
  answer,    \* the last answer of POST /password-reset/request
  req,       \* what each handler is doing
  changed,   \* history: how often the token changed a password
  revoked    \* history: tokens for which delete_tokens was queued

vars == <<db, cache, expired, sent, answer, req, changed, revoked>>

Phase == {"idle", "caching", "mailing",              \* user_reset_password_intiation
          "querying", "filling",                     \* get_reset_token_state
          "updating", "revoking", "marking", "recaching"}  \* ..._conclusion

NoRequest == [pc |-> "idle", tok |-> None, op |-> "none"]

\* op: the landing page validates a token, the confirmation also uses it.
Request == {NoRequest} \cup
           [pc : Phase \ {"idle"}, tok : Token, op : {"request", "validate", "conclude"}]

TypeOK ==
  /\ db \in [Token -> {"none", "fresh", "used"}]
  /\ cache \in [Token -> {"none", "fresh", "used"}]
  /\ expired \subseteq Token
  /\ sent \subseteq Token
  /\ answer \in {"none", "generic", "mail_error"}
  /\ req \in [Handler -> Request]
  /\ changed \in [Token -> {"never", "once", "again"}]
  /\ revoked \subseteq Token

Init ==
  /\ db = [t \in Token |-> "none"]
  /\ cache = [t \in Token |-> "none"]
  /\ expired = {}
  /\ sent = {}
  /\ answer = "none"
  /\ req = [h \in Handler |-> NoRequest]
  /\ changed = [t \in Token |-> "never"]
  /\ revoked = {}

At(h, p) == req[h].pc = p
Goto(h, p) == req' = [req EXCEPT ![h].pc = p]
End(h) == req' = [req EXCEPT ![h] = NoRequest]

\* _cache_reset_token: an expired token is not cached (ttl_seconds is 0).
CacheToken(t, state) ==
  cache' = IF t \in expired THEN cache ELSE [cache EXCEPT ![t] = state]

----------------------------------------------------------------------------
(* POST /password-reset/request *)

\* The address belongs to a user: store a new token.
RequestCreates(h, t) ==
  /\ At(h, "idle") /\ db[t] = "none"
  /\ db' = [db EXCEPT ![t] = "fresh"]
  /\ req' = [req EXCEPT ![h] = [pc |-> "caching", tok |-> t, op |-> "request"]]
  /\ UNCHANGED <<cache, expired, sent, answer, changed, revoked>>

\* Variant without the early return: a mail goes out with no token.
RequestUnknownMails(h) ==
  /\ At(h, "idle")
  /\ sent' = sent \cup {None} /\ answer' = "generic"
  /\ UNCHANGED <<db, cache, expired, req, changed, revoked>>

\* No such user.
RequestUnknown(h) ==
  /\ At(h, "idle")
  /\ answer' = "generic"
  /\ UNCHANGED <<db, cache, expired, sent, req, changed, revoked>>

RequestCaches(h) ==
  /\ At(h, "caching")
  /\ CacheToken(req[h].tok, "fresh")
  /\ Goto(h, "mailing")
  /\ UNCHANGED <<db, expired, sent, answer, changed, revoked>>

\* The send may fail after the token was stored; the answer tells.
RequestMails(h) ==
  /\ At(h, "mailing")
  /\ \/ sent' = sent \cup {req[h].tok} /\ answer' = "generic"
     \/ "mail" \in Faults /\ answer' = "mail_error" /\ UNCHANGED sent
  /\ End(h)
  /\ UNCHANGED <<db, cache, expired, changed, revoked>>

----------------------------------------------------------------------------
(* get_reset_token_state, for the landing page and the confirmation *)

\* used -> 400, expired -> 400; otherwise the confirmation goes on.
Accept(h, t, op) ==
  IF op = "conclude" /\ t \notin expired
  THEN req' = [req EXCEPT ![h] = [pc |-> "updating", tok |-> t, op |-> op]]
  ELSE End(h)

\* The copy in Redis answers.
ReadHits(h, t, op) ==
  /\ At(h, "idle") /\ t \in sent
  /\ cache[t] = "fresh"
  /\ Accept(h, t, op)
  /\ UNCHANGED <<db, cache, expired, sent, answer, changed, revoked>>

\* No copy in Redis: ask MongoDB.
ReadMisses(h, t, op) ==
  /\ At(h, "idle") /\ t \in sent
  /\ cache[t] = "none"
  /\ req' = [req EXCEPT ![h] = [pc |-> "querying", tok |-> t, op |-> op]]
  /\ UNCHANGED <<db, cache, expired, sent, answer, changed, revoked>>

\* Variant whose query does not ask for an unused token.
ReadQueriesAny(h) ==
  /\ At(h, "querying")
  /\ IF db[req[h].tok] # "none" THEN Goto(h, "filling") ELSE End(h)
  /\ UNCHANGED <<db, cache, expired, sent, answer, changed, revoked>>

\* A token used in MongoDB is as good as none: 404.
ReadQueries(h) ==
  /\ At(h, "querying")
  /\ IF db[req[h].tok] = "fresh" THEN Goto(h, "filling") ELSE End(h)
  /\ UNCHANGED <<db, cache, expired, sent, answer, changed, revoked>>

\* Write what MongoDB said, however long ago, and go on with it.
ReadFills(h) ==
  /\ At(h, "filling")
  /\ CacheToken(req[h].tok, "fresh")
  /\ Accept(h, req[h].tok, req[h].op)
  /\ UNCHANGED <<db, expired, sent, answer, changed, revoked>>

----------------------------------------------------------------------------
(* user_reset_password_conclusion, after its checks *)

\* Variant that marks the token together with the password.
ConcludeUpdatesAndMarks(h) ==
  /\ At(h, "updating")
  /\ changed' = [changed EXCEPT ![req[h].tok] = IF @ = "never" THEN "once" ELSE "again"]
  /\ db' = [db EXCEPT ![req[h].tok] = "used"]
  /\ Goto(h, "revoking")
  /\ UNCHANGED <<cache, expired, sent, answer, revoked>>

ConcludeUpdates(h) ==
  /\ At(h, "updating")
  /\ changed' = [changed EXCEPT ![req[h].tok] = IF @ = "never" THEN "once" ELSE "again"]
  /\ Goto(h, "revoking")
  /\ UNCHANGED <<db, cache, expired, sent, answer, revoked>>

ConcludeRevokes(h) ==
  /\ At(h, "revoking")
  /\ revoked' = revoked \cup {req[h].tok}
  /\ Goto(h, "marking")
  /\ UNCHANGED <<db, cache, expired, sent, answer, changed>>

\* Variant that marks the copy first.
ConcludeMarksCopy(h) ==
  /\ At(h, "marking")
  /\ CacheToken(req[h].tok, "used")
  /\ Goto(h, "recaching")
  /\ UNCHANGED <<db, expired, sent, answer, changed, revoked>>

ConcludeMarks(h) ==
  /\ At(h, "marking")
  /\ db' = [db EXCEPT ![req[h].tok] = "used"]
  /\ Goto(h, "recaching")
  /\ UNCHANGED <<cache, expired, sent, answer, changed, revoked>>

ConcludeCaches(h) ==
  /\ At(h, "recaching")
  /\ CacheToken(req[h].tok, "used")
  /\ End(h)
  /\ UNCHANGED <<db, expired, sent, answer, changed, revoked>>

----------------------------------------------------------------------------
(* The environment *)

\* A failing call or the death of the web worker ends a handler anywhere.
HandlerAborts(h) ==
  /\ "abort" \in Faults /\ ~At(h, "idle")
  /\ End(h)
  /\ UNCHANGED <<db, cache, expired, sent, answer, changed, revoked>>

\* Fifteen minutes after it was created; the copy's TTL ends with it.
TokenExpires(t) ==
  /\ db[t] # "none" /\ t \notin expired
  /\ expired' = expired \cup {t}
  /\ cache' = [cache EXCEPT ![t] = "none"]
  /\ UNCHANGED <<db, sent, answer, req, changed, revoked>>

\* The TTL is cut to whole seconds, and Redis may evict a key.
CacheForgets(t) ==
  /\ cache[t] # "none"
  /\ cache' = [cache EXCEPT ![t] = "none"]
  /\ UNCHANGED <<db, expired, sent, answer, req, changed, revoked>>

HandlerStep(h) ==
  \/ \E t \in Token : RequestCreates(h, t)
  \/ \E t \in Token, op \in {"validate", "conclude"} : ReadHits(h, t, op) \/ ReadMisses(h, t, op)
  \/ RequestUnknown(h) \/ RequestCaches(h) \/ RequestMails(h)
  \/ ReadQueries(h) \/ ReadFills(h)
  \/ ConcludeUpdates(h) \/ ConcludeRevokes(h) \/ ConcludeMarks(h) \/ ConcludeCaches(h)
  \/ HandlerAborts(h)

Next ==
  \/ \E h \in Handler : HandlerStep(h)
  \/ \E t \in Token : TokenExpires(t) \/ CacheForgets(t)

Spec == Init /\ [][Next]_vars

----------------------------------------------------------------------------
(* Properties *)

\* The copy never runs ahead: Redis says "used" only of a token MongoDB marked
\* used, so that a fill after an eviction cannot contradict it.
CacheNeverAhead == \A t \in Token : cache[t] = "used" => db[t] = "used"

\* A token is marked used only when it has done its work: the password was
\* changed and the revocation of the user's logins was queued.
MarkedAfterWork ==
  \A t \in Token : db[t] = "used" => changed[t] # "never" /\ t \in revoked

\* A token is spent once it is marked used, no copy says otherwise and no
\* handler is between reading it as unused and acting on that.
Spent(t) ==
  /\ db[t] = "used" /\ cache[t] # "fresh"
  /\ \A h \in Handler : req[h].tok = t => req[h].pc \notin {"caching", "filling", "updating"}

\* No interleaving of requests, evictions, expiry and aborts revives a spent
\* token: it stays spent and changes no password any more.
SpentForGood ==
  [][\A t \in Token : Spent(t) => Spent(t)' /\ changed'[t] = changed[t]]_vars

\* PATCH /password-reset/confirm: "The token is single-use".
SingleUse == \A t \in Token : changed[t] # "again"
=============================================================================
