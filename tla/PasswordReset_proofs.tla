------------------------- MODULE PasswordReset_proofs -------------------------
(***************************************************************************)
(* Proofs about the password reset, for any numbers of tokens and handlers *)
(* and any combination of the failures.                                    *)
(***************************************************************************)
EXTENDS PasswordReset, TLAPS

\* What a handler that went past the password update knows, which makes
\* CacheNeverAhead and MarkedAfterWork inductive: the token did its work before
\* it is marked, and it is marked before the copy says so.
Progress ==
  \A h \in Handler :
    LET t == req[h].tok IN
    /\ At(h, "revoking") => changed[t] # "never"
    /\ At(h, "marking") => changed[t] # "never" /\ t \in revoked
    /\ At(h, "recaching") => db[t] = "used"

IInv == TypeOK /\ Progress /\ CacheNeverAhead /\ MarkedAfterWork

\* A record in Request that is not idle is about a token.
LEMMA BusyRequest ==
  ASSUME NEW r \in Request, r.pc # "idle"
  PROVE  r \in [pc : Phase \ {"idle"}, tok : Token, op : {"request", "validate", "conclude"}]
BY DEF Request, NoRequest

\* No step leaves the types.
LEMMA TypeInductive == TypeOK /\ [Next]_vars => TypeOK'
<1> SUFFICES ASSUME TypeOK, [Next]_vars PROVE TypeOK'
  OBVIOUS
<1> USE DEF TypeOK
<1> NoRequest \in Request
  BY DEF Request
<1> DEFINE Busy == [pc : Phase \ {"idle"}, tok : Token,
                    op : {"request", "validate", "conclude"}]
<1>busy. ASSUME NEW h \in Handler, req[h].pc # "idle" PROVE req[h] \in Busy
  BY <1>busy, BusyRequest
<1>1. CASE UNCHANGED vars
  BY <1>1 DEF vars
<1>2. ASSUME NEW h \in Handler, HandlerStep(h) PROVE TypeOK'
  <2>1. ASSUME NEW t \in Token, RequestCreates(h, t) PROVE TypeOK'
    <3>1. [pc |-> "caching", tok |-> t, op |-> "request"] \in Request
      BY DEF Request, Phase
    <3> QED BY <2>1, <3>1 DEF RequestCreates
  <2>2. ASSUME NEW t \in Token, NEW op \in {"validate", "conclude"},
               ReadHits(h, t, op) \/ ReadMisses(h, t, op)
        PROVE TypeOK'
    <3>1. /\ [pc |-> "updating", tok |-> t, op |-> op] \in Request
          /\ [pc |-> "querying", tok |-> t, op |-> op] \in Request
      BY DEF Request, Phase
    <3> QED BY <2>2, <3>1 DEF ReadHits, ReadMisses, Accept, End
  <2>3. CASE RequestUnknown(h)
    BY <2>3 DEF RequestUnknown
  <2>4. CASE RequestCaches(h)
    BY <2>4, <1>busy DEF RequestCaches, CacheToken, Goto, At, Request, Phase
  <2>5. CASE RequestMails(h)
    BY <2>5, <1>busy DEF RequestMails, End, At
  <2>6. CASE ReadQueries(h)
    BY <2>6, <1>busy DEF ReadQueries, Goto, End, At, Request, Phase
  <2>7. CASE ReadFills(h)
    <3>1. req[h] \in Busy
      BY <2>7, <1>busy DEF ReadFills, At
    <3>2. [pc |-> "updating", tok |-> req[h].tok, op |-> req[h].op] \in Request
      BY <3>1 DEF Request, Phase
    <3> QED BY <2>7, <3>1, <3>2 DEF ReadFills, Accept, End, CacheToken
  <2>8. CASE ConcludeUpdates(h)
    BY <2>8, <1>busy DEF ConcludeUpdates, Goto, At, Request, Phase
  <2>9. CASE ConcludeRevokes(h)
    BY <2>9, <1>busy DEF ConcludeRevokes, Goto, At, Request, Phase
  <2>10. CASE ConcludeMarks(h)
    BY <2>10, <1>busy DEF ConcludeMarks, Goto, At, Request, Phase
  <2>11. CASE ConcludeCaches(h)
    BY <2>11, <1>busy DEF ConcludeCaches, CacheToken, End, At
  <2>12. CASE HandlerAborts(h)
    BY <2>12 DEF HandlerAborts, End
  <2> QED
    BY <1>2, <2>1, <2>2, <2>3, <2>4, <2>5, <2>6, <2>7, <2>8, <2>9, <2>10, <2>11, <2>12
    DEF HandlerStep
<1>3. ASSUME NEW t \in Token, TokenExpires(t) \/ CacheForgets(t) PROVE TypeOK'
  BY <1>3 DEF TokenExpires, CacheForgets
<1> QED
  BY <1>1, <1>2, <1>3 DEF Next

----------------------------------------------------------------------------
(* The marks in MongoDB and Redis *)

LEMMA InitIInv == Init => IInv
BY DEF Init, IInv, TypeOK, Request, Progress, CacheNeverAhead, MarkedAfterWork, At, NoRequest

\* The steps of a handler other than a conclusion's touch no mark: they put at
\* most "fresh" into the copy and into a document that was not there.
LEMMA ReadsKeepMarks ==
  ASSUME IInv, NEW h \in Handler,
         \/ \E t \in Token : RequestCreates(h, t)
         \/ \E t \in Token, op \in {"validate", "conclude"} :
              ReadHits(h, t, op) \/ ReadMisses(h, t, op)
         \/ RequestUnknown(h) \/ RequestCaches(h) \/ RequestMails(h)
         \/ ReadQueries(h) \/ ReadFills(h) \/ HandlerAborts(h)
  PROVE  Progress' /\ CacheNeverAhead' /\ MarkedAfterWork'
<1> USE DEF IInv, TypeOK, Progress, CacheNeverAhead, MarkedAfterWork
<1>1. /\ UNCHANGED <<changed, revoked>>
      /\ \A t \in Token : db[t] = "used" <=> db'[t] = "used"
      /\ \A t \in Token : cache'[t] = "used" => cache[t] = "used"
  BY DEF RequestCreates, RequestUnknown, RequestCaches, RequestMails, ReadHits,
         ReadMisses, ReadQueries, ReadFills, HandlerAborts, CacheToken
<1>2. \A g \in Handler :
        \/ req'[g] = req[g]
        \/ req'[g].pc \notin {"revoking", "marking", "recaching"}
  BY DEF Request, Phase, At, RequestCreates, RequestUnknown, RequestCaches, RequestMails, ReadHits,
         ReadMisses, ReadQueries, ReadFills, HandlerAborts, Accept, Goto, End, NoRequest
<1>3. \A g \in Handler : req[g].pc # "idle" => req[g].tok \in Token
  BY BusyRequest
<1>4. Progress'
  BY <1>1, <1>2, <1>3 DEF At
<1> QED
  BY <1>1, <1>4

LEMMA ConclusionMarks ==
  ASSUME IInv, NEW h \in Handler,
         ConcludeUpdates(h) \/ ConcludeRevokes(h) \/ ConcludeMarks(h) \/ ConcludeCaches(h)
  PROVE  Progress' /\ CacheNeverAhead' /\ MarkedAfterWork'
<1> DEFINE tok == req[h].tok
<1>1. tok \in Token
  BY BusyRequest
  DEF IInv, TypeOK, At, ConcludeUpdates, ConcludeRevokes, ConcludeMarks, ConcludeCaches
<1>2. \A g \in Handler \ {h} : req'[g] = req[g]
  BY DEF IInv, TypeOK, ConcludeUpdates, ConcludeRevokes, ConcludeMarks, ConcludeCaches, Goto, End
<1>tok. \A g \in Handler : req[g].pc # "idle" => req[g].tok \in Token
  BY BusyRequest DEF IInv, TypeOK
<1> USE DEF IInv, TypeOK, Progress, CacheNeverAhead, MarkedAfterWork, At
<1>3. CASE ConcludeUpdates(h)
  <2>1. req'[h].pc = "revoking" /\ req'[h].tok = tok
    BY <1>3 DEF ConcludeUpdates, Goto
  <2>2. /\ changed'[tok] # "never"
        /\ \A t \in Token : changed[t] # "never" => changed'[t] # "never"
        /\ UNCHANGED <<db, cache, revoked>>
    BY <1>1, <1>3 DEF ConcludeUpdates
  <2> QED BY <1>1, <1>2, <1>tok, <2>1, <2>2
<1>4. CASE ConcludeRevokes(h)
  <2>1. req'[h].pc = "marking" /\ req'[h].tok = tok
    BY <1>4 DEF ConcludeRevokes, Goto
  <2>2. revoked' = revoked \cup {tok} /\ UNCHANGED <<db, cache, changed>>
    BY <1>4 DEF ConcludeRevokes
  <2>3. changed[tok] # "never"
    BY <1>4 DEF ConcludeRevokes
  <2> QED BY <1>1, <1>2, <1>tok, <2>1, <2>2, <2>3
<1>5. CASE ConcludeMarks(h)
  <2>1. req'[h].pc = "recaching" /\ req'[h].tok = tok
    BY <1>5 DEF ConcludeMarks, Goto
  <2>2. db' = [db EXCEPT ![tok] = "used"] /\ UNCHANGED <<cache, changed, revoked>>
    BY <1>5 DEF ConcludeMarks
  <2>3. changed[tok] # "never" /\ tok \in revoked
    BY <1>5 DEF ConcludeMarks
  <2> QED BY <1>1, <1>2, <1>tok, <2>1, <2>2, <2>3
<1>6. CASE ConcludeCaches(h)
  <2>1. req'[h].pc = "idle"
    BY <1>6 DEF ConcludeCaches, End, NoRequest
  <2>2. /\ \A t \in Token \ {tok} : cache'[t] = cache[t]
        /\ UNCHANGED <<db, changed, revoked>>
    BY <1>1, <1>6 DEF ConcludeCaches, CacheToken
  <2>3. db[tok] = "used"
    BY <1>6 DEF ConcludeCaches
  <2> QED BY <1>1, <1>2, <1>tok, <2>1, <2>2, <2>3
<1> QED
  BY <1>3, <1>4, <1>5, <1>6

LEMMA IInvInductive == IInv /\ [Next]_vars => IInv'
<1> SUFFICES ASSUME IInv, [Next]_vars PROVE IInv'
  OBVIOUS
<1>1. TypeOK'
  BY TypeInductive DEF IInv
<1>2. CASE UNCHANGED vars
  BY <1>1, <1>2 DEF IInv, vars, Progress, CacheNeverAhead, MarkedAfterWork, At
<1>3. ASSUME NEW h \in Handler, HandlerStep(h) PROVE IInv'
  BY <1>1, <1>3, ReadsKeepMarks, ConclusionMarks DEF HandlerStep, IInv
<1>4. ASSUME NEW t \in Token, TokenExpires(t) \/ CacheForgets(t) PROVE IInv'
  BY <1>1, <1>4
  DEF TokenExpires, CacheForgets, IInv, TypeOK, Progress, CacheNeverAhead,
      MarkedAfterWork, At
<1> QED
  BY <1>2, <1>3, <1>4 DEF Next

\* The types hold in every reachable state.
THEOREM TypeCorrect == Spec => []TypeOK
BY InitIInv, IInvInductive, PTL DEF Spec, IInv

\* The Redis copy says "used" only of tokens that MongoDB marked used.
THEOREM CacheNeverAheadHolds == Spec => []CacheNeverAhead
BY InitIInv, IInvInductive, PTL DEF Spec, IInv

\* A token is marked used only after the password was changed and the
\* revocation of the user's logins was queued.
THEOREM MarkedAfterWorkHolds == Spec => []MarkedAfterWork
BY InitIInv, IInvInductive, PTL DEF Spec, IInv

----------------------------------------------------------------------------
(* Spent tokens *)

\* A handler starts to act on a token only if it finds a copy that says
\* "fresh" or a document that does.
LEMMA SpentStays ==
  ASSUME TypeOK, [Next]_vars, NEW t \in Token, Spent(t)
  PROVE  Spent(t)' /\ changed'[t] = changed[t]
<1> USE DEF TypeOK, Spent
<1> DEFINE Busy == [pc : Phase \ {"idle"}, tok : Token,
                    op : {"request", "validate", "conclude"}]
<1>busy. \A g \in Handler : req[g].pc # "idle" => req[g] \in Busy
  BY BusyRequest
<1>1. CASE UNCHANGED vars
  BY <1>1 DEF vars
<1>2. ASSUME NEW h \in Handler, HandlerStep(h)
      PROVE  Spent(t)' /\ changed'[t] = changed[t]
  <2>1. \A g \in Handler \ {h} : req'[g] = req[g]
    BY <1>2 DEF HandlerStep, RequestCreates, RequestUnknown, RequestCaches, RequestMails,
       ReadHits, ReadMisses, ReadQueries, ReadFills, ConcludeUpdates, ConcludeRevokes,
       ConcludeMarks, ConcludeCaches, HandlerAborts, Accept, Goto, End
  <2> SUFFICES /\ db'[t] = "used" /\ cache'[t] # "fresh" /\ changed'[t] = changed[t]
               /\ req'[h].tok = t => req'[h].pc \notin {"caching", "filling", "updating"}
    BY <2>1
  <2>2. ASSUME NEW u \in Token, RequestCreates(h, u) PROVE u # t
    BY <2>2 DEF RequestCreates
  <2>3. CASE \E u \in Token : RequestCreates(h, u)
    BY <2>2, <2>3 DEF RequestCreates
  <2>4. CASE \E u \in Token, op \in {"validate", "conclude"} :
               ReadHits(h, u, op) \/ ReadMisses(h, u, op)
    BY <2>4, ResetAssumption DEF ReadHits, ReadMisses, Accept, End, NoRequest
  <2>5. CASE RequestUnknown(h) \/ RequestMails(h) \/ HandlerAborts(h)
    BY <2>5, ResetAssumption DEF RequestUnknown, RequestMails, HandlerAborts, At, End, NoRequest
  <2>6. CASE RequestCaches(h)
    BY <2>6, <1>busy DEF RequestCaches, CacheToken, At, Goto, Phase
  <2>7. CASE ReadQueries(h)
    BY <2>7, <1>busy, ResetAssumption DEF ReadQueries, At, Goto, End, NoRequest, Phase
  <2>8. CASE ReadFills(h)
    BY <2>8, <1>busy, ResetAssumption DEF ReadFills, CacheToken, Accept, At, End, NoRequest, Phase
  <2>9. CASE ConcludeUpdates(h) \/ ConcludeRevokes(h)
    BY <2>9, <1>busy DEF ConcludeUpdates, ConcludeRevokes, At, Goto, Phase
  <2>10. CASE ConcludeMarks(h)
    BY <2>10, <1>busy DEF ConcludeMarks, At, Goto, Phase
  <2>11. CASE ConcludeCaches(h)
    BY <2>11, <1>busy, ResetAssumption DEF ConcludeCaches, CacheToken, At, End, NoRequest, Phase
  <2> QED
    BY <1>2, <2>3, <2>4, <2>5, <2>6, <2>7, <2>8, <2>9, <2>10, <2>11
    DEF HandlerStep
<1>3. ASSUME NEW u \in Token, TokenExpires(u) \/ CacheForgets(u)
      PROVE  Spent(t)' /\ changed'[t] = changed[t]
  BY <1>3 DEF TokenExpires, CacheForgets
<1> QED
  BY <1>1, <1>2, <1>3 DEF Next

\* A spent token stays spent and changes no password, whatever the handlers,
\* Redis and the failures do.
THEOREM SpentTokensStaySpent == Spec => SpentForGood
<1>1. TypeOK /\ [Next]_vars
      => [\A t \in Token : Spent(t) => Spent(t)' /\ changed'[t] = changed[t]]_vars
  BY SpentStays
<1> QED
  BY <1>1, TypeCorrect, PTL DEF Spec, SpentForGood
=============================================================================
