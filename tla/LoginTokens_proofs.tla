------------------------ MODULE LoginTokens_proofs ------------------------
(***************************************************************************)
(* Proofs about the login tokens, for any numbers of members,              *)
(* administrators, pairs, requests and messages.  A step belongs to one    *)
(* request; the others are only touched through the store, so that the     *)
(* proof is in three parts: what every step does to the store is Calm,     *)
(* what is Calm leaves every other request Sound, and the request whose    *)
(* step it is stays Sound.                                                 *)
(***************************************************************************)
EXTENDS LoginTokens, TLAPS

\* Requests that have minted a pair and not handed it out yet.
HasPair == {"pair", "hand", "drop"}

\* An account is created once; a document in the store is of a pair with ids
\* and of an account that was created; an exchanged pair has no refresh
\* document and a revoked one no access document.
StoreInv ==
  /\ accounts \cap fresh = {}
  /\ \A p \in Pairs : access[p] # NoAccount => p \in minted /\ access[p] \notin fresh
  /\ \A p \in Pairs : refresh[p] # NoAccount => p \in minted /\ refresh[p] \notin fresh
  /\ \A p \in spent : refresh[p] = NoAccount
  /\ \A p \in revoked : access[p] = NoAccount

\* What a request under way may rely on: the pair it mints is its own until it
\* is handed out, the pair it exchanges was handed out, a wipe finds what it
\* found or nothing, and an exchange of a pair that was spent or an orphan when
\* it began gets no further than looking.
Sound(r) ==
  LET q == req[r] IN
  /\ q.at \in HasPair => q.new \in minted \ handed
  /\ q.at \in Minting \union {"find"} => q.user \in Accounts \ fresh
  /\ q.at \in {"look", "find", "undoRefresh", "undoAccess"} => q.old # NoPair
  /\ q.at = "drop" => q.old # NoPair
  /\ q.old # NoPair => q.old \in handed
  /\ q.at \in {"wipeRefresh", "wipeAccess"} =>
       q.seen \subseteq minted /\ \A p \in q.seen : access[p] \in {q.user, NoAccount}
  /\ q.was = "spent" => q.at = "look" /\ q.old \in spent
  /\ q.was = "orphan" =>
       \/ q.at = "look" /\ refresh[q.old] \notin accounts \union fresh
       \/ q.at = "find" /\ q.user \notin accounts \union fresh
       \/ q.at \in {"undoRefresh", "undoAccess"}

\* No two requests mint the same pair.
OwnPairs ==
  \A r, s \in Requests :
    r # s /\ req[r].at \in HasPair /\ req[s].at \in HasPair => req[r].new # req[s].new

IInv == TypeOK /\ StoreInv /\ OwnPairs /\ \A r \in Requests : Sound(r)

\* A step that request s need not notice: what is deleted is not stored again,
\* nobody is created twice, and nobody else hands out the pair s mints.
Calm(s) ==
  /\ UNCHANGED req[s]
  /\ fresh' \subseteq fresh /\ accounts' \union fresh' \subseteq accounts \union fresh
  /\ minted \subseteq minted' /\ handed \subseteq handed' /\ spent \subseteq spent'
  /\ \A p \in minted : access'[p] \in {access[p], NoAccount}
  /\ \A p \in handed : refresh'[p] \in {refresh[p], NoAccount}
  /\ req[s].at \in HasPair => req[s].new \notin handed'

\* A request stays sound through the steps of others.
LEMMA CalmKeepsSound ==
  ASSUME IInv, NEW s \in Requests, Calm(s)
  PROVE  Sound(s)'
<1> USE LoginAssumption DEF IInv, TypeOK, Calm, Minting, HasPair
<1>1. req[s] \in Request /\ req'[s] = req[s] /\ Sound(s)
  OBVIOUS
<1>2. NoAccount \notin accounts \union fresh
  OBVIOUS
<1> QED BY <1>1, <1>2 DEF Sound, Request

\* The records a request goes through.
LEMMA Moves ==
  ASSUME TypeOK, NEW r \in Requests
  PROVE  /\ \A stage : Goes(r, stage) =>
              /\ req'[r] = [req[r] EXCEPT !.at = stage]
              /\ \A s \in Requests \ {r} : req'[s] = req[s]
              /\ stage \in Stages => req' \in [Requests -> Request]
         /\ Ends(r) =>
              /\ req'[r] = Idle
              /\ \A s \in Requests \ {r} : req'[s] = req[s]
              /\ req' \in [Requests -> Request]
         /\ \A q : Begins(r, q) =>
              /\ req'[r] = q
              /\ \A s \in Requests \ {r} : req'[s] = req[s]
              /\ q \in Request => req' \in [Requests -> Request]
<1>1. req \in [Requests -> Request] /\ req[r] \in Request
  BY DEF TypeOK
<1>2. Idle \in Request
  BY DEF Idle, Request, Stages, Endpoints
<1>3. ASSUME NEW stage \in Stages PROVE [req[r] EXCEPT !.at = stage] \in Request
  BY <1>1, <1>3 DEF Request
<1> QED BY <1>1, <1>2, <1>3 DEF Goes, Ends, Begins

\* The requests that arrive, and what a wipe begins with.
LEMMA Arrivals ==
  ASSUME TypeOK
  PROVE  /\ \A e \in Endpoints : [Idle EXCEPT !.at = "create", !.endpoint = e] \in Request
         /\ \A u \in Accounts : /\ [Idle EXCEPT !.at = "mint", !.user = u] \in Request
                                 /\ [Idle EXCEPT !.at = "queue", !.user = u] \in Request
         /\ \A e \in Endpoints, p, q \in Pairs :
              [Idle EXCEPT !.at = "look", !.endpoint = e, !.shown = p,
                           !.old = q, !.was = Fate(q)] \in Request
<1>1. \A p : Fate(p) \in {"fresh", "spent", "orphan"}
  BY DEF Fate
<1> QED BY <1>1 DEF Idle, Request, Stages, Endpoints

LEMMA Wipes ==
  ASSUME TypeOK, NEW u \in Accounts
  PROVE  LET w == Wipe(u) IN
         /\ w \in Request
         /\ w.at = "wipeRefresh" /\ w.user = u /\ w.seen = Owned(u)
         /\ w.old = NoPair /\ w.was = "fresh"
         /\ w.seen \subseteq Pairs /\ \A p \in w.seen : access[p] = u
BY DEF Wipe, Owned, Idle, Request, Stages, Endpoints

\* Every step keeps the types.
LEMMA TypeStep ==
  ASSUME IInv, NEW r \in Requests, Arrive(r) \/ Step(r)
  PROVE  TypeOK'
<1> USE LoginAssumption
      DEF IInv, TypeOK, Request, Stages, Endpoints, Idle, Goes, Ends, Begins,
          Sound, Minting, HasPair, Accounts, Of
<1>1. CASE \E e \in Endpoints : SignUp(r, e)
  <2> PICK e \in Endpoints : SignUp(r, e)
    BY <1>1
  <2> HIDE DEF Request, Idle
  <2> QED BY Arrivals, Moves DEF SignUp
<1>2. CASE \E u \in Accounts : Login(r, u)
  <2> PICK u \in Accounts : Login(r, u)
    BY <1>2
  <2> HIDE DEF Request, Idle
  <2> QED BY Arrivals, Moves DEF Login
<1>3. CASE \E u \in Accounts : ChangePassword(r, u)
  <2> PICK u \in Accounts : ChangePassword(r, u)
    BY <1>3
  <2> HIDE DEF Request, Idle
  <2> QED BY Arrivals, Moves DEF ChangePassword
<1>4. CASE \E u \in Members : TakeTask(r, u)
  <2> PICK u \in Members : TakeTask(r, u)
    BY <1>4
  <2>1. u \in Accounts
    BY DEF Accounts
  <2> HIDE DEF Request, Idle
  <2> QED BY <2>1, Wipes, Moves DEF TakeTask
<1>5. CASE \E e \in Endpoints, p, q \in Pairs : Refresh(r, e, p, q)
  <2> PICK e \in Endpoints, p, q \in Pairs : Refresh(r, e, p, q)
    BY <1>5
  <2> HIDE DEF Request, Idle
  <2> QED BY Arrivals, Moves DEF Refresh
<1>6. CASE \E p \in Pairs : Logout(r, p)
  <2> PICK p \in Pairs : Logout(r, p)
    BY <1>6
  <2>1. access[p] \in Accounts
    BY DEF Logout, Authorised, AuthorisedMember, AuthorisedAdmin
  <2> HIDE DEF Request, Idle
  <2> QED BY <2>1, Wipes, Moves DEF Logout
<1>7. CASE \E p \in Pairs : Remove(r, p)
  <2> PICK p \in Pairs : Remove(r, p)
    BY <1>7
  <2>1. access[p] \in Accounts
    BY DEF Remove, AuthorisedMember
  <2> HIDE DEF Request, Idle
  <2> QED BY <2>1, Wipes, Moves DEF Remove
<1>8. CASE Create(r)
  BY <1>8, Moves DEF Create
<1>9. CASE MintAccess(r)
  <2> PICK p \in Pairs \ minted :
         /\ minted' = minted \union {p}
         /\ access' = [access EXCEPT ![p] = req[r].user]
         /\ req' = [req EXCEPT ![r].at = "pair", ![r].new = p]
    BY <1>9 DEF MintAccess
  <2>1. req[r].user \in Accounts \union {NoAccount}
    OBVIOUS
  <2>2. access' \in [Pairs -> Accounts \union {NoAccount}]
    BY <2>1
  <2>3. req' \in [Requests -> Request]
    <3>1. [req[r] EXCEPT !.at = "pair", !.new = p] \in Request
      <4>1. req[r] \in Request
        OBVIOUS
      <4> HIDE DEF IInv, TypeOK, Sound
      <4> QED BY <4>1 DEF Request, Stages
    <3> HIDE DEF Request
    <3> QED BY <3>1
  <2> QED BY <1>9, <2>2, <2>3 DEF MintAccess
<1>10. CASE MintRefresh(r)
  BY <1>10, Moves DEF MintRefresh
<1>11. CASE Hand(r)
  BY <1>11, Moves DEF Hand
<1>12. CASE Drop(r)
  BY <1>12, Moves DEF Drop
<1>13. CASE Look(r)
  BY <1>13, Moves DEF Look, Refused
<1>14. CASE Find(r)
  BY <1>14, Moves DEF Find, Refused
<1>15. CASE UndoRefresh(r)
  BY <1>15, Moves DEF UndoRefresh
<1>16. CASE UndoAccess(r)
  BY <1>16, Moves DEF UndoAccess
<1>17. CASE Queue(r)
  <2>1. req' \in [Requests -> Request]
    BY <1>17, Moves DEF Queue
  <2>2. pending' \in [Members -> 0 .. MaxPending]
    <3>1. ASSUME NEW m \in Members
          PROVE  m = req[r].user /\ pending[m] < MaxPending
                   => pending[m] + 1 \in 0 .. MaxPending
      OBVIOUS
    <3> QED BY <1>17, <3>1 DEF Queue
  <2> QED BY <1>17, <2>1, <2>2 DEF Queue
<1>18. CASE WipeRefresh(r)
  BY <1>18, Moves DEF WipeRefresh
<1>19. CASE WipeAccess(r)
  BY <1>19, Moves DEF WipeAccess
<1>20. CASE Fail(r)
  BY <1>20, Moves DEF Fail
<1> QED BY <1>1, <1>2, <1>3, <1>4, <1>5, <1>6, <1>7, <1>8, <1>9, <1>10, <1>11,
           <1>12, <1>13, <1>14, <1>15, <1>16, <1>17, <1>18, <1>19, <1>20
      DEF Arrive, Step

\* Every step keeps the store in order.
LEMMA StoreStep ==
  ASSUME IInv, NEW r \in Requests, Arrive(r) \/ Step(r)
  PROVE  StoreInv'
<1> USE LoginAssumption
      DEF IInv, TypeOK, Request, StoreInv, Sound, Minting, HasPair, Of, Goes,
          Ends, Begins, Idle
<1>1. CASE \E e \in Endpoints : SignUp(r, e)
  BY <1>1, Moves DEF SignUp
<1>2. CASE \E u \in Accounts : Login(r, u)
  BY <1>2, Moves DEF Login
<1>3. CASE \E u \in Accounts : ChangePassword(r, u)
  BY <1>3, Moves DEF ChangePassword
<1>4. CASE \E u \in Members : TakeTask(r, u)
  BY <1>4, Moves DEF TakeTask, Wipe, Owned
<1>5. CASE \E e \in Endpoints, p, q \in Pairs : Refresh(r, e, p, q)
  BY <1>5, Moves DEF Refresh, Fate
<1>6. CASE \E p \in Pairs : Logout(r, p)
  BY <1>6, Moves DEF Logout, Wipe, Owned, Authorised, AuthorisedMember,
     AuthorisedAdmin
<1>7. CASE \E p \in Pairs : Remove(r, p)
  BY <1>7, Moves DEF Remove, Wipe, Owned, AuthorisedMember
<1>8. CASE Create(r)
  BY <1>8, Moves DEF Create
<1>9. CASE MintAccess(r)
  BY <1>9, Moves DEF MintAccess
<1>10. CASE MintRefresh(r)
  BY <1>10, Moves DEF MintRefresh
<1>11. CASE Hand(r)
  BY <1>11, Moves DEF Hand
<1>12. CASE Drop(r)
  BY <1>12, Moves DEF Drop
<1>13. CASE Look(r)
  BY <1>13, Moves DEF Look, Refused
<1>14. CASE Find(r)
  BY <1>14, Moves DEF Find, Refused
<1>15. CASE UndoRefresh(r)
  BY <1>15, Moves DEF UndoRefresh
<1>16. CASE UndoAccess(r)
  BY <1>16, Moves DEF UndoAccess
<1>17. CASE Queue(r)
  BY <1>17, Moves DEF Queue
<1>18. CASE WipeRefresh(r)
  BY <1>18, Moves DEF WipeRefresh
<1>19. CASE WipeAccess(r)
  BY <1>19, Moves DEF WipeAccess
<1>20. CASE Fail(r)
  BY <1>20, Moves DEF Fail
<1> QED BY <1>1, <1>2, <1>3, <1>4, <1>5, <1>6, <1>7, <1>8, <1>9, <1>10, <1>11,
           <1>12, <1>13, <1>14, <1>15, <1>16, <1>17, <1>18, <1>19, <1>20
      DEF Arrive, Step

\* No other request need notice a step.
LEMMA CalmStep ==
  ASSUME IInv, NEW r \in Requests, Arrive(r) \/ Step(r), NEW s \in Requests \ {r}
  PROVE  Calm(s)
<1> USE LoginAssumption
      DEF IInv, TypeOK, Request, StoreInv, OwnPairs, Sound, Minting, HasPair,
          Of, Calm, Goes, Ends, Begins, Idle
<1>1. CASE \E e \in Endpoints : SignUp(r, e)
  BY <1>1, Moves DEF SignUp
<1>2. CASE \E u \in Accounts : Login(r, u)
  BY <1>2, Moves DEF Login
<1>3. CASE \E u \in Accounts : ChangePassword(r, u)
  BY <1>3, Moves DEF ChangePassword
<1>4. CASE \E u \in Members : TakeTask(r, u)
  BY <1>4, Moves DEF TakeTask, Wipe, Owned
<1>5. CASE \E e \in Endpoints, p, q \in Pairs : Refresh(r, e, p, q)
  BY <1>5, Moves DEF Refresh, Fate
<1>6. CASE \E p \in Pairs : Logout(r, p)
  BY <1>6, Moves DEF Logout, Wipe, Owned, Authorised, AuthorisedMember,
     AuthorisedAdmin
<1>7. CASE \E p \in Pairs : Remove(r, p)
  BY <1>7, Moves DEF Remove, Wipe, Owned, AuthorisedMember
<1>8. CASE Create(r)
  BY <1>8, Moves DEF Create
<1>9. CASE MintAccess(r)
  BY <1>9, Moves DEF MintAccess
<1>10. CASE MintRefresh(r)
  BY <1>10, Moves DEF MintRefresh
<1>11. CASE Hand(r)
  BY <1>11, Moves DEF Hand
<1>12. CASE Drop(r)
  BY <1>12, Moves DEF Drop
<1>13. CASE Look(r)
  BY <1>13, Moves DEF Look, Refused
<1>14. CASE Find(r)
  BY <1>14, Moves DEF Find, Refused
<1>15. CASE UndoRefresh(r)
  BY <1>15, Moves DEF UndoRefresh
<1>16. CASE UndoAccess(r)
  BY <1>16, Moves DEF UndoAccess
<1>17. CASE Queue(r)
  BY <1>17, Moves DEF Queue
<1>18. CASE WipeRefresh(r)
  BY <1>18, Moves DEF WipeRefresh
<1>19. CASE WipeAccess(r)
  BY <1>19, Moves DEF WipeAccess
<1>20. CASE Fail(r)
  BY <1>20, Moves DEF Fail
<1> QED BY <1>1, <1>2, <1>3, <1>4, <1>5, <1>6, <1>7, <1>8, <1>9, <1>10, <1>11,
           <1>12, <1>13, <1>14, <1>15, <1>16, <1>17, <1>18, <1>19, <1>20
      DEF Arrive, Step

\* Only MintAccess takes a pair, and one without ids.
LEMMA OwnStep ==
  ASSUME IInv, NEW r \in Requests, Arrive(r) \/ Step(r)
  PROVE  OwnPairs'
<1> USE LoginAssumption
      DEF IInv, TypeOK, Request, StoreInv, OwnPairs, Sound, Minting, HasPair,
          Of, Goes, Ends, Begins, Idle
<1>1. CASE \E e \in Endpoints : SignUp(r, e)
  BY <1>1, Moves DEF SignUp
<1>2. CASE \E u \in Accounts : Login(r, u)
  BY <1>2, Moves DEF Login
<1>3. CASE \E u \in Accounts : ChangePassword(r, u)
  BY <1>3, Moves DEF ChangePassword
<1>4. CASE \E u \in Members : TakeTask(r, u)
  <2> PICK u \in Members : TakeTask(r, u)
    BY <1>4
  <2>1. u \in Accounts
    BY DEF Accounts
  <2> HIDE DEF Request, Idle
  <2> QED BY <2>1, Wipes, Moves DEF TakeTask
<1>5. CASE \E e \in Endpoints, p, q \in Pairs : Refresh(r, e, p, q)
  BY <1>5, Moves DEF Refresh, Fate
<1>6. CASE \E p \in Pairs : Logout(r, p)
  <2> PICK p \in Pairs : Logout(r, p)
    BY <1>6
  <2>1. access[p] \in Accounts
    BY DEF Logout, Authorised, AuthorisedMember, AuthorisedAdmin
  <2> HIDE DEF Request, Idle
  <2> QED BY <2>1, Wipes, Moves DEF Logout
<1>7. CASE \E p \in Pairs : Remove(r, p)
  <2> PICK p \in Pairs : Remove(r, p)
    BY <1>7
  <2>1. access[p] \in Accounts
    BY DEF Remove, AuthorisedMember
  <2> HIDE DEF Request, Idle
  <2> QED BY <2>1, Wipes, Moves DEF Remove
<1>8. CASE Create(r)
  BY <1>8, Moves DEF Create
<1>9. CASE MintAccess(r)
  BY <1>9, Moves DEF MintAccess
<1>10. CASE MintRefresh(r)
  BY <1>10, Moves DEF MintRefresh
<1>11. CASE Hand(r)
  BY <1>11, Moves DEF Hand
<1>12. CASE Drop(r)
  BY <1>12, Moves DEF Drop
<1>13. CASE Look(r)
  BY <1>13, Moves DEF Look, Refused
<1>14. CASE Find(r)
  BY <1>14, Moves DEF Find, Refused
<1>15. CASE UndoRefresh(r)
  BY <1>15, Moves DEF UndoRefresh
<1>16. CASE UndoAccess(r)
  BY <1>16, Moves DEF UndoAccess
<1>17. CASE Queue(r)
  BY <1>17, Moves DEF Queue
<1>18. CASE WipeRefresh(r)
  BY <1>18, Moves DEF WipeRefresh
<1>19. CASE WipeAccess(r)
  BY <1>19, Moves DEF WipeAccess
<1>20. CASE Fail(r)
  BY <1>20, Moves DEF Fail
<1> QED BY <1>1, <1>2, <1>3, <1>4, <1>5, <1>6, <1>7, <1>8, <1>9, <1>10, <1>11,
           <1>12, <1>13, <1>14, <1>15, <1>16, <1>17, <1>18, <1>19, <1>20
      DEF Arrive, Step

\* The request whose step it is stays sound.
LEMMA SoundStep ==
  ASSUME IInv, NEW r \in Requests, Arrive(r) \/ Step(r)
  PROVE  Sound(r)'
<1> USE LoginAssumption
      DEF IInv, TypeOK, Request, StoreInv, Sound, Minting, HasPair, Of, Goes,
          Ends, Begins, Idle, Accounts
<1>1. CASE \E e \in Endpoints : SignUp(r, e)
  BY <1>1, Moves DEF SignUp
<1>2. CASE \E u \in Accounts : Login(r, u)
  BY <1>2, Moves DEF Login
<1>3. CASE \E u \in Accounts : ChangePassword(r, u)
  BY <1>3, Moves DEF ChangePassword
<1>4. CASE \E u \in Members : TakeTask(r, u)
  <2> PICK u \in Members : TakeTask(r, u)
    BY <1>4
  <2>1. u \in Accounts
    BY DEF Accounts
  <2> HIDE DEF Request, Idle
  <2> QED BY <2>1, Wipes, Moves DEF TakeTask
<1>5. CASE \E e \in Endpoints, p, q \in Pairs : Refresh(r, e, p, q)
  BY <1>5, Moves DEF Refresh, Fate
<1>6. CASE \E p \in Pairs : Logout(r, p)
  <2> PICK p \in Pairs : Logout(r, p)
    BY <1>6
  <2>1. access[p] \in Accounts
    BY DEF Logout, Authorised, AuthorisedMember, AuthorisedAdmin
  <2> HIDE DEF Request, Idle
  <2> QED BY <2>1, Wipes, Moves DEF Logout
<1>7. CASE \E p \in Pairs : Remove(r, p)
  <2> PICK p \in Pairs : Remove(r, p)
    BY <1>7
  <2>1. access[p] \in Accounts
    BY DEF Remove, AuthorisedMember
  <2> HIDE DEF Request, Idle
  <2> QED BY <2>1, Wipes, Moves DEF Remove
<1>8. CASE Create(r)
  BY <1>8, Moves DEF Create
<1>9. CASE MintAccess(r)
  BY <1>9, Moves DEF MintAccess
<1>10. CASE MintRefresh(r)
  BY <1>10, Moves DEF MintRefresh
<1>11. CASE Hand(r)
  BY <1>11, Moves DEF Hand
<1>12. CASE Drop(r)
  BY <1>12, Moves DEF Drop
<1>13. CASE Look(r)
  BY <1>13, Moves DEF Look, Refused
<1>14. CASE Find(r)
  BY <1>14, Moves DEF Find, Refused
<1>15. CASE UndoRefresh(r)
  BY <1>15, Moves DEF UndoRefresh
<1>16. CASE UndoAccess(r)
  BY <1>16, Moves DEF UndoAccess
<1>17. CASE Queue(r)
  BY <1>17, Moves DEF Queue
<1>18. CASE WipeRefresh(r)
  BY <1>18, Moves DEF WipeRefresh
<1>19. CASE WipeAccess(r)
  BY <1>19, Moves DEF WipeAccess
<1>20. CASE Fail(r)
  BY <1>20, Moves DEF Fail
<1> QED BY <1>1, <1>2, <1>3, <1>4, <1>5, <1>6, <1>7, <1>8, <1>9, <1>10, <1>11,
           <1>12, <1>13, <1>14, <1>15, <1>16, <1>17, <1>18, <1>19, <1>20
      DEF Arrive, Step

\* The invariant, for any number of requests.
LEMMA Invariance == Spec => []IInv
<1>1. Init => IInv
  BY LoginAssumption
     DEF Init, IInv, TypeOK, StoreInv, OwnPairs, Sound, HasPair, Minting, Idle,
         Request, Stages, Endpoints, Accounts
<1>2. IInv /\ [Next]_vars => IInv'
  <2> SUFFICES ASSUME IInv, [Next]_vars PROVE IInv'
    OBVIOUS
  <2>1. CASE UNCHANGED vars
    BY <2>1 DEF vars, IInv, TypeOK, StoreInv, OwnPairs, Sound
  <2>2. CASE Next
    <3> PICK r \in Requests : Arrive(r) \/ Step(r)
      BY <2>2 DEF Next
    <3>1. TypeOK' /\ StoreInv' /\ OwnPairs' /\ Sound(r)'
      BY TypeStep, StoreStep, OwnStep, SoundStep
    <3>2. ASSUME NEW s \in Requests \ {r} PROVE Sound(s)'
      BY CalmStep, CalmKeepsSound
    <3> QED BY <3>1, <3>2 DEF IInv
  <2> QED BY <2>1, <2>2
<1> QED BY <1>1, <1>2, PTL DEF Spec

\* The variables keep their types.
THEOREM Types == Spec => []TypeOK
BY Invariance, PTL DEF IInv

\* What a logout, a deletion or a revocation found authorises nothing any more
\* (delete_all_tokens_with_user_id).
THEOREM Revoked == Spec => []RevokedStayOut
<1>1. IInv => RevokedStayOut
  BY DEF IInv, StoreInv, RevokedStayOut
<1> QED BY <1>1, Invariance, PTL

\* An exchanged pair is not exchanged again
\* (refresh_user_tokens_reduce_number_of_logins).
THEOREM Exchanged == Spec => []NoReplay
<1>1. IInv => NoReplay
  BY DEF IInv, Sound, NoReplay, Minting
<1> QED BY <1>1, Invariance, PTL

\* A pair that a deleted account left behind is not exchanged (remove_user).
THEOREM Orphaned == Spec => []OrphansStayOut
<1>1. IInv => OrphansStayOut
  BY DEF IInv, Sound, OrphansStayOut, Minting
<1> QED BY <1>1, Invariance, PTL
=============================================================================
