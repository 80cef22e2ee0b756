-------------------------- MODULE AuthSessionsProofs --------------------------
(***************************************************************************)
(* Proofs about AuthSessions, for any calls, addresses, passwords and      *)
(* expiries: the inductive invariant, and what it says of refresh tokens,  *)
(* password resets, links and verified addresses.                          *)
(*                                                                         *)
(* Most steps of a handler change no table; Quiet says what they may do.   *)
(* The others write one table, or commit one transaction.                  *)
(***************************************************************************)
EXTENDS AuthSessions, TLAPS

LEMMA RowTypes ==
  ASSUME TypeOK
  PROVE  /\ \A u \in Users : u \in Calls /\ users[u] \in UserRows
         /\ \A s \in Sessions : s \in Calls /\ sessions[s] \in SessionRows
         /\ \A l \in Links : l \in Calls /\ links[l] \in LinkRows
         /\ \A c \in Calls : seen[c] # None => seen[c] \in Sights
BY DEF TypeOK, Users, Sessions, Links

LEMMA NewRows ==
  ASSUME NEW u \in Calls
  PROVE  /\ \A e \in Emails, p \in Passwords : Account(e, p) \in UserRows
         /\ \A p \in Calls \cup {None}, n \in Nat, b \in BOOLEAN :
              Session(u, p, n, b) \in SessionRows
         /\ \A p \in Purposes : Link(u, p) \in LinkRows
BY DEF Account, Session, Link, UserRows, SessionRows, LinkRows

----------------------------------------------------------------------------
(* Steps that change no table *)

Others(c) ==
  \A d \in Calls :
    d # c => /\ pc'[d] = pc[d] /\ call'[d] = call[d]
             /\ seen'[d] = seen[d] /\ held'[d] = held[d]

\* What the next stage of c says about the one before and about the tables.
Moves(c) ==
  /\ pc'[c] \in {"auth", "find"} => pc[c] \in {"idle", "auth"}
  /\ pc'[c] \in {"create", "issue", "rotate", "delete"} => pc[c] = "find"
  /\ pc'[c] = "insert" =>
       /\ pc[c] = "rotate" /\ call'[c] = call[c]
       /\ Active(call[c].token) /\ ~SessionLocked(call[c].token)
  /\ pc'[c] = "mint" => pc[c] = "delete"
  /\ pc'[c] = "commit" =>
       /\ pc[c] = "claim" /\ call'[c] = call[c] /\ seen'[c] = seen[c]
       /\ ~LinkLocked(call[c].token) /\ ~Resetting(seen[c].user)
       /\ Usable(call[c].token) /\ held'[c] = SessionsOf(seen[c].user)
  /\ pc'[c] = "create" => call'[c].op = "register"
  /\ pc'[c] = "revoke" => call'[c].op = "logout"
  /\ pc'[c] \in {"taken", "update"} => call'[c].op = "update"
  /\ pc'[c] \in {"rotate", "insert"} => call'[c].op = "refresh"
  /\ pc'[c] \in {"claim", "commit"} => call'[c].op = "reset"
  /\ pc'[c] = "issue" => seen'[c].resets = users[seen'[c].user].resets
  /\ pc'[c] \in {"issue", "taken", "update", "delete", "mint", "consume",
                 "claim", "commit"} => seen'[c] # None
  /\ seen'[c] # None => seen'[c].user \in Users
  /\ \/ call'[c] = call[c]
     \/ call'[c].op = "update" => call'[c].user \in Users
  /\ pc'[c] \notin {"idle", "mail"}

Quiet(c) ==
  /\ UNCHANGED <<tables, ghosts, mailed>>
  /\ Others(c)
  /\ Moves(c)

\* TypeOK for the handlers.
HandlerType ==
  /\ call \in [Calls -> Requests \cup {[op |-> "none"]}]
  /\ pc \in [Calls -> Stages \cup Ends]
  /\ seen \in [Calls -> Sights \cup {None}]
  /\ held \in [Calls -> SUBSET Calls]

LEMMA EndIsQuiet ==
  ASSUME TypeOK, NEW c \in Calls, NEW outcome \in Ends, End(c, outcome)
  PROVE  Others(c) /\ Moves(c) /\ HandlerType'
BY DEF TypeOK, End, Goto, Others, Moves, HandlerType, Ends, Stages

LEMMA RefuseIsQuiet ==
  ASSUME TypeOK, NEW c \in Calls, Refuse(c) \/ Fail(c)
  PROVE  Quiet(c) /\ HandlerType'
<1>1. End(c, "refused") \/ End(c, "error")
  BY DEF Refuse, Fail
<1>2. QED BY <1>1, EndIsQuiet DEF Quiet, Refuse, Fail, Ends

LEMMA ContinueEffect ==
  ASSUME TypeOK, NEW c \in Calls, NEW stage \in Stages, Continue(c, stage)
  PROVE  /\ UNCHANGED <<tables, ghosts, mailed, call, seen, held>>
         /\ Others(c) /\ HandlerType' /\ pc'[c] = stage
BY DEF TypeOK, Continue, Goto, Others, HandlerType

LEMMA ReadEffect ==
  ASSUME TypeOK, NEW c \in Calls, NEW stage \in Stages, NEW u \in Users,
         Read(c, u, stage)
  PROVE  /\ UNCHANGED <<tables, ghosts, mailed, call, held>>
         /\ Others(c) /\ HandlerType' /\ pc'[c] = stage
         /\ seen'[c] = [user |-> u, email |-> users[u].email,
                        resets |-> users[u].resets]
<1>1. [user |-> u, email |-> users[u].email, resets |-> users[u].resets] \in Sights
  BY RowTypes DEF UserRows, Sights
<1>2. QED BY <1>1 DEF TypeOK, Read, Goto, Others, HandlerType

LEMMA ArriveIsQuiet ==
  ASSUME TypeOK, RowsRefer, NEW c \in Calls, Arrive(c)
  PROVE  Quiet(c) /\ HandlerType'
<1>1. PICK r \in Requests :
        /\ Sendable(r)
        /\ call' = [call EXCEPT ![c] = r]
        /\ Goto(c, IF r.op = "update" THEN "auth" ELSE "find")
  BY DEF Arrive
<1>2. pc'[c] \in {"auth", "find"} /\ pc[c] = "idle"
  BY <1>1 DEF Arrive, Goto, TypeOK
<1>3. Moves(c)
  <2>1. call'[c].op = "update" => call'[c].user \in Users
    BY <1>1 DEF TypeOK, Sendable, Held, RowsRefer
  <2>2. UNCHANGED seen /\ pc[c] = "idle"
    BY DEF Arrive
  <2>3. QED BY <1>2, <2>1, <2>2 DEF Moves, RowsRefer
<1>4. QED
  BY <1>1, <1>3 DEF Quiet, Others, HandlerType, Arrive, Goto, TypeOK, Stages

LEMMA FindIsQuiet ==
  ASSUME IInv, NEW c \in Calls, Find(c) \/ Authenticate(c) \/ MintTwice(c) \/ Taken(c)
  PROVE  Quiet(c) /\ HandlerType'
<1> USE DEF Stages, Ends
<1>0. TypeOK /\ RowsRefer /\ StagesFit
  BY DEF IInv
<1>1. ASSUME NEW u \in Users, NEW stage \in {"issue", "taken", "delete", "consume", "claim"},
             Read(c, u, stage), pc[c] = "find",
             stage = "claim" => Op(c) = "reset", stage = "taken" => Op(c) = "update"
      PROVE  Quiet(c) /\ HandlerType'
  <2>1. /\ UNCHANGED <<tables, ghosts, mailed, call, held>>
        /\ Others(c) /\ HandlerType' /\ pc'[c] = stage
        /\ seen'[c] = [user |-> u, email |-> users[u].email,
                       resets |-> users[u].resets]
    BY <1>0, <1>1, ReadEffect
  <2>2. seen'[c] # None
    BY <1>0, <2>1, RowTypes, AuthAssumption DEF UserRows, Sights
  <2>3. Moves(c)
    BY <1>1, <2>1, <2>2 DEF Moves, Op
  <2>4. QED BY <2>1, <2>3 DEF Quiet
<1>2. ASSUME NEW stage \in {"find", "create", "rotate", "revoke", "update"}, Continue(c, stage),
             \/ stage = "find" /\ pc[c] = "auth"
             \/ stage = "create" /\ pc[c] = "find" /\ Op(c) = "register"
             \/ stage = "revoke" /\ pc[c] = "find" /\ Op(c) = "logout"
             \/ stage = "rotate" /\ pc[c] = "find" /\ Op(c) = "refresh"
             \/ stage = "update" /\ pc[c] = "taken"
      PROVE  Quiet(c) /\ HandlerType'
  <2>1. /\ UNCHANGED <<tables, ghosts, mailed, call, seen, held>>
        /\ Others(c) /\ HandlerType' /\ pc'[c] = stage
    BY <1>0, <1>2, ContinueEffect
  <2>2. Moves(c)
    BY <1>0, <1>2, <2>1 DEF Moves, Op, RowsRefer, StagesFit
  <2>3. QED BY <2>1, <2>2 DEF Quiet
<1>3. ASSUME Refuse(c) \/ Fail(c)
      PROVE  Quiet(c) /\ HandlerType'
  BY <1>0, <1>3, RefuseIsQuiet
<1>4. CASE Authenticate(c)
  BY <1>2, <1>3, <1>4 DEF Authenticate, verifyToken
<1>5. CASE FindNobody(c)
  BY <1>2, <1>3, <1>5 DEF FindNobody
<1>6. CASE Login(c)
  BY <1>1, <1>3, <1>6 DEF Login, WithEmail
<1>7. CASE FindSession(c)
  BY <1>2, <1>3, <1>7 DEF FindSession
<1>8. CASE FindForLogout(c)
  BY <1>2, <1>8 DEF FindForLogout
<1>9. CASE FindUser(c)
  BY <1>0, <1>1, <1>9 DEF FindUser, RowsRefer, Op
<1>10. CASE FindOther(c)
  BY <1>2, <1>3, <1>10 DEF FindOther
<1>11. CASE FindAddressee(c)
  <2>1. ASSUME Answer(c), UNCHANGED <<tables, mailed, ghosts>>
        PROVE  Quiet(c) /\ HandlerType'
    BY <1>0, <2>1, EndIsQuiet DEF Answer, Quiet
  <2>2. QED BY <1>1, <1>11, <2>1 DEF FindAddressee, WithEmail
<1>12. CASE FindLink(c)
  <2>1. Refuse(c) \/ /\ call[c].token \in Links
                     /\ pc[c] = "find" /\ Op(c) \in {"verify", "reset"}
                     /\ Read(c, links[call[c].token].user,
                             IF Op(c) = "verify" THEN "consume" ELSE "claim")
    BY <1>12 DEF FindLink
  <2>2. call[c].token \in Links => links[call[c].token].user \in Users
    BY <1>0 DEF RowsRefer
  <2>3. QED BY <1>1, <1>3, <2>1, <2>2
<1>13. CASE MintTwice(c) \/ Taken(c)
  BY <1>3, <1>13 DEF MintTwice, Taken
<1>14. QED
  BY <1>4, <1>5, <1>6, <1>7, <1>8, <1>9, <1>10, <1>11, <1>12, <1>13 DEF Find

LEMMA LockIsQuiet ==
  ASSUME IInv, NEW c \in Calls, Revoke(c) \/ DeleteLinks(c) \/ Claim(c)
  PROVE  Quiet(c) /\ HandlerType'
<1> USE DEF Stages, Ends
<1>0. TypeOK /\ RowsRefer /\ RotationHoldsToken /\ ResetHoldsLink
  BY DEF IInv
<1>1. CASE Refuse(c)
  BY <1>0, <1>1, RefuseIsQuiet
<1>2. CASE Revoke(c) /\ ~Refuse(c)
  <2>1. /\ Continue(c, "insert") /\ pc[c] = "rotate"
        /\ Active(call[c].token) /\ ~SessionLocked(call[c].token)
    BY <1>2 DEF Revoke
  <2>2. /\ UNCHANGED <<tables, ghosts, mailed, call, seen, held>>
        /\ Others(c) /\ HandlerType' /\ pc'[c] = "insert"
    BY <1>0, <2>1, ContinueEffect
  <2>3. Moves(c)
    BY <1>0, <2>1, <2>2 DEF Moves, Op, RowsRefer, RotationHoldsToken
  <2>4. QED BY <2>2, <2>3 DEF Quiet
<1>3. CASE DeleteLinks(c)
  <2>1. /\ UNCHANGED <<tables, ghosts, mailed, call, seen>>
        /\ Others(c) /\ HandlerType' /\ pc[c] = "delete" /\ pc'[c] = "mint"
    BY <1>0, <1>3 DEF DeleteLinks, Goto, TypeOK, HandlerType, Others, Present, Links
  <2>2. Moves(c)
    BY <1>0, <2>1 DEF Moves, RowsRefer
  <2>3. QED BY <2>1, <2>2 DEF Quiet
<1>4. CASE Claim(c) /\ ~Refuse(c)
  <2>1. /\ pc[c] = "claim" /\ Usable(call[c].token)
        /\ ~LinkLocked(call[c].token) /\ ~Resetting(seen[c].user)
        /\ held' = [held EXCEPT ![c] = SessionsOf(seen[c].user)]
        /\ pc' = [pc EXCEPT ![c] = "commit"]
        /\ UNCHANGED <<tables, mailed, call, seen, ghosts>>
    BY <1>4 DEF Claim, Goto
  <2>2. /\ Others(c) /\ HandlerType' /\ pc'[c] = "commit"
        /\ held'[c] = SessionsOf(seen[c].user)
    BY <1>0, <2>1 DEF TypeOK, HandlerType, Others, SessionsOf, Sessions
  <2>3. Moves(c)
    BY <1>0, <2>1, <2>2 DEF Moves, Op, RowsRefer, ResetHoldsLink
  <2>4. QED BY <2>1, <2>2, <2>3 DEF Quiet
<1>5. QED BY <1>1, <1>2, <1>3, <1>4

LEMMA QuietKeeps ==
  ASSUME IInv, NEW c \in Calls, Quiet(c), HandlerType'
  PROVE  IInv'
<1>0. /\ TypeOK /\ UNCHANGED <<users, sessions, links, mailed, overlap, uses, moved>>
      /\ Others(c) /\ Moves(c)
  BY DEF IInv, Quiet, tables, ghosts
<1>1. TypeOK'
  BY <1>0 DEF TypeOK, HandlerType
<1>2. /\ Users' = Users /\ Sessions' = Sessions /\ Links' = Links
      /\ \A s \in Calls : Active(s)' = Active(s)
      /\ \A l \in Calls : Usable(l)' = Usable(l)
      /\ \A u \in Calls : SessionsOf(u)' = SessionsOf(u)
  BY <1>0 DEF Users, Sessions, Links, Active, Usable, SessionsOf
<1>3. RowsAreNew'
  BY <1>0 DEF IInv, RowsAreNew, Others, Moves
<1>4. RowsRefer'
  BY <1>0, <1>2 DEF IInv, RowsRefer, Others, Moves, Op
<1>11. StagesFit'
  BY <1>0 DEF IInv, StagesFit, Others, Moves, Op
<1>5. RotationHoldsToken'
  <2>1. ASSUME NEW d \in Calls, pc'[d] \in {"rotate", "insert"}
        PROVE  call'[d].op = "refresh"
    BY <1>0, <2>1 DEF IInv, RotationHoldsToken, Others, Moves, Op
  <2>2. ASSUME NEW d \in Calls, pc'[d] = "insert"
        PROVE  /\ sessions'[call'[d].token] # None
               /\ sessions'[call'[d].token].end = "no"
               /\ \A e \in Calls :
                    pc'[e] = "insert" /\ call'[e].token = call'[d].token => e = d
    BY <1>0, <2>2 DEF IInv, RotationHoldsToken, Others, Moves, Active, SessionLocked
  <2>3. QED BY <2>1, <2>2 DEF RotationHoldsToken, Op, Active
<1>6. ResetHoldsLink'
  <2>1. ASSUME NEW d \in Calls, pc'[d] \in {"claim", "commit"}
        PROVE  call'[d].op = "reset"
    BY <1>0, <2>1 DEF IInv, ResetHoldsLink, Others, Moves, Op
  <2>2. ASSUME NEW d \in Calls, pc'[d] = "commit", d # c
        PROVE  pc[d] = "commit" /\ UNCHANGED <<call[d], seen[d], held[d]>>
    BY <1>0, <2>2 DEF Others
  <2>3. ASSUME NEW d \in Calls, pc'[d] = "commit"
        PROVE  /\ Usable(call'[d].token)
               /\ \A e \in Calls :
                    pc'[e] = "commit" /\ (\/ call'[e].token = call'[d].token
                                          \/ seen'[e].user = seen'[d].user) => e = d
               /\ \A s \in SessionsOf(seen'[d].user) :
                    s \in held'[d] \/ sessions[s].late
    BY <1>0, <2>2, <2>3 DEF IInv, ResetHoldsLink, Moves, LinkLocked, Resetting
  <2>4. QED
    BY <1>0, <2>1, <2>3 DEF ResetHoldsLink, Op, Usable, Links, SessionsOf, Sessions, Active
<1>7. LoginKnowsPassword'
  BY <1>0 DEF IInv, LoginKnowsPassword, Others, Moves
<1>8. UnusedLinks' /\ LinksWorkOnce'
  BY <1>0, <1>2 DEF IInv, UnusedLinks, LinksWorkOnce
<1>9. SessionsEndOnce' /\ ResetEndsSessions'
  BY <1>0 DEF IInv, SessionsEndOnce, ResetEndsSessions, Sessions, Active
<1>10. QED
  BY <1>1, <1>3, <1>4, <1>11, <1>5, <1>6, <1>7, <1>8, <1>9 DEF IInv

----------------------------------------------------------------------------
(* Steps that write *)

\* The handler ends, or goes on to its e-mail.
Leaves(c) ==
  /\ Others(c) /\ UNCHANGED call
  /\ pc'[c] \in Ends \cup {"mail"}
  /\ pc'[c] = "mail" => seen'[c] # None
  /\ seen'[c] # None => seen'[c].user \in Users'

\* Rows appear for c only, and refer to rows that are there.
Grows(c) ==
  /\ Users \subseteq Users'
  /\ \A d \in Calls :
       d # c => /\ users[d] = None => users'[d] = None
                /\ sessions[d] = None => sessions'[d] = None
                /\ links[d] = None => links'[d] = None
                /\ uses'[d] = uses[d] \/ links[d] # None
  /\ \A s \in Sessions' : /\ sessions'[s].user \in Users'
                          /\ sessions'[s].parent \in Sessions' \cup {None}
  /\ \A l \in Links' : links'[l].user \in Users'

\* Only a session that is active and that nobody rotates ends; a new one goes
\* back to the token that c has locked and ends with this step.
SessionWrite(c) ==
  /\ \A s \in Calls :
       s # c /\ sessions'[s] # None =>
         /\ sessions[s] # None /\ sessions'[s].parent = sessions[s].parent
         /\ \/ sessions'[s].end = sessions[s].end
            \/ /\ Active(s)
               /\ \A d \in Calls : pc[d] = "insert" /\ call[d].token = s => d = c
  /\ \A s \in Calls : s # c /\ sessions[s] # None => sessions'[s] # None
  /\ \/ sessions[c] = None /\ sessions'[c] = None
     \/ /\ sessions[c] # None /\ sessions'[c] # None
        /\ sessions'[c].parent = sessions[c].parent
        /\ \/ sessions'[c].end = sessions[c].end
           \/ /\ Active(c)
              /\ \A d \in Calls : pc[d] = "insert" /\ call[d].token = c => d = c
     \/ /\ sessions[c] = None /\ sessions'[c] # None
        /\ \/ sessions'[c].parent = None
           \/ /\ pc[c] = "insert" /\ sessions'[c].parent = call[c].token
              /\ sessions'[call[c].token].end = "rotated"

\* A link becomes usable for c only, works once, and stays with its reset.
LinkWrite(c) ==
  /\ \A l \in Calls :
       \/ /\ uses'[l] = uses[l]
          /\ Usable(l)' => Usable(l) \/ (l = c /\ uses[c] = 0)
       \/ uses'[l] = uses[l] + 1 /\ Usable(l) /\ ~Usable(l)'
  /\ \A d \in Calls :
       d # c /\ pc[d] = "commit" =>
         call[d].token \in Links' /\ ~links'[call[d].token].consumed

\* No reset: what becomes active is late if a reset is under way.
NoReset(c) ==
  /\ \A u \in Users : users'[u].resets = users[u].resets
  /\ UNCHANGED overlap
  /\ \A s \in Calls :
       Active(s)' =>
         \/ /\ Active(s)
            /\ sessions'[s].user = sessions[s].user
            /\ sessions'[s].resets = sessions[s].resets
            /\ sessions'[s].late = sessions[s].late
         \/ /\ \/ sessions'[s].late
               \/ sessions'[s].resets = users'[sessions'[s].user].resets
            /\ Resetting(sessions'[s].user) => sessions'[s].late

LEMMA WriteKeepsSessions ==
  ASSUME IInv, NEW c \in Calls, Leaves(c), SessionWrite(c)
  PROVE  RotationHoldsToken' /\ SessionsEndOnce'
<1>0. /\ RotationHoldsToken /\ SessionsEndOnce /\ RowsRefer
      /\ \A d \in Calls : d # c => pc'[d] = pc[d]
      /\ pc'[c] \notin {"rotate", "insert"} /\ UNCHANGED call
  BY DEF IInv, Leaves, Others, Ends
<1>1. ASSUME NEW s \in Calls, sessions[s] # None
      PROVE  /\ sessions'[s] # None /\ sessions'[s].parent = sessions[s].parent
             /\ \/ sessions'[s].end = sessions[s].end
                \/ /\ Active(s)
                   /\ \A d \in Calls : pc[d] = "insert" /\ call[d].token = s => d = c
  BY <1>1 DEF SessionWrite
<1>2. RotationHoldsToken'
  <2>1. ASSUME NEW d \in Calls, pc'[d] = "insert"
        PROVE  /\ sessions'[call[d].token] # None
               /\ sessions'[call[d].token].end = "no"
    <3>1. d # c /\ pc[d] = "insert" /\ Active(call[d].token)
      BY <1>0, <2>1 DEF RotationHoldsToken
    <3>2. call[d].token \in Calls
      <4>1. Op(d) = "refresh" /\ call[d] \in Requests \cup {[op |-> "none"]}
        BY <1>0, <3>1 DEF RotationHoldsToken, IInv, TypeOK
      <4>2. QED BY <4>1 DEF Requests, Op
    <3>3. QED BY <1>1, <3>1, <3>2 DEF Active
  <2>2. QED BY <1>0, <2>1 DEF RotationHoldsToken, Active, Op
<1>3. SessionsEndOnce'
  <2>1. ASSUME NEW s \in Calls, sessions'[s] # None, sessions'[s].parent # None
        PROVE  \/ /\ sessions[s] # None /\ sessions[s].parent = sessions'[s].parent
                  /\ sessions[s].parent \in Sessions
                  /\ sessions[sessions[s].parent].end = "rotated"
               \/ /\ s = c /\ sessions[c] = None /\ pc[c] = "insert"
                  /\ sessions'[s].parent = call[c].token
                  /\ Active(call[c].token)
                  /\ sessions'[call[c].token].end = "rotated"
    <3>1. \/ sessions[s] # None /\ sessions[s].parent = sessions'[s].parent
          \/ /\ s = c /\ sessions[c] = None /\ pc[c] = "insert"
             /\ sessions'[s].parent = call[c].token
             /\ sessions'[call[c].token].end = "rotated"
      BY <2>1 DEF SessionWrite
    <3>2. QED
      BY <1>0, <2>1, <3>1
         DEF RotationHoldsToken, SessionsEndOnce, RowsRefer, Sessions
  <2>2. ASSUME NEW s \in Calls, sessions'[s] # None, sessions'[s].parent # None
        PROVE  sessions'[sessions'[s].parent].end = "rotated"
    BY <1>1, <2>1, <2>2 DEF Active, Sessions
  <2>3. ASSUME NEW s \in Calls, sessions'[s] # None, sessions'[s].parent # None,
               NEW t \in Calls, sessions'[t] # None,
               sessions'[t].parent = sessions'[s].parent
        PROVE  t = s
    BY <1>0, <2>1, <2>3 DEF Active, Sessions, SessionsEndOnce
  <2>4. QED BY <2>2, <2>3 DEF SessionsEndOnce, Sessions
<1>4. QED BY <1>2, <1>3

LEMMA WriteKeepsRows ==
  ASSUME IInv, NEW c \in Calls, Leaves(c), Grows(c)
  PROVE  RowsAreNew' /\ RowsRefer' /\ StagesFit'
<1>1. RowsAreNew'
  BY DEF IInv, RowsAreNew, Leaves, Grows, Others, Ends
<1>2. RowsRefer'
  BY DEF IInv, RowsRefer, Leaves, Grows, Others, Ends, Op
<1>3. StagesFit'
  BY DEF IInv, StagesFit, Leaves, Others, Ends, Op
<1>4. QED BY <1>1, <1>2, <1>3

LEMMA WriteKeepsLinks ==
  ASSUME IInv, NEW c \in Calls, Leaves(c), LinkWrite(c)
  PROVE  UnusedLinks' /\ LinksWorkOnce'
<1>1. ASSUME NEW l \in Calls
      PROVE  (Usable(l)' => uses'[l] = 0) /\ uses'[l] <= 1
  <2>1. uses[l] \in Nat /\ uses[l] <= 1 /\ (Usable(l) => uses[l] = 0)
    BY DEF IInv, TypeOK, UnusedLinks, LinksWorkOnce
  <2>2. QED BY <2>1 DEF LinkWrite
<1>2. QED BY <1>1 DEF UnusedLinks, LinksWorkOnce

LEMMA WriteKeepsResets ==
  ASSUME IInv, NEW c \in Calls, Leaves(c), Grows(c), LinkWrite(c), NoReset(c)
  PROVE  ResetHoldsLink' /\ LoginKnowsPassword' /\ ResetEndsSessions'
<1>0. /\ ResetHoldsLink /\ LoginKnowsPassword /\ ResetEndsSessions /\ RowsRefer
      /\ pc'[c] \notin {"issue", "claim", "commit"} /\ UNCHANGED call
      /\ \A d \in Calls : d # c => /\ pc'[d] = pc[d] /\ seen'[d] = seen[d]
                                   /\ held'[d] = held[d]
  BY DEF IInv, Leaves, Others, Ends
<1>1. ResetHoldsLink'
  <2>1. ASSUME NEW d \in Calls, pc'[d] = "commit"
        PROVE  /\ d # c /\ pc[d] = "commit"
               /\ \A s \in Calls :
                    Active(s)' /\ sessions'[s].user = seen[d].user =>
                      s \in held[d] \/ sessions'[s].late
    <3>1. d # c /\ pc[d] = "commit"
      BY <1>0, <2>1
    <3>2. Resetting(seen[d].user)
      BY <3>1 DEF Resetting
    <3>3. \A s \in Calls : Active(s) /\ sessions[s].user = seen[d].user =>
            s \in held[d] \/ sessions[s].late
      BY <1>0, <3>1 DEF ResetHoldsLink, SessionsOf, Sessions, Active
    <3>4. QED BY <3>1, <3>2, <3>3 DEF NoReset
  <2>2. ASSUME NEW d \in Calls, pc'[d] = "commit"
        PROVE  call[d].token \in Links' /\ ~links'[call[d].token].consumed
    BY <2>1, <2>2 DEF LinkWrite
  <2>3. \A d \in Calls : pc'[d] = "commit" =>
          \A e \in Calls :
            pc'[e] = "commit" /\ (\/ call[e].token = call[d].token
                                  \/ seen'[e].user = seen'[d].user) => e = d
    BY <1>0, <2>1 DEF ResetHoldsLink
  <2>4. \A d \in Calls : pc'[d] \in {"claim", "commit"} => call[d].op = "reset"
    BY <1>0 DEF ResetHoldsLink, Op
  <2>5. QED
    BY <1>0, <2>1, <2>2, <2>3, <2>4
       DEF ResetHoldsLink, SessionsOf, Sessions, Active, Usable, Links, Op
<1>2. LoginKnowsPassword'
  <2>1. ASSUME NEW d \in Calls, pc'[d] = "issue"
        PROVE  overlap[d] \/ seen'[d].resets = users'[seen'[d].user].resets
    <3>1. pc[d] = "issue" /\ seen'[d] = seen[d] /\ seen[d].user \in Users
      BY <1>0, <2>1 DEF RowsRefer
    <3>2. QED BY <1>0, <3>1 DEF LoginKnowsPassword, NoReset
  <2>2. QED BY <2>1 DEF LoginKnowsPassword, NoReset
<1>3. ResetEndsSessions'
  <2>1. ASSUME NEW s \in Calls, Active(s)'
        PROVE  \/ sessions'[s].resets = users'[sessions'[s].user].resets
               \/ sessions'[s].late
    BY <1>0, <2>1 DEF NoReset, ResetEndsSessions, RowsRefer, Sessions, Active
  <2>2. QED BY <2>1 DEF ResetEndsSessions, Sessions, Active
<1>4. QED BY <1>1, <1>2, <1>3

LEMMA WriteKeeps ==
  ASSUME IInv, TypeOK', NEW c \in Calls,
         Leaves(c), Grows(c), SessionWrite(c), LinkWrite(c), NoReset(c)
  PROVE  IInv'
BY WriteKeepsSessions, WriteKeepsRows, WriteKeepsLinks, WriteKeepsResets DEF IInv

LEMMA AnswerEffect ==
  ASSUME TypeOK, NEW c \in Calls, Answer(c)
  PROVE  /\ Others(c) /\ HandlerType' /\ UNCHANGED call
         /\ pc'[c] \in Ends /\ pc'[c] # "mail" /\ seen'[c] = None
BY DEF TypeOK, Answer, End, Goto, Others, HandlerType, Ends, Stages

\* Nothing happens to the sessions.
LEMMA SameSessions ==
  ASSUME NEW c \in Calls, UNCHANGED <<sessions, overlap>>,
         \A u \in Users : users'[u].resets = users[u].resets
  PROVE  SessionWrite(c) /\ NoReset(c)
BY DEF SessionWrite, NoReset, Active

LEMMA SameLinks ==
  ASSUME IInv, NEW c \in Calls, UNCHANGED <<links, uses>>
  PROVE  LinkWrite(c)
<1>1. Links' = Links /\ \A l : Usable(l)' = Usable(l)
  BY DEF Usable, Links
<1>2. \A d \in Calls :
        pc[d] = "commit" => call[d].token \in Links /\ ~links[call[d].token].consumed
  BY DEF IInv, ResetHoldsLink, Usable
<1>3. QED BY <1>1, <1>2 DEF LinkWrite

LEMMA RequestTypes ==
  ASSUME TypeOK, NEW c \in Calls
  PROVE  /\ Op(c) \in {"register", "update"} => call[c].email \in Emails
         /\ Op(c) \in {"register", "reset"} => call[c].password \in Passwords
         /\ Op(c) \in {"refresh", "logout", "reset"} => call[c].token \in Calls
         /\ Op(c) = "update" => call[c].user \in Calls
<1>1. call[c] \in Requests \cup {[op |-> "none"]}
  BY DEF TypeOK
<1>2. QED BY <1>1 DEF Requests, Op

LEMMA CreateKeeps ==
  ASSUME IInv, NEW c \in Calls, Create(c)
  PROVE  IInv'
<1>0. /\ TypeOK /\ pc[c] = "create" /\ users[c] = None /\ sessions[c] = None
      /\ links[c] = None /\ uses[c] = 0 /\ RowsRefer
  BY DEF IInv, RowsAreNew, Create
<1>1. call[c].email \in Emails /\ call[c].password \in Passwords
  BY <1>0, RequestTypes DEF IInv, StagesFit
<1>2. /\ Account(call[c].email, call[c].password) \in UserRows
      /\ Session(c, None, 0, FALSE) \in SessionRows
      /\ Link(c, "EMAIL_VERIFICATION") \in LinkRows
      /\ [user |-> c, email |-> call[c].email, resets |-> 0] \in Sights
  BY <1>1, NewRows DEF Purposes, Sights
<1>3. TypeOK'
  BY <1>0, <1>2 DEF TypeOK, Create, Goto, Stages, ghosts
<1>4. /\ \A d \in Calls : d # c => /\ users'[d] = users[d]
                                   /\ sessions'[d] = sessions[d]
                                   /\ links'[d] = links[d]
      /\ users'[c] = Account(call[c].email, call[c].password)
      /\ sessions'[c] = Session(c, None, 0, FALSE)
      /\ links'[c] = Link(c, "EMAIL_VERIFICATION")
      /\ seen'[c] = [user |-> c, email |-> call[c].email, resets |-> 0]
      /\ UNCHANGED <<uses, overlap>>
  BY <1>0 DEF TypeOK, Create, ghosts
<1>5. /\ users'[c] # None /\ sessions'[c] # None /\ links'[c] # None /\ seen'[c] # None
  BY <1>2, <1>4, AuthAssumption
<1>6. Leaves(c)
  BY <1>0, <1>4, <1>5 DEF Create, Goto, TypeOK, Leaves, Others, Users
<1>7. Grows(c)
  BY <1>0, <1>4, <1>5 DEF Grows, RowsRefer, Users, Sessions, Links, Session, Link
<1>8. SessionWrite(c) /\ LinkWrite(c)
  <2>1. SessionWrite(c)
    BY <1>0, <1>4, <1>5 DEF SessionWrite, Session
  <2>2. \A d \in Calls : pc[d] = "commit" =>
          call[d].token \in Links /\ ~links[call[d].token].consumed
    BY DEF IInv, ResetHoldsLink, Usable
  <2>3. QED BY <1>0, <1>4, <1>5, <2>1, <2>2 DEF LinkWrite, Usable, Links
<1>9. NoReset(c)
  <2>1. ASSUME NEW u \in Users
        PROVE  users'[u].resets = users[u].resets
    BY <1>0, <1>4, <2>1 DEF Users
  <2>2. ~Resetting(c)
    BY <1>0 DEF IInv, RowsRefer, Resetting, Users
  <2>3. /\ sessions'[c].user = c /\ sessions'[c].resets = 0 /\ users'[c].resets = 0
    BY <1>4 DEF Session, Account
  <2>4. QED BY <1>4, <2>1, <2>2, <2>3 DEF NoReset, Active
<1>10. QED BY <1>3, <1>6, <1>7, <1>8, <1>9, WriteKeeps

LEMMA MailKeeps ==
  ASSUME IInv, NEW c \in Calls, Mail(c)
  PROVE  IInv'
<1>0. /\ TypeOK /\ RowsRefer /\ UNCHANGED <<users, sessions, links, overlap, uses, moved>>
      /\ Others(c) /\ HandlerType' /\ UNCHANGED call
      /\ pc'[c] \in Ends /\ pc'[c] # "mail" /\ seen'[c] = None
  BY AnswerEffect DEF IInv, Mail, tables, ghosts
<1>1. mailed' \in [Calls -> Emails \cup {None}]
  <2>1. seen[c].email \in Emails
    BY <1>0 DEF Mail, RowsRefer, TypeOK, Sights
  <2>2. QED BY <1>0, <2>1 DEF Mail, TypeOK
<1>2. TypeOK'
  BY <1>0, <1>1 DEF TypeOK, HandlerType
<1>3. Leaves(c) /\ Grows(c)
  BY <1>0 DEF Leaves, Grows, RowsRefer, Users, Sessions, Links
<1>4. SessionWrite(c) /\ NoReset(c)
  BY <1>0, SameSessions
<1>5. LinkWrite(c)
  BY <1>0, SameLinks
<1>6. QED BY <1>2, <1>3, <1>4, <1>5, WriteKeeps

LEMMA IssueKeeps ==
  ASSUME IInv, NEW c \in Calls, Issue(c)
  PROVE  IInv'
<1>0. /\ TypeOK /\ RowsRefer /\ UNCHANGED <<users, links, mailed, overlap, uses, moved>>
      /\ Others(c) /\ HandlerType' /\ UNCHANGED call
      /\ pc'[c] \in Ends /\ pc'[c] # "mail" /\ seen'[c] = None
      /\ pc[c] = "issue" /\ sessions[c] = None
  BY AnswerEffect DEF IInv, Issue, ghosts, RowsAreNew
<1> DEFINE u == seen[c].user
           row == Session(u, None, seen[c].resets, overlap[c] \/ Resetting(u))
<1>1. u \in Users /\ seen[c] \in Sights
  BY <1>0 DEF RowsRefer, TypeOK
<1>2. row \in SessionRows /\ row # None
  <2>1. u \in Calls /\ seen[c].resets \in Nat
    BY <1>1 DEF Sights
  <2>2. (overlap[c] \/ Resetting(u)) \in BOOLEAN
    BY <1>0 DEF TypeOK, Resetting
  <2>3. QED BY <2>1, <2>2, NewRows, AuthAssumption
<1>3. /\ sessions'[c] = row
      /\ \A d \in Calls : d # c => sessions'[d] = sessions[d]
      /\ sessions' \in [Calls -> SessionRows \cup {None}]
  BY <1>0, <1>2 DEF Issue, TypeOK
<1>4. TypeOK'
  BY <1>0, <1>3 DEF TypeOK, HandlerType
<1>5. Leaves(c) /\ Grows(c)
  BY <1>0, <1>1, <1>3 DEF Leaves, Grows, RowsRefer, Users, Sessions, Links, Session
<1>6. SessionWrite(c)
  BY <1>0, <1>2, <1>3 DEF SessionWrite, Session
<1>7. NoReset(c)
  <2>1. overlap[c] \/ seen[c].resets = users[u].resets
    BY <1>0 DEF IInv, LoginKnowsPassword
  <2>2. /\ row.user = u /\ row.resets = seen[c].resets
        /\ row.late = (overlap[c] \/ Resetting(u))
    BY DEF Session
  <2>3. QED BY <1>0, <1>3, <2>1, <2>2 DEF NoReset, Active
<1>8. QED BY <1>0, <1>4, <1>5, <1>6, <1>7, SameLinks, WriteKeeps

LEMMA InsertKeeps ==
  ASSUME IInv, NEW c \in Calls, Insert(c)
  PROVE  IInv'
<1> DEFINE t == call[c].token
           row == sessions[t]
           new == Session(row.user, t, row.resets, row.late \/ Resetting(row.user))
<1>0. /\ TypeOK /\ RowsRefer /\ UNCHANGED <<users, links, mailed, overlap, uses, moved>>
      /\ Others(c) /\ HandlerType' /\ UNCHANGED call
      /\ pc'[c] \in Ends /\ pc'[c] # "mail" /\ seen'[c] = None
      /\ pc[c] = "insert" /\ sessions[c] = None
  BY AnswerEffect DEF IInv, Insert, ghosts, RowsAreNew
<1>1. t \in Calls /\ Active(t) /\ t # c
  BY <1>0, RequestTypes DEF IInv, RotationHoldsToken, Active
<1>2. row \in SessionRows /\ row.user \in Users
  BY <1>0, <1>1 DEF RowsRefer, TypeOK, Active, Sessions
<1>3. new \in SessionRows /\ new # None
  <2>1. /\ row.user \in Calls /\ row.resets \in Nat
        /\ (row.late \/ Resetting(row.user)) \in BOOLEAN
    BY <1>2 DEF SessionRows, Resetting
  <2>2. QED BY <1>1, <2>1, NewRows, AuthAssumption
<1>4. /\ sessions'[c] = new
      /\ sessions'[t] = [row EXCEPT !.end = "rotated"]
      /\ \A d \in Calls : d # c /\ d # t => sessions'[d] = sessions[d]
      /\ sessions' \in [Calls -> SessionRows \cup {None}]
  <2>1. [row EXCEPT !.end = "rotated"] \in SessionRows
    BY <1>2 DEF SessionRows
  <2>2. sessions' = [sessions EXCEPT ![t].end = "rotated", ![c] = new]
    BY DEF Insert
  <2>3. sessions' = [sessions EXCEPT ![t] = [row EXCEPT !.end = "rotated"], ![c] = new]
    BY <2>2
  <2>4. QED BY <1>0, <1>1, <1>3, <2>1, <2>3 DEF TypeOK
<1>5. /\ sessions'[t] # None /\ sessions'[t].user = row.user
      /\ sessions'[t].parent = row.parent /\ sessions'[t].end = "rotated"
      /\ sessions'[c] # None /\ new.user = row.user /\ new.parent = t
      /\ new.resets = row.resets
      /\ new.late = (row.late \/ Resetting(row.user))
  <2>1. sessions'[t] \in SessionRows
    BY <1>2, <1>4 DEF SessionRows
  <2>2. QED BY <1>2, <1>3, <1>4, <2>1, AuthAssumption DEF SessionRows, Session
<1>6. TypeOK'
  BY <1>0, <1>4 DEF TypeOK, HandlerType
<1>7. Leaves(c)
  BY <1>0 DEF Leaves
<1>8. Grows(c)
  <2>1. Users' = Users /\ Links' = Links /\ Sessions' = Sessions \cup {c}
    BY <1>0, <1>1, <1>4, <1>5 DEF Users, Links, Sessions, Active
  <2>2. \A s \in Sessions' : /\ sessions'[s].user \in Users
                             /\ sessions'[s].parent \in Sessions \cup {None}
    <3>1. /\ sessions'[c].user = row.user /\ sessions'[c].parent = t /\ t \in Sessions
      BY <1>1, <1>4, <1>5 DEF Sessions, Active
    <3>2. row.parent \in Sessions \cup {None}
      BY <1>0, <3>1 DEF RowsRefer
    <3>3. \A s \in Sessions : s # c /\ s # t =>
            /\ sessions'[s] = sessions[s] /\ sessions[s].user \in Users
            /\ sessions[s].parent \in Sessions \cup {None}
      BY <1>0, <1>4 DEF RowsRefer, Sessions
    <3>4. QED BY <1>2, <1>5, <2>1, <3>1, <3>2, <3>3
  <2>3. QED BY <1>0, <1>1, <1>4, <2>1, <2>2 DEF Grows, RowsRefer, Active
<1>9. SessionWrite(c)
  <2>1. \A d \in Calls : pc[d] = "insert" /\ call[d].token = t => d = c
    BY <1>0 DEF IInv, RotationHoldsToken
  <2>2. QED BY <1>0, <1>1, <1>4, <1>5, <2>1 DEF SessionWrite, Active
<1>10. NoReset(c)
  <2>1. row.resets = users[row.user].resets \/ row.late
    BY <1>0, <1>1 DEF IInv, ResetEndsSessions, Sessions, Active
  <2>2. /\ sessions'[t].end # "no"
        /\ \A s \in Calls : s # c /\ s # t => sessions'[s] = sessions[s]
    BY <1>4, <1>5
  <2>3. /\ sessions'[c].user = row.user /\ sessions'[c].resets = row.resets
        /\ row.late => sessions'[c].late
        /\ Resetting(row.user) => sessions'[c].late
    BY <1>4, <1>5
  <2>4. ASSUME NEW s \in Calls, Active(s)'
        PROVE  \/ s = c
               \/ sessions'[s] = sessions[s] /\ Active(s)
    BY <2>2, <2>4 DEF Active
  <2>5. UNCHANGED users /\ UNCHANGED overlap
    BY <1>0
  <2>6. QED BY <2>1, <2>3, <2>4, <2>5 DEF NoReset
<1>11. QED BY <1>0, <1>6, <1>7, <1>8, <1>9, <1>10, SameLinks, WriteKeeps

LEMMA LogOutKeeps ==
  ASSUME IInv, NEW c \in Calls, LogOut(c)
  PROVE  IInv'
<1> DEFINE t == call[c].token
<1>0. /\ TypeOK /\ RowsRefer /\ UNCHANGED <<users, links, mailed, overlap, uses, moved>>
      /\ Others(c) /\ HandlerType' /\ UNCHANGED call
      /\ pc'[c] \in Ends /\ pc'[c] # "mail" /\ seen'[c] = None
      /\ pc[c] = "revoke" /\ ~SessionLocked(t)
  BY AnswerEffect DEF IInv, LogOut, ghosts
<1>1. t \in Calls
  BY <1>0, RequestTypes DEF IInv, StagesFit
<1>2. CASE ~Active(t)
  <2>1. UNCHANGED sessions
    BY <1>2 DEF LogOut
  <2>2. TypeOK'
    BY <1>0, <2>1 DEF TypeOK, HandlerType
  <2>3. Leaves(c) /\ Grows(c)
    BY <1>0, <2>1 DEF Leaves, Grows, RowsRefer, Users, Sessions, Links
  <2>4. QED BY <1>0, <2>1, <2>2, <2>3, SameSessions, SameLinks, WriteKeeps
<1>3. CASE Active(t)
  <2>1. sessions[t] \in SessionRows
    BY <1>0, <1>1, <1>3 DEF TypeOK, Active
  <2>2. /\ [sessions[t] EXCEPT !.end = "logout"] \in SessionRows
        /\ sessions' = [sessions EXCEPT ![t] = [sessions[t] EXCEPT !.end = "logout"]]
    BY <1>3, <2>1 DEF LogOut, SessionRows
  <2>3. /\ sessions'[t] = [sessions[t] EXCEPT !.end = "logout"]
        /\ \A d \in Calls : d # t => sessions'[d] = sessions[d]
        /\ sessions' \in [Calls -> SessionRows \cup {None}]
    BY <1>0, <1>1, <2>2 DEF TypeOK
  <2>4. /\ sessions'[t] # None /\ sessions'[t].end = "logout"
        /\ sessions'[t].user = sessions[t].user
        /\ sessions'[t].parent = sessions[t].parent
    BY <2>1, <2>2, <2>3, AuthAssumption DEF SessionRows
  <2>5. TypeOK'
    BY <1>0, <2>3 DEF TypeOK, HandlerType
  <2>6. Leaves(c)
    BY <1>0 DEF Leaves
  <2>7. Grows(c)
    <3>1. Users' = Users /\ Links' = Links /\ Sessions' = Sessions
      BY <1>0, <1>3, <2>3, <2>4 DEF Users, Links, Sessions, Active
    <3>2. QED BY <1>0, <1>3, <2>3, <2>4, <3>1 DEF Grows, RowsRefer, Sessions, Active
  <2>8. SessionWrite(c)
    <3>1. \A d \in Calls : ~(pc[d] = "insert" /\ call[d].token = t)
      BY <1>0 DEF SessionLocked
    <3>2. QED BY <1>3, <2>3, <2>4, <3>1 DEF SessionWrite, Active
  <2>9. NoReset(c)
    BY <1>0, <2>3, <2>4 DEF NoReset, Active
  <2>10. QED BY <1>0, <2>5, <2>6, <2>7, <2>8, <2>9, SameLinks, WriteKeeps
<1>4. QED BY <1>2, <1>3

LEMMA UpdateUserKeeps ==
  ASSUME IInv, NEW c \in Calls, UpdateUser(c)
  PROVE  IInv'
<1> DEFINE u == call[c].user
           row == [users[u] EXCEPT !.email = call[c].email, !.verified = Marker(c)]
<1>0. /\ TypeOK /\ RowsRefer /\ UNCHANGED <<sessions, links, mailed, overlap, uses>>
      /\ Others(c) /\ HandlerType' /\ UNCHANGED call
      /\ pc'[c] \in Ends /\ pc'[c] # "mail" /\ seen'[c] = None
      /\ pc[c] = "update" /\ Op(c) = "update"
  BY AnswerEffect DEF IInv, UpdateUser, StagesFit
<1>1. /\ u \in Users /\ u \in Calls /\ users[u] \in UserRows
      /\ call[c].email \in Emails
  BY <1>0, RowTypes, RequestTypes DEF RowsRefer
<1>2. row \in UserRows /\ row # None /\ row.resets = users[u].resets
  BY <1>1, AuthAssumption DEF Marker, UserRows
<1>3. /\ users'[u] = row /\ \A d \in Calls : d # u => users'[d] = users[d]
      /\ users' \in [Calls -> UserRows \cup {None}]
  BY <1>0, <1>1, <1>2 DEF UpdateUser, TypeOK
<1>4. moved' \subseteq Calls
  <2>1. Outdated(u) \subseteq Calls /\ users[u].verified \in Calls \cup {None}
    BY <1>1 DEF Outdated, UserRows
  <2>2. QED BY <1>0, <2>1 DEF UpdateUser, TypeOK
<1>5. TypeOK'
  BY <1>0, <1>3, <1>4 DEF TypeOK, HandlerType
<1>6. Users' = Users /\ \A d \in Users : users'[d].resets = users[d].resets
  BY <1>1, <1>2, <1>3 DEF Users
<1>7. Leaves(c) /\ Grows(c)
  <2>1. Sessions' = Sessions /\ Links' = Links
    BY <1>0 DEF Sessions, Links
  <2>2. \A d \in Calls : users[d] = None => users'[d] = None
    BY <1>6 DEF Users
  <2>3. QED BY <1>0, <1>6, <2>1, <2>2 DEF Leaves, Grows, RowsRefer
<1>8. QED BY <1>0, <1>5, <1>6, <1>7, SameSessions, SameLinks, WriteKeeps

LEMMA MintKeeps ==
  ASSUME IInv, NEW c \in Calls, Mint(c)
  PROVE  IInv'
<1>0. /\ TypeOK /\ RowsRefer /\ pc[c] = "mint" /\ links[c] = None /\ uses[c] = 0
      /\ \A d \in Calls : pc[d] = "commit" => call[d].token \notin held[c]
      /\ UNCHANGED <<users, sessions, mailed, call, seen, held, overlap, uses, moved>>
      /\ pc' = [pc EXCEPT ![c] = "mail"]
      /\ seen[c] # None /\ seen[c].user \in Users
  BY DEF IInv, RowsAreNew, Mint, Minting, Goto, ghosts, RowsRefer
<1> DEFINE row == Link(seen[c].user, Purpose(c))
<1>1. row \in LinkRows /\ row # None /\ row.user = seen[c].user
  <2>1. seen[c].user \in Calls /\ Purpose(c) \in Purposes
    BY <1>0 DEF Users, Purpose, Purposes
  <2>2. row \in LinkRows
    BY <2>1, NewRows
  <2>3. QED BY <2>2, AuthAssumption DEF Link
<1>2. links' = [l \in Calls |-> IF l = c THEN row
                                ELSE IF l \in held[c] THEN None ELSE links[l]]
  BY DEF Mint
<1>3. /\ links' \in [Calls -> LinkRows \cup {None}]
      /\ links'[c] = row
      /\ \A l \in Calls : l # c => \/ links'[l] = None /\ l \in held[c]
                                   \/ links'[l] = links[l]
  BY <1>0, <1>1, <1>2 DEF TypeOK
<1>4. TypeOK'
  BY <1>0, <1>3 DEF TypeOK, Stages
<1>5. Leaves(c)
  BY <1>0 DEF Leaves, Others, TypeOK, Users
<1>6. Grows(c)
  <2>1. Users' = Users /\ Sessions' = Sessions
    BY <1>0 DEF Users, Sessions
  <2>2. \A l \in Links' : links'[l].user \in Users
    BY <1>0, <1>1, <1>3 DEF RowsRefer, Links
  <2>3. QED BY <1>0, <1>3, <2>1, <2>2 DEF Grows, RowsRefer
<1>7. LinkWrite(c)
  <2>1. \A d \in Calls : pc[d] = "commit" =>
          call[d].token \in Links /\ ~links[call[d].token].consumed
    BY DEF IInv, ResetHoldsLink, Usable
  <2>2. \A l \in Calls : Usable(l)' => Usable(l) \/ l = c
    BY <1>3 DEF Usable, Links
  <2>3. QED BY <1>0, <1>3, <2>1, <2>2 DEF LinkWrite, Links
<1>8. QED BY <1>0, <1>4, <1>5, <1>6, <1>7, SameSessions, WriteKeeps

\* The effect of the step that uses a link.
LEMMA UseEffect ==
  ASSUME TypeOK, NEW l \in Calls, NEW u \in Calls, NEW p \in Purposes,
         links' = [links EXCEPT ![l] = [Link(u, p) EXCEPT !.consumed = TRUE]],
         uses' = [uses EXCEPT ![l] = @ + 1]
  PROVE  /\ links' \in [Calls -> LinkRows \cup {None}]
         /\ links'[l] # None /\ links'[l].consumed /\ links'[l].user = u
         /\ \A d \in Calls : d # l => links'[d] = links[d] /\ uses'[d] = uses[d]
         /\ uses'[l] = uses[l] + 1 /\ uses' \in [Calls -> Nat]
<1> DEFINE row == [Link(u, p) EXCEPT !.consumed = TRUE]
<1>1. row \in LinkRows /\ row.consumed /\ row.user = u
  BY DEF Link, LinkRows
<1>2. row # None
  BY <1>1, AuthAssumption
<1>3. /\ links'[l] = row /\ \A d \in Calls : d # l => links'[d] = links[d]
      /\ links' \in [Calls -> LinkRows \cup {None}]
  <2> HIDE DEF row
  <2>1. links' = [links EXCEPT ![l] = row]
    BY DEF row
  <2>2. links \in [Calls -> LinkRows \cup {None}] /\ row \in LinkRows
    BY <1>1 DEF TypeOK
  <2>3. QED BY <2>1, <2>2
<1>4. /\ uses'[l] = uses[l] + 1 /\ uses' \in [Calls -> Nat]
      /\ \A d \in Calls : d # l => uses'[d] = uses[d]
  BY DEF TypeOK
<1>5. QED BY <1>1, <1>2, <1>3, <1>4

LEMMA UseIsLinkWrite ==
  ASSUME IInv, NEW c \in Calls, NEW l \in Calls, Usable(l),
         \A d \in Calls : d # c /\ pc[d] = "commit" => call[d].token # l,
         links'[l] # None, links'[l].consumed, uses'[l] = uses[l] + 1,
         \A d \in Calls : d # l => links'[d] = links[d] /\ uses'[d] = uses[d]
  PROVE  LinkWrite(c)
<1>1. \A d \in Calls : pc[d] = "commit" =>
        call[d].token \in Links /\ ~links[call[d].token].consumed
  BY DEF IInv, ResetHoldsLink, Usable
<1>2. \A d \in Calls : d # c /\ pc[d] = "commit" =>
        call[d].token \in Links' /\ ~links'[call[d].token].consumed
  BY <1>1 DEF Links
<1>3. \A d \in Calls : d # l => Usable(d)' = Usable(d)
  BY DEF Usable, Links
<1>4. ~Usable(l)'
  BY DEF Usable
<1>5. QED BY <1>2, <1>3, <1>4 DEF LinkWrite

LEMMA ConsumeKeeps ==
  ASSUME IInv, NEW c \in Calls, ConsumeVerification(c)
  PROVE  IInv'
<1> DEFINE l == call[c].token
           u == seen[c].user
<1>0. TypeOK /\ RowsRefer /\ pc[c] = "consume"
  BY DEF IInv, ConsumeVerification
<1>1. CASE Refuse(c)
  BY <1>0, <1>1, RefuseIsQuiet, QuietKeeps
<1>2. CASE ~Refuse(c)
  <2>1. /\ Usable(l) /\ ~LinkLocked(l)
        /\ links' = [links EXCEPT ![l] = [Link(u, "EMAIL_VERIFICATION")
                                          EXCEPT !.consumed = TRUE]]
        /\ users' = [users EXCEPT ![u].verified = l]
        /\ uses' = [uses EXCEPT ![l] = @ + 1]
        /\ Answer(c)
        /\ UNCHANGED <<sessions, mailed, overlap, moved>>
    BY <1>2 DEF ConsumeVerification
  <2>2. /\ Others(c) /\ HandlerType' /\ UNCHANGED call
        /\ pc'[c] \in Ends /\ pc'[c] # "mail" /\ seen'[c] = None
    BY <1>0, <2>1, AnswerEffect
  <2>3. /\ l \in Calls /\ links[l] # None /\ u \in Users /\ u \in Calls
        /\ users[u] \in UserRows
    BY <1>0, <2>1, RowTypes DEF Usable, Links, RowsRefer
  <2>4. /\ links' \in [Calls -> LinkRows \cup {None}]
        /\ links'[l] # None /\ links'[l].consumed /\ links'[l].user = u
        /\ \A d \in Calls : d # l => links'[d] = links[d] /\ uses'[d] = uses[d]
        /\ uses'[l] = uses[l] + 1 /\ uses' \in [Calls -> Nat]
    BY <1>0, <2>1, <2>3, UseEffect DEF Purposes
  <2>5. /\ users' \in [Calls -> UserRows \cup {None}] /\ Users' = Users
        /\ \A d \in Users : users'[d].resets = users[d].resets
        /\ \A d \in Calls : users[d] = None => users'[d] = None
    <3>1. /\ [users[u] EXCEPT !.verified = l] \in UserRows
          /\ [users[u] EXCEPT !.verified = l].resets = users[u].resets
      BY <2>3 DEF UserRows
    <3>2. users' = [users EXCEPT ![u] = [users[u] EXCEPT !.verified = l]]
      BY <2>1
    <3>3. QED BY <1>0, <2>3, <3>1, <3>2, AuthAssumption DEF TypeOK, Users
  <2>6. TypeOK'
    BY <1>0, <2>1, <2>2, <2>4, <2>5 DEF TypeOK, HandlerType
  <2>7. Leaves(c)
    BY <2>2 DEF Leaves
  <2>8. Grows(c)
    <3>1. Sessions' = Sessions /\ Links' = Links
      BY <2>1, <2>3, <2>4 DEF Sessions, Links
    <3>2. \A d \in Links' : links'[d].user \in Users
      BY <1>0, <2>3, <2>4, <3>1 DEF RowsRefer, Links
    <3>3. \A d \in Calls : d # c =>
            /\ users[d] = None => users'[d] = None
            /\ sessions[d] = None => sessions'[d] = None
            /\ links[d] = None => links'[d] = None
            /\ uses'[d] = uses[d] \/ links[d] # None
      BY <2>1, <2>3, <2>4, <2>5
    <3>4. \A s \in Sessions' :
            /\ sessions'[s].user \in Users'
            /\ sessions'[s].parent \in Sessions' \cup {None}
      BY <1>0, <2>1, <2>5, <3>1 DEF RowsRefer
    <3>5. QED BY <2>5, <3>2, <3>3, <3>4 DEF Grows
  <2>9. LinkWrite(c)
    <3>1. \A d \in Calls : pc[d] = "commit" => call[d].token # l
      BY <2>1 DEF LinkLocked
    <3>2. QED BY <2>1, <2>3, <2>4, <3>1, UseIsLinkWrite
  <2>10. QED BY <2>1, <2>5, <2>6, <2>7, <2>8, <2>9, SameSessions, WriteKeeps
<1>3. QED BY <1>1, <1>2

LEMMA CommitResetKeeps ==
  ASSUME IInv, NEW c \in Calls, CommitReset(c)
  PROVE  IInv'
<1> DEFINE l == call[c].token
           u == seen[c].user
<1>0. /\ TypeOK /\ RowsRefer /\ ResetHoldsLink /\ pc[c] = "commit"
      /\ Others(c) /\ HandlerType' /\ UNCHANGED <<call, mailed, moved>>
      /\ pc'[c] \in Ends /\ pc'[c] # "mail" /\ seen'[c] = None
  BY AnswerEffect DEF IInv, CommitReset
<1>1. /\ l \in Calls /\ Usable(l) /\ u \in Users /\ u \in Calls
      /\ users[u] \in UserRows /\ call[c].password \in Passwords
      /\ held[c] \subseteq Calls
  <2>1. Usable(l) /\ Op(c) = "reset" /\ u \in Users
    BY <1>0 DEF ResetHoldsLink, RowsRefer
  <2>2. QED BY <1>0, <2>1, RowTypes, RequestTypes DEF TypeOK
<1>2. /\ links' \in [Calls -> LinkRows \cup {None}]
      /\ links'[l] # None /\ links'[l].consumed /\ links'[l].user = u
      /\ \A d \in Calls : d # l => links'[d] = links[d] /\ uses'[d] = uses[d]
      /\ uses'[l] = uses[l] + 1 /\ uses' \in [Calls -> Nat]
  BY <1>0, <1>1, UseEffect DEF CommitReset, Purposes
<1>3. /\ users' \in [Calls -> UserRows \cup {None}] /\ Users' = Users
      /\ \A d \in Users : d # u => users'[d].resets = users[d].resets
      /\ \A d \in Calls : users[d] = None => users'[d] = None
  <2> DEFINE row == [users[u] EXCEPT !.password = call[c].password, !.resets = @ + 1]
  <2>1. row \in UserRows
    <3>1. users[u].resets + 1 \in Nat
      BY <1>1 DEF UserRows
    <3>2. QED BY <1>1, <3>1 DEF UserRows
  <2>2. users' = [users EXCEPT ![u] = row]
    BY <1>0, <1>1 DEF CommitReset, TypeOK
  <2> HIDE DEF row
  <2>3. QED BY <1>0, <1>1, <2>1, <2>2, AuthAssumption DEF TypeOK, Users
<1>4. /\ sessions' \in [Calls -> SessionRows \cup {None}]
      /\ \A s \in Calls :
           IF s \in held[c] /\ Active(s)
             THEN /\ sessions'[s] # None /\ sessions'[s].end = "reset"
                  /\ sessions'[s].user = sessions[s].user
                  /\ sessions'[s].parent = sessions[s].parent
             ELSE sessions'[s] = sessions[s]
  <2>1. sessions' = [s \in Calls |-> IF s \in held[c] /\ Active(s)
                                       THEN [sessions[s] EXCEPT !.end = "reset"]
                                       ELSE sessions[s]]
    BY DEF CommitReset
  <2>2. ASSUME NEW s \in Calls, Active(s)
        PROVE  /\ [sessions[s] EXCEPT !.end = "reset"] \in SessionRows
               /\ [sessions[s] EXCEPT !.end = "reset"].end = "reset"
               /\ [sessions[s] EXCEPT !.end = "reset"].user = sessions[s].user
               /\ [sessions[s] EXCEPT !.end = "reset"].parent = sessions[s].parent
    <3>1. sessions[s] \in SessionRows
      BY <1>0, <2>2 DEF TypeOK, Active
    <3>2. QED BY <3>1 DEF SessionRows
  <2>3. ASSUME NEW s \in Calls, Active(s), s \in held[c]
        PROVE  sessions'[s] = [sessions[s] EXCEPT !.end = "reset"]
    BY <2>1, <2>3
  <2>4. ASSUME NEW s \in Calls, ~(Active(s) /\ s \in held[c])
        PROVE  sessions'[s] = sessions[s]
    BY <2>1, <2>4
  <2>5. sessions' \in [Calls -> SessionRows \cup {None}]
    BY <1>0, <2>1, <2>2 DEF TypeOK
  <2>6. ASSUME NEW s \in Calls, Active(s), s \in held[c]
        PROVE  /\ sessions'[s] # None /\ sessions'[s].end = "reset"
               /\ sessions'[s].user = sessions[s].user
               /\ sessions'[s].parent = sessions[s].parent
    <3>1. sessions'[s] \in SessionRows
      BY <2>2, <2>3, <2>6
    <3>2. QED BY <2>2, <2>3, <2>6, <3>1, AuthAssumption
  <2>7. QED BY <2>4, <2>5, <2>6
<1>5. /\ overlap' \in [Calls -> BOOLEAN]
      /\ \A d \in Calls : (overlap[d] => overlap'[d])
                          /\ (pc[d] = "issue" /\ seen[d].user = u => overlap'[d])
  BY <1>0 DEF CommitReset, TypeOK
<1>6. TypeOK'
  BY <1>0, <1>2, <1>3, <1>4, <1>5 DEF TypeOK, HandlerType
<1>7. Leaves(c)
  BY <1>0 DEF Leaves
<1>8. Grows(c)
  <2>1. Sessions' = Sessions /\ Links' = Links
    BY <1>1, <1>2, <1>4 DEF Sessions, Links, Usable, Active
  <2>2. \A d \in Links' : links'[d].user \in Users
    BY <1>0, <1>1, <1>2, <2>1 DEF RowsRefer, Links
  <2>3. \A s \in Sessions' : /\ sessions'[s].user \in Users
                             /\ sessions'[s].parent \in Sessions \cup {None}
    BY <1>0, <1>4, <2>1 DEF RowsRefer, Sessions
  <2>4. \A d \in Calls : /\ sessions[d] = None => sessions'[d] = None
                         /\ links[d] = None => links'[d] = None
                         /\ uses'[d] = uses[d] \/ links[d] # None
    BY <1>1, <1>2, <2>1 DEF Sessions, Links, Usable
  <2>5. QED BY <1>3, <2>1, <2>2, <2>3, <2>4 DEF Grows
<1>9. SessionWrite(c)
  <2>1. \A s \in held[c] : \A d \in Calls : ~(pc[d] = "insert" /\ call[d].token = s)
    BY DEF CommitReset, SessionLocked
  <2>2. \A s \in Calls : sessions[s] # None <=> sessions'[s] # None
    BY <1>4 DEF Active
  <2>3. QED BY <1>4, <2>1, <2>2 DEF SessionWrite
<1>10. LinkWrite(c)
  <2>1. \A d \in Calls : d # c /\ pc[d] = "commit" => call[d].token # l
    BY <1>0 DEF ResetHoldsLink
  <2>2. QED BY <1>1, <1>2, <2>1, UseIsLinkWrite
<1>11. \A s \in Calls : Active(s)' => Active(s) /\ sessions'[s] = sessions[s] /\ s \notin held[c]
  BY <1>4 DEF Active
<1>12. \A d \in Calls : d # c => pc'[d] = pc[d] /\ seen'[d] = seen[d] /\ held'[d] = held[d]
  BY <1>0 DEF Others
<1>13. pc'[c] \notin {"claim", "commit", "issue"}
  BY <1>0 DEF Ends
<1>14. ResetHoldsLink'
  <2>1. ASSUME NEW d \in Calls, pc'[d] = "commit"
        PROVE  /\ d # c /\ pc[d] = "commit"
               /\ call[d].token \in Links' /\ ~links'[call[d].token].consumed
    BY <1>10, <1>12, <1>13, <2>1 DEF LinkWrite
  <2>2. ASSUME NEW d \in Calls, pc'[d] = "commit", NEW s \in Calls,
               Active(s)', sessions'[s].user = seen[d].user
        PROVE  s \in held[d] \/ sessions'[s].late
    <3>1. Active(s) /\ sessions[s].user = seen[d].user /\ sessions'[s] = sessions[s]
      BY <1>11, <2>2
    <3>2. s \in SessionsOf(seen[d].user)
      BY <3>1 DEF SessionsOf, Sessions, Active
    <3>3. QED BY <1>0, <2>1, <2>2, <3>1, <3>2 DEF ResetHoldsLink
  <2>3. ASSUME NEW d \in Calls, pc'[d] = "commit", NEW e \in Calls, pc'[e] = "commit",
               call[e].token = call[d].token \/ seen'[e].user = seen'[d].user
        PROVE  e = d
    BY <1>0, <1>12, <2>1, <2>3 DEF ResetHoldsLink
  <2>4. \A d \in Calls : pc'[d] \in {"claim", "commit"} => call[d].op = "reset"
    BY <1>0, <1>12, <1>13 DEF ResetHoldsLink, Op
  <2>5. QED
    BY <1>0, <1>12, <2>1, <2>2, <2>3, <2>4
       DEF ResetHoldsLink, SessionsOf, Sessions, Active, Usable, Op
<1>15. LoginKnowsPassword'
  <2>1. ASSUME NEW d \in Calls, pc'[d] = "issue"
        PROVE  overlap'[d] \/ seen'[d].resets = users'[seen'[d].user].resets
    <3>1. pc[d] = "issue" /\ seen'[d] = seen[d] /\ seen[d].user \in Users
      BY <1>0, <1>12, <1>13, <2>1 DEF RowsRefer
    <3>2. overlap[d] \/ seen[d].resets = users[seen[d].user].resets
      BY <3>1 DEF IInv, LoginKnowsPassword
    <3>3. QED BY <1>3, <1>5, <3>1, <3>2
  <2>2. QED BY <2>1 DEF LoginKnowsPassword
<1>16. ResetEndsSessions'
  <2>1. ASSUME NEW s \in Calls, Active(s)'
        PROVE  \/ sessions'[s].resets = users'[sessions'[s].user].resets
               \/ sessions'[s].late
    <3>1. /\ Active(s) /\ sessions'[s] = sessions[s] /\ s \notin held[c]
          /\ s \in Sessions /\ sessions[s].user \in Users
      BY <1>0, <1>11, <2>1 DEF Active, Sessions, RowsRefer
    <3>2. CASE sessions[s].user = u
      BY <1>0, <3>1, <3>2 DEF ResetHoldsLink, SessionsOf
    <3>3. CASE sessions[s].user # u
      BY <1>3, <3>1, <3>3 DEF IInv, ResetEndsSessions
    <3>4. QED BY <3>2, <3>3
  <2>2. QED BY <2>1 DEF ResetEndsSessions, Sessions, Active
<1>17. QED
  BY <1>6, <1>7, <1>8, <1>9, <1>10, <1>14, <1>15, <1>16,
     WriteKeepsSessions, WriteKeepsRows, WriteKeepsLinks DEF IInv

----------------------------------------------------------------------------
(* Steps of no handler *)

LEMMA ExpireSessionKeeps ==
  ASSUME IInv, NEW r \in Calls, ExpireSession(r)
  PROVE  IInv'
<1>0. /\ TypeOK /\ r \in Sessions
      /\ sessions' = [sessions EXCEPT ![r].expired = TRUE]
      /\ UNCHANGED <<users, links, mailed, call, pc, seen, held, overlap, uses, moved>>
  BY DEF IInv, ExpireSession, handler, ghosts
<1>1. sessions[r] \in SessionRows
  BY <1>0 DEF TypeOK, Sessions
<1>2. /\ [sessions[r] EXCEPT !.expired = TRUE] \in SessionRows
      /\ sessions' = [sessions EXCEPT ![r] = [sessions[r] EXCEPT !.expired = TRUE]]
  BY <1>0, <1>1 DEF SessionRows
<1>3. /\ sessions' \in [Calls -> SessionRows \cup {None}]
      /\ sessions'[r] = [sessions[r] EXCEPT !.expired = TRUE]
      /\ \A s \in Calls : s # r => sessions'[s] = sessions[s]
  BY <1>0, <1>2 DEF TypeOK
<1>4. \A s \in Calls :
        /\ sessions'[s] = None <=> sessions[s] = None
        /\ sessions'[s].user = sessions[s].user
        /\ sessions'[s].end = sessions[s].end
        /\ sessions'[s].parent = sessions[s].parent
        /\ sessions'[s].resets = sessions[s].resets
        /\ sessions'[s].late <=> sessions[s].late
  <2> TAKE s \in Calls
  <2>1. CASE s # r
    BY <1>3, <2>1
  <2>2. CASE s = r
    <3>1. sessions'[r] # None /\ sessions[r] # None
      BY <1>0, <1>2, <1>3, AuthAssumption DEF SessionRows, Sessions
    <3>2. QED BY <1>1, <1>3, <2>2, <3>1 DEF SessionRows
  <2>3. QED BY <2>1, <2>2
<1>5. TypeOK'
  BY <1>0, <1>3 DEF TypeOK
<1>6. /\ Sessions' = Sessions /\ Users' = Users /\ Links' = Links
      /\ \A l : Usable(l)' = Usable(l)
  BY <1>0, <1>4 DEF Sessions, Users, Links, Usable
<1>7. RowsAreNew' /\ RowsRefer' /\ StagesFit'
  BY <1>0, <1>4, <1>6 DEF IInv, RowsAreNew, RowsRefer, StagesFit, Op, Sessions
<1>8. UnusedLinks' /\ LinksWorkOnce' /\ LoginKnowsPassword'
  BY <1>0, <1>6 DEF IInv, UnusedLinks, LinksWorkOnce, LoginKnowsPassword
<1>9. RotationHoldsToken'
  <2>1. \A d \in Calls : pc[d] = "insert" => call[d].token \in Calls
    BY <1>0, RequestTypes DEF IInv, RotationHoldsToken
  <2>2. QED BY <1>0, <1>4, <2>1 DEF IInv, RotationHoldsToken, Op, Active
<1>10. SessionsEndOnce' /\ ResetEndsSessions'
  <2>1. \A s \in Sessions : sessions[s].parent \in Sessions \cup {None} /\ s \in Calls
    BY DEF IInv, RowsRefer, Sessions
  <2>2. SessionsEndOnce'
    BY <1>4, <1>6, <2>1 DEF IInv, SessionsEndOnce, Sessions
  <2>3. ResetEndsSessions'
    BY <1>0, <1>4, <1>6, <2>1 DEF IInv, ResetEndsSessions, Active
  <2>4. QED BY <2>2, <2>3
<1>11. ResetHoldsLink'
  <2>1. \A u \in Calls : SessionsOf(u)' = SessionsOf(u)
    BY <1>4, <1>6 DEF SessionsOf, Active, Sessions
  <2>2. \A d \in Calls : pc[d] = "commit" => seen[d].user \in Calls
    BY DEF IInv, RowsRefer, Users
  <2>3. ASSUME NEW d \in Calls, pc[d] = "commit"
        PROVE  /\ call[d].token \in Links /\ ~links[call[d].token].consumed
               /\ \A s \in Calls : Active(s)' /\ sessions'[s].user = seen[d].user =>
                                     s \in held[d] \/ sessions'[s].late
    BY <1>4, <2>2, <2>3 DEF IInv, ResetHoldsLink, Usable, SessionsOf, Active, Sessions
  <2>4. QED
    BY <1>0, <1>6, <2>3
       DEF IInv, ResetHoldsLink, Op, Usable, SessionsOf, Active, Sessions, Links
<1>12. QED BY <1>5, <1>7, <1>8, <1>9, <1>10, <1>11 DEF IInv

LEMMA ExpireLinkKeeps ==
  ASSUME IInv, NEW r \in Calls, ExpireLink(r)
  PROVE  IInv'
<1>0. /\ TypeOK /\ r \in Links
      /\ links' = [links EXCEPT ![r].expired = TRUE]
      /\ UNCHANGED <<users, sessions, mailed, call, pc, seen, held, overlap, uses, moved>>
  BY DEF IInv, ExpireLink, handler, ghosts
<1>1. links[r] \in LinkRows
  BY <1>0 DEF TypeOK, Links
<1>2. /\ [links[r] EXCEPT !.expired = TRUE] \in LinkRows
      /\ links' = [links EXCEPT ![r] = [links[r] EXCEPT !.expired = TRUE]]
  BY <1>0, <1>1 DEF LinkRows
<1>3. /\ links' \in [Calls -> LinkRows \cup {None}]
      /\ links'[r] = [links[r] EXCEPT !.expired = TRUE]
      /\ \A l \in Calls : l # r => links'[l] = links[l]
  BY <1>0, <1>2 DEF TypeOK
<1>4. \A l \in Calls :
        /\ links'[l] = None <=> links[l] = None
        /\ links'[l].user = links[l].user
        /\ links'[l].consumed <=> links[l].consumed
  BY <1>0, <1>1, <1>2, <1>3, AuthAssumption DEF LinkRows, Links
<1>5. TypeOK'
  BY <1>0, <1>3 DEF TypeOK
<1>6. /\ Sessions' = Sessions /\ Users' = Users /\ Links' = Links
      /\ \A u : SessionsOf(u)' = SessionsOf(u)
      /\ \A l \in Calls : Usable(l)' <=> Usable(l)
  BY <1>0, <1>4 DEF Sessions, Users, Links, Usable, SessionsOf, Active
<1>7. RowsAreNew' /\ RowsRefer' /\ StagesFit'
  BY <1>0, <1>4, <1>6 DEF IInv, RowsAreNew, RowsRefer, StagesFit, Op, Links
<1>8. UnusedLinks' /\ LinksWorkOnce' /\ LoginKnowsPassword'
  BY <1>0, <1>6 DEF IInv, UnusedLinks, LinksWorkOnce, LoginKnowsPassword
<1>9. RotationHoldsToken' /\ SessionsEndOnce' /\ ResetEndsSessions'
  BY <1>0 DEF IInv, RotationHoldsToken, SessionsEndOnce, ResetEndsSessions,
              Op, Active, Sessions
<1>10. ResetHoldsLink'
  <2>1. ASSUME NEW d \in Calls, pc[d] = "commit"
        PROVE  call[d].token \in Links' /\ ~links'[call[d].token].consumed
    BY <1>4, <1>6, <2>1 DEF IInv, ResetHoldsLink, Usable, Links
  <2>2. QED
    BY <1>0, <1>6, <2>1 DEF IInv, ResetHoldsLink, Op, Usable, SessionsOf, Active, Sessions
<1>11. QED BY <1>5, <1>7, <1>8, <1>9, <1>10 DEF IInv

LEMMA InitIInv ==
  ASSUME Init
  PROVE  IInv
<1>1. PICK e \in [Founders -> Emails], p \in [Founders -> Passwords] :
        /\ users = [c \in Calls |-> IF c \in Founders THEN Account(e[c], p[c]) ELSE None]
        /\ mailed = [c \in Calls |-> IF c \in Founders THEN e[c] ELSE None]
  BY DEF Init
<1>2. /\ sessions = [c \in Calls |->
                       IF c \in Founders THEN Session(c, None, 0, FALSE) ELSE None]
      /\ links = [c \in Calls |->
                    IF c \in Founders THEN Link(c, "EMAIL_VERIFICATION") ELSE None]
      /\ \A c \in Calls : /\ call[c] = [op |-> "none"] /\ seen[c] = None
                          /\ uses[c] = 0 /\ overlap[c] = FALSE
                          /\ pc[c] = IF c \in Founders THEN "ok" ELSE "idle"
      /\ Founders \subseteq Calls
  BY AuthAssumption DEF Init
<1>3. ASSUME NEW c \in Founders
      PROVE  /\ users[c] \in UserRows /\ users[c] # None /\ users[c].resets = 0
             /\ sessions[c] \in SessionRows /\ sessions[c] # None
             /\ sessions[c].user = c /\ sessions[c].parent = None
             /\ sessions[c].resets = 0
             /\ links[c] \in LinkRows /\ links[c] # None /\ links[c].user = c
             /\ mailed[c] \in Emails
  <2>1. c \in Calls
    BY AuthAssumption
  <2>2. /\ users[c] = Account(e[c], p[c]) /\ sessions[c] = Session(c, None, 0, FALSE)
        /\ links[c] = Link(c, "EMAIL_VERIFICATION") /\ mailed[c] = e[c]
    BY <1>1, <1>2, <2>1
  <2>3. /\ users[c] \in UserRows /\ sessions[c] \in SessionRows /\ links[c] \in LinkRows
    BY <2>1, <2>2, NewRows DEF Purposes
  <2>4. users[c] # None /\ sessions[c] # None /\ links[c] # None
    BY <2>3, AuthAssumption
  <2>5. /\ users[c].resets = 0 /\ sessions[c].user = c /\ sessions[c].parent = None
        /\ sessions[c].resets = 0 /\ links[c].user = c
    BY <2>2 DEF Account, Session, Link
  <2>6. mailed[c] \in Emails
    BY <2>2
  <2>7. QED BY <2>3, <2>4, <2>5, <2>6
<1>4. \A c \in Calls : c \notin Founders =>
        users[c] = None /\ sessions[c] = None /\ links[c] = None /\ mailed[c] = None
  BY <1>1, <1>2
<1>5. Users = Founders /\ Sessions = Founders /\ Links = Founders
  BY <1>2, <1>3, <1>4 DEF Users, Sessions, Links
<1>6. TypeOK
  <2>1. /\ users \in [Calls -> UserRows \cup {None}]
        /\ sessions \in [Calls -> SessionRows \cup {None}]
        /\ links \in [Calls -> LinkRows \cup {None}]
        /\ mailed \in [Calls -> Emails \cup {None}]
    <3>1. \A c \in Calls : /\ users[c] \in UserRows \cup {None}
                           /\ sessions[c] \in SessionRows \cup {None}
                           /\ links[c] \in LinkRows \cup {None}
                           /\ mailed[c] \in Emails \cup {None}
      BY <1>3, <1>4
    <3>2. /\ users = [c \in Calls |-> users[c]] /\ sessions = [c \in Calls |-> sessions[c]]
          /\ links = [c \in Calls |-> links[c]] /\ mailed = [c \in Calls |-> mailed[c]]
      BY <1>1, <1>2
    <3>3. QED BY <3>1, <3>2
  <2>2. QED BY <2>1 DEF TypeOK, Init, Stages, Ends
<1>7. RowsAreNew /\ StagesFit /\ RotationHoldsToken /\ LoginKnowsPassword
  <2>1. \A c \in Calls : pc[c] \in {"ok", "idle"} /\ (pc[c] = "idle" => c \notin Founders)
    BY <1>2
  <2>2. RowsAreNew
    BY <1>2, <1>4, <2>1 DEF RowsAreNew
  <2>3. QED
    BY <2>1, <2>2 DEF StagesFit, RotationHoldsToken, LoginKnowsPassword, Op
<1>8. RowsRefer
  <2>1. \A c \in Calls : seen[c] = None /\ Op(c) # "update" /\ pc[c] \in {"ok", "idle"}
    BY <1>2 DEF Op
  <2>2. QED BY <1>3, <1>5, <2>1 DEF RowsRefer
<1>9. SessionsEndOnce /\ ResetEndsSessions
  BY <1>3, <1>5 DEF SessionsEndOnce, ResetEndsSessions
<1>10. UnusedLinks /\ LinksWorkOnce /\ ResetHoldsLink
  <2>1. \A c \in Calls : pc[c] \in {"ok", "idle"} /\ uses[c] = 0
    BY <1>2
  <2>2. QED BY <2>1 DEF UnusedLinks, LinksWorkOnce, ResetHoldsLink
<1>11. QED BY <1>6, <1>7, <1>8, <1>9, <1>10 DEF IInv

LEMMA NextKeeps ==
  ASSUME IInv, [Next]_vars
  PROVE  IInv'
<1>1. ASSUME NEW c \in Calls, Arrive(c) \/ Handle(c) \/ Error(c)
      PROVE  IInv'
  <2>1. CASE Arrive(c)
    BY <2>1, ArriveIsQuiet, QuietKeeps DEF IInv
  <2>2. CASE Error(c)
    BY <2>2, RefuseIsQuiet, QuietKeeps DEF Error, IInv
  <2>3. CASE Find(c) \/ Authenticate(c) \/ MintTwice(c) \/ Taken(c)
    BY <2>3, FindIsQuiet, QuietKeeps
  <2>4. CASE Revoke(c) \/ DeleteLinks(c) \/ Claim(c)
    BY <2>4, LockIsQuiet, QuietKeeps
  <2>5. CASE Create(c)
    BY <2>5, CreateKeeps
  <2>6. CASE Mail(c)
    BY <2>6, MailKeeps
  <2>7. CASE Issue(c)
    BY <2>7, IssueKeeps
  <2>8. CASE Insert(c)
    BY <2>8, InsertKeeps
  <2>9. CASE LogOut(c)
    BY <2>9, LogOutKeeps
  <2>10. CASE UpdateUser(c)
    BY <2>10, UpdateUserKeeps
  <2>11. CASE Mint(c)
    BY <2>11, MintKeeps
  <2>12. CASE ConsumeVerification(c)
    BY <2>12, ConsumeKeeps
  <2>13. CASE CommitReset(c)
    BY <2>13, CommitResetKeeps
  <2>14. QED
    BY <1>1, <2>1, <2>2, <2>3, <2>4, <2>5, <2>6, <2>7, <2>8, <2>9, <2>10, <2>11,
       <2>12, <2>13 DEF Handle, Write
<1>2. ASSUME NEW r \in Calls, ExpireSession(r) \/ ExpireLink(r)
      PROVE  IInv'
  BY <1>2, ExpireSessionKeeps, ExpireLinkKeeps
<1>3. CASE UNCHANGED vars
  <2>1. UNCHANGED <<users, sessions, links, mailed, call, pc, seen, held, overlap,
                    uses, moved>>
    BY <1>3 DEF vars, tables, handler, ghosts
  <2>2. QED
    BY <2>1 DEF IInv, TypeOK, RowsAreNew, RowsRefer, StagesFit, RotationHoldsToken,
                SessionsEndOnce, ResetHoldsLink, UnusedLinks, LinksWorkOnce,
                LoginKnowsPassword, ResetEndsSessions, Op, Active, Usable,
                Users, Sessions, Links, SessionsOf
<1>4. QED BY <1>1, <1>2, <1>3 DEF Next

----------------------------------------------------------------------------
\* Whatever runs at once, fails, expires or is answered late, the locks and
\* rows that the handlers of auth.repository.ts rely on are as they need them.
THEOREM Invariance == Spec => []IInv
<1>1. Init => IInv
  BY InitIInv
<1>2. IInv /\ [Next]_vars => IInv'
  BY NextKeeps
<1>3. QED BY <1>1, <1>2, PTL DEF Spec

\* A refresh token is rotated at most once, by the call that ended it.
THEOREM RotatedOnce == Spec => []SessionsEndOnce
<1>1. IInv => SessionsEndOnce
  BY DEF IInv
<1>2. QED BY <1>1, Invariance, PTL

\* After a password reset a session of an earlier password is active only if a
\* login or a rotation that overlapped with the reset inserted it, or it was
\* rotated from such a session.
THEOREM ResetEnds == Spec => []ResetEndsSessions
<1>1. IInv => ResetEndsSessions
  BY DEF IInv
<1>2. QED BY <1>1, Invariance, PTL

\* An e-mailed link verifies an address or resets a password at most once.
THEOREM UsedOnce == Spec => []LinksWorkOnce
<1>1. IInv => LinksWorkOnce
  BY DEF IInv
<1>2. QED BY <1>1, Invariance, PTL

----------------------------------------------------------------------------
(* Verified addresses.  What marks an address as verified is a link that   *)
(* was mailed some time before: between a link's row, what a handler has   *)
(* read of its user, and the mail, the address must not have changed, or   *)
(* the change must have left its mark.                                     *)

\* A link that can still be used was mailed to its user's address.
LinksReachUser ==
  \A l \in Calls :
    Usable(l) /\ mailed[l] # None
      => mailed[l] = users[links[l].user].email \/ l \in moved

\* So will one that is about to be mailed.
SightsAreCurrent ==
  \A c \in Calls :
    seen[c] # None => seen[c].email = users[seen[c].user].email \/ c \in moved

\* A link stays with its user.
LinksKeepUser ==
  \A c \in Calls :
    /\ pc[c] = "mail" /\ c \in Links => links[c].user = seen[c].user
    /\ pc[c] \in {"consume", "claim", "commit"} /\ call[c].token \in Links
         => links[call[c].token].user = seen[c].user

\* Only links that were mailed are presented, and those are complete.
MailedAtEnd ==
  \A c \in Calls :
    /\ mailed[c] # None => pc[c] \in Ends
    /\ Op(c) \in {"verify", "reset"} => mailed[call[c].token] # None
    /\ pc[c] \in {"consume", "claim", "commit"} => Op(c) \in {"verify", "reset"}

AddressInv ==
  /\ VerifiedAddress /\ LinksReachUser /\ SightsAreCurrent
  /\ LinksKeepUser /\ MailedAtEnd

\* What a step that changes no account and no link may do to its handler.
Looks(c) ==
  /\ pc[c] \notin Ends /\ pc'[c] # "mail"
  /\ \/ seen'[c] = None
     \/ seen'[c] = seen[c]
     \/ seen'[c].email = users[seen'[c].user].email
  /\ \/ call'[c] = call[c]
     \/ call'[c].op \in {"verify", "reset"} => mailed[call'[c].token] # None
  /\ pc'[c] \in {"consume", "claim", "commit"} =>
       /\ call'[c].op \in {"verify", "reset"}
       /\ call'[c].token \in Links => links[call'[c].token].user = seen'[c].user

\* Such a step keeps what the mails and the accounts say of each other.
LEMMA LooksKeep ==
  ASSUME IInv, AddressInv, NEW c \in Calls, Others(c), Looks(c),
         UNCHANGED <<users, links, mailed, moved>>
  PROVE  AddressInv'
<1>1. /\ Users' = Users /\ Links' = Links /\ \A l : Usable(l)' = Usable(l)
  BY DEF Users, Links, Usable
<1>2. VerifiedAddress'
  BY <1>1 DEF AddressInv, VerifiedAddress
<1>3. LinksReachUser'
  BY <1>1 DEF AddressInv, LinksReachUser
<1>4. SightsAreCurrent'
  BY DEF AddressInv, SightsAreCurrent, Others, Looks
<1>5. LinksKeepUser'
  BY <1>1 DEF AddressInv, LinksKeepUser, Others, Looks
<1>6. MailedAtEnd'
  <2>1. mailed[c] = None
    BY DEF AddressInv, MailedAtEnd, Looks
  <2>2. QED BY <2>1 DEF AddressInv, MailedAtEnd, Others, Looks, Op
<1>7. QED BY <1>2, <1>3, <1>4, <1>5, <1>6 DEF AddressInv

\* A handler ends without a change of an account or a link.
LEMMA EndKeepsAddresses ==
  ASSUME IInv, AddressInv, NEW c \in Calls, pc[c] \notin Ends,
         \E outcome \in Ends : End(c, outcome),
         UNCHANGED <<users, links, mailed, moved>>
  PROVE  AddressInv'
<1>1. PICK outcome \in Ends : End(c, outcome)
  OBVIOUS
<1>2. /\ pc \in [Calls -> Stages \cup Ends] /\ seen \in [Calls -> Sights \cup {None}]
      /\ TypeOK
  BY DEF IInv, TypeOK
<1>3. /\ pc'[c] \in Ends /\ seen'[c] = None /\ UNCHANGED call
  BY <1>1, <1>2 DEF End, Goto
<1>4. Others(c)
  BY <1>1, <1>2, EndIsQuiet
<1>5. Looks(c)
  BY <1>3 DEF Looks, Ends
<1>6. QED BY <1>4, <1>5, LooksKeep

\* The steps that read: what they see is what is there.
LEMMA FindKeepsAddresses ==
  ASSUME IInv, AddressInv, NEW c \in Calls, Find(c)
  PROVE  AddressInv'
<1>0. TypeOK /\ RowsRefer
  BY DEF IInv
<1>1. pc[c] \in {"find", "taken"} /\ pc[c] \notin Ends
  BY DEF Find, FindNobody, Login, FindSession, FindForLogout, FindUser, FindOther,
         FindAddressee, FindLink, Ends
<1>2. ASSUME Refuse(c) \/ Answer(c), UNCHANGED <<users, links, mailed, moved>>
      PROVE  AddressInv'
  BY <1>1, <1>2, EndKeepsAddresses DEF Refuse, Answer, Ends
<1>3. ASSUME NEW stage \in {"create", "rotate", "revoke", "update"}, Continue(c, stage)
      PROVE  AddressInv'
  <2>1. /\ UNCHANGED <<users, links, mailed, moved, call, seen>>
        /\ Others(c) /\ pc'[c] = stage
    BY <1>0, <1>3, ContinueEffect DEF Stages, tables, ghosts
  <2>2. Looks(c)
    BY <1>1, <2>1 DEF Looks
  <2>3. QED BY <2>1, <2>2, LooksKeep
<1>4. ASSUME NEW stage \in {"issue", "taken", "delete", "consume", "claim"},
             NEW u \in Users, Read(c, u, stage),
             stage \in {"consume", "claim"} =>
               /\ Op(c) \in {"verify", "reset"}
               /\ call[c].token \in Links /\ links[call[c].token].user = u
      PROVE  AddressInv'
  <2>0. /\ UNCHANGED <<tables, ghosts, mailed, call, held>>
        /\ Others(c) /\ pc'[c] = stage
        /\ seen'[c] = [user |-> u, email |-> users[u].email,
                       resets |-> users[u].resets]
    <3>1. stage \in Stages
      BY <1>4 DEF Stages
    <3>2. QED BY <1>0, <1>4, <3>1, ReadEffect
  <2>1. /\ UNCHANGED <<users, links, mailed, moved, call>>
        /\ Others(c) /\ pc'[c] = stage
        /\ seen'[c].user = u /\ seen'[c].email = users[u].email
    BY <2>0 DEF tables, ghosts
  <2>2. Looks(c)
    BY <1>1, <1>4, <2>1 DEF Looks, Op
  <2>3. QED BY <2>1, <2>2, LooksKeep
<1>5. CASE FindNobody(c)
  BY <1>2, <1>3, <1>5 DEF FindNobody, Refuse, tables, ghosts
<1>6. CASE Login(c)
  BY <1>2, <1>4, <1>6 DEF Login, WithEmail, Refuse, tables, ghosts
<1>7. CASE FindSession(c)
  BY <1>2, <1>3, <1>7 DEF FindSession, Refuse, tables, ghosts
<1>8. CASE FindForLogout(c)
  BY <1>3, <1>8 DEF FindForLogout
<1>9. CASE FindUser(c)
  BY <1>0, <1>4, <1>9 DEF FindUser, RowsRefer
<1>10. CASE FindOther(c)
  BY <1>2, <1>3, <1>10 DEF FindOther, Refuse, tables, ghosts
<1>11. CASE FindAddressee(c)
  BY <1>2, <1>4, <1>11 DEF FindAddressee, WithEmail, tables, ghosts
<1>12. CASE FindLink(c)
  <2>1. \/ Refuse(c)
        \/ /\ call[c].token \in Links /\ Op(c) \in {"verify", "reset"}
           /\ \E stage \in {"consume", "claim"} :
                Read(c, links[call[c].token].user, stage)
    BY <1>12 DEF FindLink
  <2>2. call[c].token \in Links => links[call[c].token].user \in Users
    BY <1>0 DEF RowsRefer
  <2>3. QED BY <1>2, <1>4, <2>1, <2>2 DEF Refuse, tables, ghosts
<1>13. QED
  BY <1>5, <1>6, <1>7, <1>8, <1>9, <1>10, <1>11, <1>12 DEF Find

LEMMA ArriveKeepsAddresses ==
  ASSUME IInv, AddressInv, NEW c \in Calls, Arrive(c)
  PROVE  AddressInv'
<1>0. TypeOK /\ RowsRefer
  BY DEF IInv
<1>1. PICK r \in Requests :
        /\ Sendable(r)
        /\ call' = [call EXCEPT ![c] = r]
        /\ Goto(c, IF r.op = "update" THEN "auth" ELSE "find")
  BY DEF Arrive
<1>2. /\ UNCHANGED <<users, links, mailed, moved, seen>> /\ Others(c)
      /\ pc[c] = "idle" /\ pc'[c] \in {"auth", "find"} /\ call'[c] = r
  BY <1>0, <1>1, ArriveIsQuiet DEF Arrive, Goto, TypeOK, tables, ghosts, Quiet
<1>3. Looks(c)
  BY <1>1, <1>2 DEF Looks, Sendable, Ends
<1>4. QED BY <1>2, <1>3, LooksKeep

LEMMA LockKeepsAddresses ==
  ASSUME IInv, AddressInv, NEW c \in Calls,
         Authenticate(c) \/ Revoke(c) \/ DeleteLinks(c) \/ Claim(c)
  PROVE  AddressInv'
<1>0. TypeOK
  BY DEF IInv
<1>1. CASE Refuse(c)
  <2>1. pc[c] \notin Ends
    BY DEF Authenticate, Revoke, DeleteLinks, Claim, Ends
  <2>2. QED BY <1>1, <2>1, EndKeepsAddresses DEF Refuse, Ends, tables, ghosts
<1>2. CASE ~Refuse(c)
  <2>1. /\ UNCHANGED <<users, links, mailed, moved, call, seen>>
        /\ pc[c] \in {"auth", "rotate", "delete", "claim"}
        /\ \E stage \in {"find", "insert", "mint", "commit"} :
             Goto(c, stage) /\ (stage = "commit" => pc[c] = "claim")
        /\ \E rows : held' = [held EXCEPT ![c] = rows]
    <3>1. CASE Authenticate(c) \/ Revoke(c)
      <4>1. held' = [held EXCEPT ![c] = held[c]]
        BY <1>0, <1>2, <3>1
           DEF Authenticate, verifyToken, Revoke, Continue, TypeOK
      <4>2. QED
        BY <1>2, <3>1, <4>1
           DEF Authenticate, verifyToken, Revoke, Continue, tables, ghosts
    <3>2. CASE DeleteLinks(c) \/ Claim(c)
      BY <1>2, <3>2 DEF DeleteLinks, Claim, tables, ghosts
    <3>3. QED BY <3>1, <3>2
  <2>2. Others(c) /\ pc'[c] \in {"find", "insert", "mint", "commit"}
        /\ (pc'[c] = "commit" => pc[c] = "claim")
    BY <1>0, <2>1 DEF Others, Goto, TypeOK
  <2>3. Looks(c)
    BY <2>1, <2>2 DEF Looks, AddressInv, LinksKeepUser, MailedAtEnd, Op, Ends
  <2>4. QED BY <2>1, <2>2, <2>3, LooksKeep
<1>3. QED BY <1>1, <1>2

LEMMA SessionsKeepAddresses ==
  ASSUME IInv, AddressInv, NEW c \in Calls, Issue(c) \/ Insert(c) \/ LogOut(c)
  PROVE  AddressInv'
<1>1. pc[c] \notin Ends /\ Answer(c) /\ UNCHANGED <<users, links, mailed, moved>>
  BY DEF Issue, Insert, LogOut, Ends, ghosts
<1>2. QED BY <1>1, EndKeepsAddresses DEF Answer, Ends

\* The steps that make a link, and mail it.
LEMMA CreateKeepsAddresses ==
  ASSUME IInv, AddressInv, NEW c \in Calls, Create(c)
  PROVE  AddressInv'
<1>0. /\ TypeOK /\ RowsRefer /\ pc[c] = "create" /\ users[c] = None
      /\ links[c] = None /\ mailed[c] = None
  BY DEF IInv, RowsAreNew, Create, AddressInv, MailedAtEnd, Ends
<1>1. /\ \A d \in Calls : d # c => /\ users'[d] = users[d] /\ links'[d] = links[d]
                                   /\ seen'[d] = seen[d] /\ pc'[d] = pc[d]
      /\ users'[c] = Account(call[c].email, call[c].password)
      /\ links'[c] = Link(c, "EMAIL_VERIFICATION")
      /\ seen'[c] = [user |-> c, email |-> call[c].email, resets |-> 0]
      /\ pc'[c] = "mail"
      /\ UNCHANGED <<mailed, moved, call>>
  BY <1>0 DEF TypeOK, Create, Goto, ghosts
<1>2. /\ users'[c].email = call[c].email /\ users'[c].verified = None
      /\ links'[c].user = c /\ seen'[c].user = c /\ seen'[c].email = call[c].email
  BY <1>1 DEF Account, Link
<1>3. c \notin Users /\ c \notin Links
  BY <1>0 DEF Users, Links
<1>4. VerifiedAddress'
  <2>1. Users' \subseteq Users \cup {c}
    BY <1>1 DEF Users
  <2>2. \A u \in Users : u \in Calls
    BY DEF Users
  <2>3. QED
    BY <1>1, <1>2, <1>3, <2>1, <2>2 DEF AddressInv, VerifiedAddress
<1>5. LinksReachUser'
  <2> SUFFICES ASSUME NEW l \in Calls, Usable(l)', mailed[l] # None
               PROVE  mailed[l] = users'[links'[l].user].email \/ l \in moved
    BY <1>1 DEF LinksReachUser
  <2>1. l # c
    BY <1>0
  <2>2. Usable(l) /\ links'[l] = links[l]
    BY <1>1, <2>1 DEF Usable, Links
  <2>3. links[l].user \in Users
    BY <1>0, <2>2 DEF RowsRefer, Usable
  <2>4. users'[links[l].user] = users[links[l].user]
    BY <1>1, <1>3, <2>3 DEF Users
  <2>5. QED BY <2>2, <2>4 DEF AddressInv, LinksReachUser
<1>6. SightsAreCurrent'
  <2> SUFFICES ASSUME NEW d \in Calls, seen'[d] # None
               PROVE  seen'[d].email = users'[seen'[d].user].email \/ d \in moved
    BY <1>1 DEF SightsAreCurrent
  <2>1. CASE d = c
    BY <1>2, <2>1
  <2>2. CASE d # c
    <3>1. seen'[d] = seen[d] /\ seen[d].user \in Users
      BY <1>0, <1>1, <2>2 DEF RowsRefer
    <3>2. users'[seen[d].user] = users[seen[d].user]
      BY <1>1, <1>3, <3>1 DEF Users
    <3>3. QED BY <3>1, <3>2 DEF AddressInv, SightsAreCurrent
  <2>3. QED BY <2>1, <2>2
<1>7. MailedAtEnd'
  <2>1. Op(c) = "register"
    BY <1>0 DEF IInv, StagesFit
  <2>2. QED BY <1>0, <1>1, <2>1 DEF AddressInv, MailedAtEnd, Op, Ends
<1>8. LinksKeepUser'
  <2>1. ASSUME NEW d \in Calls, pc'[d] = "mail", d \in Links'
        PROVE  links'[d].user = seen'[d].user
    <3>1. CASE d = c
      BY <1>2, <3>1
    <3>2. CASE d # c
      BY <1>1, <2>1, <3>2 DEF AddressInv, LinksKeepUser, Links
    <3>3. QED BY <3>1, <3>2
  <2>2. ASSUME NEW d \in Calls, pc'[d] \in {"consume", "claim", "commit"},
               call[d].token \in Links'
        PROVE  links'[call[d].token].user = seen'[d].user
    <3>1. d # c /\ pc[d] = pc'[d] /\ seen'[d] = seen[d]
      BY <1>1, <2>2
    <3>2. call[d].token # c
      BY <1>0, <3>1, <2>2 DEF AddressInv, MailedAtEnd
    <3>3. call[d].token \in Links /\ links'[call[d].token] = links[call[d].token]
      BY <1>1, <2>2, <3>2 DEF Links
    <3>4. QED BY <2>2, <3>1, <3>3 DEF AddressInv, LinksKeepUser
  <2>3. QED BY <1>1, <2>1, <2>2 DEF LinksKeepUser
<1>9. QED BY <1>4, <1>5, <1>6, <1>7, <1>8 DEF AddressInv

LEMMA MintKeepsAddresses ==
  ASSUME IInv, AddressInv, NEW c \in Calls, Mint(c)
  PROVE  AddressInv'
<1>0. /\ TypeOK /\ pc[c] = "mint" /\ mailed[c] = None
      /\ UNCHANGED <<users, mailed, moved, call, seen>>
      /\ pc' = [pc EXCEPT ![c] = "mail"]
      /\ links' = [l \in Calls |-> IF l = c THEN Link(seen[c].user, Purpose(c))
                                   ELSE IF l \in held[c] THEN None ELSE links[l]]
  BY DEF IInv, Mint, Minting, Goto, ghosts, AddressInv, MailedAtEnd, Ends
<1>1. /\ pc'[c] = "mail" /\ \A d \in Calls : d # c => pc'[d] = pc[d]
      /\ links'[c].user = seen[c].user
      /\ \A l \in Calls : l # c /\ l \in Links' => l \in Links /\ links'[l] = links[l]
  BY <1>0 DEF TypeOK, Link, Links
<1>2. VerifiedAddress'
  BY <1>0 DEF AddressInv, VerifiedAddress, Users
<1>3. LinksReachUser'
  <2> SUFFICES ASSUME NEW l \in Calls, Usable(l)', mailed[l] # None
               PROVE  mailed[l] = users[links'[l].user].email \/ l \in moved
    BY <1>0 DEF LinksReachUser
  <2>1. Usable(l) /\ links'[l] = links[l]
    BY <1>0, <1>1 DEF Usable
  <2>2. QED BY <2>1 DEF AddressInv, LinksReachUser
<1>4. SightsAreCurrent'
  BY <1>0 DEF AddressInv, SightsAreCurrent
<1>5. MailedAtEnd'
  BY <1>0, <1>1 DEF AddressInv, MailedAtEnd, Op, Ends
<1>6. LinksKeepUser'
  <2>1. ASSUME NEW d \in Calls, pc'[d] = "mail", d \in Links'
        PROVE  links'[d].user = seen[d].user
    BY <1>1, <2>1 DEF AddressInv, LinksKeepUser
  <2>2. ASSUME NEW d \in Calls, pc'[d] \in {"consume", "claim", "commit"},
               call[d].token \in Links'
        PROVE  links'[call[d].token].user = seen[d].user
    <3>1. pc[d] = pc'[d]
      BY <1>1, <2>2
    <3>2. call[d].token # c
      BY <1>0, <3>1, <2>2 DEF AddressInv, MailedAtEnd
    <3>3. call[d].token \in Links /\ links'[call[d].token] = links[call[d].token]
      BY <1>1, <2>2, <3>2 DEF Links
    <3>4. QED BY <2>2, <3>1, <3>3 DEF AddressInv, LinksKeepUser
  <2>3. QED BY <1>0, <2>1, <2>2 DEF LinksKeepUser
<1>7. QED BY <1>2, <1>3, <1>4, <1>5, <1>6 DEF AddressInv

LEMMA MailKeepsAddresses ==
  ASSUME IInv, AddressInv, NEW c \in Calls, Mail(c)
  PROVE  AddressInv'
<1>0. /\ TypeOK /\ RowsRefer /\ pc[c] = "mail" /\ mailed[c] = None
      /\ UNCHANGED <<users, links, moved, call>>
      /\ Others(c) /\ pc'[c] \in Ends /\ seen'[c] = None
      /\ seen[c] # None
  BY AnswerEffect
     DEF IInv, Mail, tables, ghosts, AddressInv, MailedAtEnd, Ends, RowsRefer
<1>1. /\ mailed'[c] = seen[c].email \/ mailed'[c] = None
      /\ \A l \in Calls : l # c => mailed'[l] = mailed[l]
  BY <1>0 DEF Mail, TypeOK
<1>2. /\ Users' = Users /\ Links' = Links /\ \A l : Usable(l)' = Usable(l)
  BY <1>0 DEF Users, Links, Usable
<1>3. VerifiedAddress'
  <2> SUFFICES ASSUME NEW u \in Users, users[u].verified # None
               PROVE  LET l == users[u].verified
                      IN mailed'[l] = users[u].email \/ l \in moved
    BY <1>0, <1>2 DEF VerifiedAddress
  <2> DEFINE l == users[u].verified
  <2>1. l \in Calls /\ users[u].email # None
    BY <1>0, RowTypes, AuthAssumption DEF UserRows
  <2>2. mailed[l] = users[u].email \/ l \in moved
    BY DEF AddressInv, VerifiedAddress
  <2>3. l \in moved \/ l # c
    BY <1>0, <2>1, <2>2
  <2>4. QED BY <1>1, <2>1, <2>2, <2>3
<1>4. LinksReachUser'
  <2> SUFFICES ASSUME NEW l \in Calls, Usable(l), mailed'[l] # None
               PROVE  mailed'[l] = users[links[l].user].email \/ l \in moved
    BY <1>0, <1>2 DEF LinksReachUser
  <2>1. CASE l = c
    <3>1. links[c].user = seen[c].user
      BY <1>0, <2>1 DEF AddressInv, LinksKeepUser, Usable
    <3>2. seen[c].email = users[seen[c].user].email \/ c \in moved
      BY <1>0 DEF AddressInv, SightsAreCurrent
    <3>3. QED BY <1>1, <2>1, <3>1, <3>2
  <2>2. CASE l # c
    BY <1>1, <2>2 DEF AddressInv, LinksReachUser
  <2>3. QED BY <2>1, <2>2
<1>5. SightsAreCurrent'
  BY <1>0 DEF AddressInv, SightsAreCurrent, Others
<1>6. LinksKeepUser'
  BY <1>0, <1>2 DEF AddressInv, LinksKeepUser, Others, Ends
<1>7. MailedAtEnd'
  <2>1. \A d \in Calls : mailed'[d] # None => pc'[d] \in Ends
    BY <1>0, <1>1 DEF AddressInv, MailedAtEnd, Others
  <2>2. ASSUME NEW d \in Calls, Op(d) \in {"verify", "reset"}
        PROVE  mailed'[call[d].token] # None
    <3>1. mailed[call[d].token] # None /\ call[d].token \in Calls
      <4>1. call[d] \in Requests \cup {[op |-> "none"]}
        BY <1>0 DEF TypeOK
      <4>2. QED BY <2>2, <4>1 DEF AddressInv, MailedAtEnd, Op, Requests
    <3>2. QED BY <1>0, <1>1, <3>1
  <2>3. \A d \in Calls : pc'[d] \in {"consume", "claim", "commit"} =>
                           Op(d) \in {"verify", "reset"}
    BY <1>0 DEF AddressInv, MailedAtEnd, Others, Ends
  <2>4. QED BY <1>0, <2>1, <2>2, <2>3 DEF MailedAtEnd, Op
<1>8. QED BY <1>3, <1>4, <1>5, <1>6, <1>7 DEF AddressInv

\* The address changes: what was read or mailed under the old one is marked.
LEMMA UpdateUserKeepsAddresses ==
  ASSUME IInv, AddressInv, NEW c \in Calls, UpdateUser(c)
  PROVE  AddressInv'
<1> DEFINE u == call[c].user
           row == [users[u] EXCEPT !.email = call[c].email, !.verified = Marker(c)]
<1>0. /\ TypeOK /\ RowsRefer /\ UNCHANGED <<links, mailed, call>>
      /\ Others(c) /\ pc'[c] \in Ends /\ seen'[c] = None
      /\ pc[c] = "update" /\ Op(c) = "update" /\ seen[c] # None
  BY AnswerEffect DEF IInv, UpdateUser, StagesFit, RowsRefer
<1>1. u \in Users /\ u \in Calls /\ users[u] \in UserRows
  BY <1>0, RowTypes DEF RowsRefer
<1>2. /\ users'[u].email = call[c].email /\ users'[u].verified = Marker(c)
      /\ \A d \in Calls : d # u => users'[d] = users[d]
  <2>1. /\ row.email = call[c].email /\ row.verified = Marker(c)
    BY <1>1 DEF UserRows
  <2>2. users'[u] = row /\ \A d \in Calls : d # u => users'[d] = users[d]
    BY <1>0, <1>1 DEF UpdateUser, TypeOK
  <2>3. QED BY <2>1, <2>2
<1>3. /\ moved \subseteq moved'
      /\ users'[u].email # users[u].email =>
           /\ Outdated(u) \subseteq moved'
           /\ seen[c].email # users[u].email => {users[u].verified} \ {None} \subseteq moved'
  BY <1>2 DEF UpdateUser
<1>4. VerifiedAddress'
  <2> SUFFICES ASSUME NEW w \in Users', users'[w].verified # None
               PROVE  LET l == users'[w].verified
                      IN mailed[l] = users'[w].email \/ l \in moved'
    BY <1>0 DEF VerifiedAddress
  <2>1. CASE w # u
    <3>1. w \in Users /\ users'[w] = users[w]
      BY <1>2, <2>1 DEF Users
    <3>2. QED BY <1>3, <3>1 DEF AddressInv, VerifiedAddress
  <2>2. CASE w = u
    <3>1. /\ call[c].email = seen[c].email
          /\ users'[u].verified = users[u].verified
      BY <1>2, <2>2 DEF Marker
    <3>2. CASE users'[u].email = users[u].email
      BY <1>1, <1>3, <2>2, <3>1, <3>2 DEF AddressInv, VerifiedAddress
    <3>3. CASE users'[u].email # users[u].email
      BY <1>2, <1>3, <2>2, <3>1, <3>3
    <3>4. QED BY <3>2, <3>3
  <2>3. QED BY <2>1, <2>2
<1>5. LinksReachUser'
  <2> SUFFICES ASSUME NEW l \in Calls, Usable(l), mailed[l] # None
               PROVE  mailed[l] = users'[links[l].user].email \/ l \in moved'
    BY <1>0 DEF LinksReachUser, Usable, Links
  <2>1. mailed[l] = users[links[l].user].email \/ l \in moved
    BY DEF AddressInv, LinksReachUser
  <2>2. links[l].user \in Calls
    BY <1>0 DEF RowsRefer, Usable, Users
  <2>3. CASE links[l].user = u /\ users'[u].email # users[u].email
    <3>1. l \in Outdated(u)
      BY <2>3 DEF Outdated, Usable
    <3>2. QED BY <1>3, <2>3, <3>1
  <2>4. CASE ~(links[l].user = u /\ users'[u].email # users[u].email)
    BY <1>2, <1>3, <2>1, <2>2, <2>4
  <2>5. QED BY <2>3, <2>4
<1>6. SightsAreCurrent'
  <2> SUFFICES ASSUME NEW d \in Calls, seen'[d] # None
               PROVE  seen'[d].email = users'[seen'[d].user].email \/ d \in moved'
    BY DEF SightsAreCurrent
  <2>1. seen'[d] = seen[d] /\ seen[d].user \in Calls
    BY <1>0 DEF Others, RowsRefer, Users
  <2>2. seen[d].email = users[seen[d].user].email \/ d \in moved
    BY <2>1 DEF AddressInv, SightsAreCurrent
  <2>3. CASE seen[d].user = u /\ users'[u].email # users[u].email
    <3>1. d \in Outdated(u)
      BY <2>1, <2>3 DEF Outdated
    <3>2. QED BY <1>3, <2>3, <3>1
  <2>4. CASE ~(seen[d].user = u /\ users'[u].email # users[u].email)
    BY <1>2, <1>3, <2>1, <2>2, <2>4
  <2>5. QED BY <2>3, <2>4
<1>7. LinksKeepUser'
  <2>1. Links' = Links
    BY <1>0 DEF Links
  <2>2. QED BY <1>0, <2>1 DEF AddressInv, LinksKeepUser, Others, Ends
<1>8. MailedAtEnd'
  BY <1>0 DEF AddressInv, MailedAtEnd, Others, Op, Ends
<1>9. QED BY <1>4, <1>5, <1>6, <1>7, <1>8 DEF AddressInv

\* A link is used up by its user's handler.
LEMMA UseKeepsAddresses ==
  ASSUME IInv, AddressInv, NEW c \in Calls, NEW l \in Calls, Usable(l),
         Others(c), pc'[c] \in Ends, seen'[c] = None, UNCHANGED <<call, mailed, moved>>,
         links'[l] # None, links'[l].consumed, links'[l].user = links[l].user,
         \A d \in Calls : d # l => links'[d] = links[d],
         Users' = Users,
         \A u \in Users : users'[u].email = users[u].email,
         \A u \in Users :
           \/ users'[u].verified = users[u].verified
           \/ users'[u].verified = l /\ u = links[l].user /\ mailed[l] # None
  PROVE  AddressInv'
<1>0. RowsRefer /\ Links' = Links
  BY DEF IInv, Links, Usable
<1>1. \A d \in Calls : d \in Links => links'[d].user = links[d].user
  OBVIOUS
<1>2. VerifiedAddress'
  <2> SUFFICES ASSUME NEW u \in Users, users'[u].verified # None
               PROVE  LET m == users'[u].verified
                      IN mailed[m] = users[u].email \/ m \in moved
    BY DEF VerifiedAddress
  <2>1. CASE users'[u].verified = users[u].verified
    BY <2>1 DEF AddressInv, VerifiedAddress
  <2>2. CASE users'[u].verified = l /\ u = links[l].user /\ mailed[l] # None
    BY <2>2 DEF AddressInv, LinksReachUser
  <2>3. QED BY <2>1, <2>2
<1>3. LinksReachUser'
  <2> SUFFICES ASSUME NEW d \in Calls, Usable(d)', mailed[d] # None
               PROVE  mailed[d] = users'[links'[d].user].email \/ d \in moved
    BY DEF LinksReachUser
  <2>1. Usable(d) /\ links'[d] = links[d]
    BY <1>0 DEF Usable
  <2>2. links[d].user \in Users
    BY <1>0, <2>1 DEF RowsRefer, Usable
  <2>3. QED BY <2>1, <2>2 DEF AddressInv, LinksReachUser
<1>4. SightsAreCurrent'
  <2> SUFFICES ASSUME NEW d \in Calls, seen'[d] # None
               PROVE  seen'[d].email = users'[seen'[d].user].email \/ d \in moved
    BY DEF SightsAreCurrent
  <2>1. seen'[d] = seen[d] /\ seen[d].user \in Users
    BY <1>0 DEF Others, RowsRefer
  <2>2. QED BY <2>1 DEF AddressInv, SightsAreCurrent
<1>5. LinksKeepUser'
  <2>1. ASSUME NEW d \in Calls, pc'[d] = "mail", d \in Links
        PROVE  links'[d].user = seen'[d].user
    BY <1>1, <2>1 DEF AddressInv, LinksKeepUser, Others, Ends
  <2>2. ASSUME NEW d \in Calls, pc'[d] \in {"consume", "claim", "commit"},
               call[d].token \in Links
        PROVE  links'[call[d].token].user = seen'[d].user
    <3>1. call[d].token \in Calls
      BY <2>2 DEF Links
    <3>2. QED BY <1>1, <2>2, <3>1 DEF AddressInv, LinksKeepUser, Others, Ends
  <2>3. QED BY <1>0, <2>1, <2>2 DEF LinksKeepUser
<1>6. MailedAtEnd'
  BY DEF AddressInv, MailedAtEnd, Others, Op, Ends
<1>7. QED BY <1>2, <1>3, <1>4, <1>5, <1>6 DEF AddressInv

LEMMA ConsumeKeepsAddresses ==
  ASSUME IInv, AddressInv, NEW c \in Calls, ConsumeVerification(c)
  PROVE  AddressInv'
<1> DEFINE l == call[c].token
           u == seen[c].user
<1>0. TypeOK /\ RowsRefer /\ pc[c] = "consume"
  BY DEF IInv, ConsumeVerification
<1>1. CASE Refuse(c)
  BY <1>0, <1>1, EndKeepsAddresses DEF Refuse, Ends, tables, ghosts
<1>2. CASE ~Refuse(c)
  <2>1. /\ Usable(l)
        /\ links' = [links EXCEPT ![l] = [Link(u, "EMAIL_VERIFICATION")
                                          EXCEPT !.consumed = TRUE]]
        /\ users' = [users EXCEPT ![u].verified = l]
        /\ uses' = [uses EXCEPT ![l] = @ + 1]
        /\ Answer(c)
        /\ UNCHANGED <<sessions, mailed, overlap, moved>>
    BY <1>2 DEF ConsumeVerification
  <2>2. Others(c) /\ UNCHANGED call /\ pc'[c] \in Ends /\ seen'[c] = None
    BY <1>0, <2>1, AnswerEffect
  <2>3. /\ l \in Calls /\ u \in Users /\ u \in Calls /\ users[u] \in UserRows
        /\ links[l].user = u /\ mailed[l] # None
    BY <1>0, <2>1, RowTypes
       DEF Usable, Links, RowsRefer, AddressInv, LinksKeepUser, MailedAtEnd
  <2>4. /\ links'[l] # None /\ links'[l].consumed /\ links'[l].user = u
        /\ \A d \in Calls : d # l => links'[d] = links[d]
    BY <1>0, <2>1, <2>3, UseEffect DEF Purposes
  <2>5. /\ Users' = Users
        /\ \A d \in Users : users'[d].email = users[d].email
        /\ \A d \in Users : \/ users'[d].verified = users[d].verified
                            \/ users'[d].verified = l /\ d = u
    <3>1. /\ [users[u] EXCEPT !.verified = l] \in UserRows
          /\ [users[u] EXCEPT !.verified = l].email = users[u].email
          /\ [users[u] EXCEPT !.verified = l].verified = l
      BY <2>3 DEF UserRows
    <3>2. users' = [users EXCEPT ![u] = [users[u] EXCEPT !.verified = l]]
      BY <2>1
    <3>3. QED BY <1>0, <2>3, <3>1, <3>2, AuthAssumption DEF TypeOK, Users
  <2>6. QED BY <2>1, <2>2, <2>3, <2>4, <2>5, UseKeepsAddresses
<1>3. QED BY <1>1, <1>2

LEMMA CommitKeepsAddresses ==
  ASSUME IInv, AddressInv, NEW c \in Calls, CommitReset(c)
  PROVE  AddressInv'
<1> DEFINE l == call[c].token
           u == seen[c].user
<1>0. /\ TypeOK /\ RowsRefer /\ ResetHoldsLink /\ pc[c] = "commit"
      /\ Others(c) /\ UNCHANGED <<call, mailed, moved>>
      /\ pc'[c] \in Ends /\ seen'[c] = None
  BY AnswerEffect DEF IInv, CommitReset
<1>1. /\ l \in Calls /\ Usable(l) /\ u \in Users /\ u \in Calls
      /\ users[u] \in UserRows /\ call[c].password \in Passwords
  <2>1. Usable(l) /\ Op(c) = "reset" /\ u \in Users
    BY <1>0 DEF ResetHoldsLink, RowsRefer
  <2>2. QED BY <1>0, <2>1, RowTypes, RequestTypes DEF TypeOK
<1>2. links[l].user = u
  BY <1>0, <1>1 DEF AddressInv, LinksKeepUser, Usable
<1>3. /\ links'[l] # None /\ links'[l].consumed /\ links'[l].user = u
      /\ \A d \in Calls : d # l => links'[d] = links[d]
  BY <1>0, <1>1, UseEffect DEF CommitReset, Purposes
<1>4. /\ Users' = Users
      /\ \A d \in Users : users'[d].email = users[d].email
      /\ \A d \in Users : users'[d].verified = users[d].verified
  <2> DEFINE row == [users[u] EXCEPT !.password = call[c].password, !.resets = @ + 1]
  <2>1. row # None /\ row.email = users[u].email /\ row.verified = users[u].verified
    <3>1. users[u].resets + 1 \in Nat
      BY <1>1 DEF UserRows
    <3>2. row \in UserRows
      BY <1>1, <3>1 DEF UserRows
    <3>3. QED BY <1>1, <3>2, AuthAssumption DEF UserRows
  <2>2. users' = [users EXCEPT ![u] = row]
    BY <1>0, <1>1 DEF CommitReset, TypeOK
  <2> HIDE DEF row
  <2>3. QED BY <1>0, <1>1, <2>1, <2>2 DEF TypeOK, Users
<1>5. QED BY <1>0, <1>1, <1>2, <1>3, <1>4, UseKeepsAddresses

LEMMA ExpiryKeepsAddresses ==
  ASSUME IInv, AddressInv, NEW r \in Calls, ExpireSession(r) \/ ExpireLink(r)
  PROVE  AddressInv'
<1>0. /\ TypeOK /\ UNCHANGED <<users, mailed, call, pc, seen, moved>>
      /\ \/ UNCHANGED links
         \/ r \in Links /\ links' = [links EXCEPT ![r].expired = TRUE]
  BY DEF IInv, ExpireSession, ExpireLink, handler, ghosts
<1>1. \A l \in Calls :
        /\ links'[l] = None <=> links[l] = None
        /\ links'[l].user = links[l].user
        /\ links'[l].consumed <=> links[l].consumed
  <2>1. CASE UNCHANGED links
    BY <2>1
  <2>2. CASE r \in Links /\ links' = [links EXCEPT ![r].expired = TRUE]
    <3>0. links[r] \in LinkRows
      BY <1>0, <2>2 DEF TypeOK, Links
    <3>1. /\ [links[r] EXCEPT !.expired = TRUE] \in LinkRows
          /\ links' = [links EXCEPT ![r] = [links[r] EXCEPT !.expired = TRUE]]
      BY <1>0, <2>2, <3>0 DEF LinkRows
    <3>2. /\ links'[r] = [links[r] EXCEPT !.expired = TRUE]
          /\ \A l \in Calls : l # r => links'[l] = links[l]
      BY <1>0, <3>1 DEF TypeOK
    <3>3. QED BY <2>2, <3>0, <3>1, <3>2, AuthAssumption DEF LinkRows, Links
  <2>3. QED BY <1>0, <2>1, <2>2
<1>2. /\ Users' = Users /\ Links' = Links
      /\ \A l \in Calls : Usable(l)' <=> Usable(l)
  BY <1>0, <1>1 DEF Users, Links, Usable
<1>3. VerifiedAddress'
  BY <1>0, <1>2 DEF AddressInv, VerifiedAddress
<1>4. LinksReachUser'
  BY <1>0, <1>1, <1>2 DEF AddressInv, LinksReachUser
<1>5. SightsAreCurrent' /\ MailedAtEnd'
  BY <1>0 DEF AddressInv, SightsAreCurrent, MailedAtEnd, Op
<1>6. LinksKeepUser'
  BY <1>0, <1>1, <1>2 DEF AddressInv, LinksKeepUser, Links
<1>7. QED BY <1>3, <1>4, <1>5, <1>6 DEF AddressInv

LEMMA InitAddresses ==
  ASSUME Init
  PROVE  AddressInv
<1>1. PICK e \in [Founders -> Emails], p \in [Founders -> Passwords] :
        /\ users = [c \in Calls |-> IF c \in Founders THEN Account(e[c], p[c]) ELSE None]
        /\ mailed = [c \in Calls |-> IF c \in Founders THEN e[c] ELSE None]
  BY DEF Init
<1>2. /\ links = [c \in Calls |->
                    IF c \in Founders THEN Link(c, "EMAIL_VERIFICATION") ELSE None]
      /\ \A c \in Calls : /\ call[c] = [op |-> "none"] /\ seen[c] = None
                          /\ pc[c] = IF c \in Founders THEN "ok" ELSE "idle"
      /\ Founders \subseteq Calls
  BY AuthAssumption DEF Init
<1>3. \A c \in Founders : /\ users[c].email = e[c] /\ users[c].verified = None
                          /\ links[c].user = c /\ mailed[c] = e[c]
  BY <1>1, <1>2 DEF Account, Link
<1>4. \A c \in Calls : c \notin Founders =>
        users[c] = None /\ links[c] = None /\ mailed[c] = None
  BY <1>1, <1>2
<1>5. VerifiedAddress
  BY <1>3, <1>4 DEF VerifiedAddress, Users
<1>6. LinksReachUser
  BY <1>3, <1>4 DEF LinksReachUser
<1>7. SightsAreCurrent /\ LinksKeepUser
  BY <1>2 DEF SightsAreCurrent, LinksKeepUser
<1>8. MailedAtEnd
  BY <1>2, <1>4 DEF MailedAtEnd, Op, Ends
<1>9. QED BY <1>5, <1>6, <1>7, <1>8 DEF AddressInv

LEMMA NextKeepsAddresses ==
  ASSUME IInv, AddressInv, [Next]_vars
  PROVE  AddressInv'
<1>1. ASSUME NEW c \in Calls, Arrive(c) \/ Handle(c) \/ Error(c)
      PROVE  AddressInv'
  <2>1. CASE Arrive(c)
    BY <2>1, ArriveKeepsAddresses
  <2>2. CASE Error(c) \/ MintTwice(c) \/ Taken(c)
    <3>1. pc[c] \notin Ends /\ Fail(c)
      BY <2>2 DEF Error, MintTwice, Minting, Taken, Stages, Ends
    <3>2. QED BY <3>1, EndKeepsAddresses DEF Fail, Ends, tables, ghosts
  <2>3. CASE Find(c)
    BY <2>3, FindKeepsAddresses
  <2>4. CASE Authenticate(c) \/ Revoke(c) \/ DeleteLinks(c) \/ Claim(c)
    BY <2>4, LockKeepsAddresses
  <2>5. CASE Create(c)
    BY <2>5, CreateKeepsAddresses
  <2>6. CASE Mail(c)
    BY <2>6, MailKeepsAddresses
  <2>7. CASE Issue(c) \/ Insert(c) \/ LogOut(c)
    BY <2>7, SessionsKeepAddresses
  <2>8. CASE UpdateUser(c)
    BY <2>8, UpdateUserKeepsAddresses
  <2>9. CASE Mint(c)
    BY <2>9, MintKeepsAddresses
  <2>10. CASE ConsumeVerification(c)
    BY <2>10, ConsumeKeepsAddresses
  <2>11. CASE CommitReset(c)
    BY <2>11, CommitKeepsAddresses
  <2>12. QED
    BY <1>1, <2>1, <2>2, <2>3, <2>4, <2>5, <2>6, <2>7, <2>8, <2>9, <2>10, <2>11
       DEF Handle, Write
<1>2. ASSUME NEW r \in Calls, ExpireSession(r) \/ ExpireLink(r)
      PROVE  AddressInv'
  BY <1>2, ExpiryKeepsAddresses
<1>3. CASE UNCHANGED vars
  <2>1. UNCHANGED <<users, links, mailed, call, pc, seen, moved>>
    BY <1>3 DEF vars, tables, handler, ghosts
  <2>2. QED
    BY <2>1 DEF AddressInv, VerifiedAddress, LinksReachUser, SightsAreCurrent,
                LinksKeepUser, MailedAtEnd, Op, Usable, Users, Links
<1>4. QED BY <1>1, <1>2, <1>3 DEF Next

\* An address that is marked as verified is the one its link was mailed to,
\* unless it changed while the link was outstanding or two updates overlapped.
THEOREM VerifiedWasMailed == Spec => []VerifiedAddress
<1>1. Init => IInv /\ AddressInv
  BY InitIInv, InitAddresses
<1>2. IInv /\ AddressInv /\ [Next]_vars => IInv' /\ AddressInv'
  BY NextKeeps, NextKeepsAddresses
<1>3. AddressInv => VerifiedAddress
  BY DEF AddressInv
<1>4. QED BY <1>1, <1>2, <1>3, PTL DEF Spec
=============================================================================
