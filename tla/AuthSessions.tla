----------------------------- MODULE AuthSessions -----------------------------
(***************************************************************************)
(* Accounts, refresh-token sessions and e-mailed links                     *)
(*   modules/auth/auth.{service,repository}.ts                             *)
(*   modules/email/email.service.ts                                        *)
(*                                                                         *)
(* A call is one execution of a handler.  Reads are single queries, writes *)
(* are transactions of READ COMMITTED PostgreSQL; the two transactions     *)
(* that take row locks before they commit (rotation and password reset)    *)
(* have a step for each.  Everything a call creates -- the account, the    *)
(* refresh token, the e-mailed link -- is named by the call: tokens are    *)
(* random and ids are uuids.  E-mail addresses are compared up to case,    *)
(* and the name of a user is left out.                                     *)
(***************************************************************************)
EXTENDS Integers, FiniteSets

CONSTANTS
  Calls, Emails, Passwords,
  Founders,     \* calls that had registered their accounts before the others
  MaxExpiries,  \* bound: rows whose expiresAt passes
  None

Purposes == {"EMAIL_VERIFICATION", "PASSWORD_RESET"}

\* Rows: emailVerifiedAt is the link that set it; the number of resets so far
\* is a ghost, and so is what a session was issued under.
UserRows ==
  [email : Emails, password : Passwords, verified : Calls \cup {None}, resets : Nat]
SessionRows ==
  [user : Calls, end : {"no", "rotated", "logout", "reset"}, expired : BOOLEAN,
   parent : Calls \cup {None}, resets : Nat, late : BOOLEAN]
LinkRows ==
  [user : Calls, purpose : Purposes, consumed : BOOLEAN, expired : BOOLEAN]
Sights == [user : Calls, email : Emails, resets : Nat]

ASSUME AuthAssumption ==
  /\ Founders \subseteq Calls
  /\ MaxExpiries \in Nat
  /\ None \notin Calls \cup Emails
  /\ None \notin UserRows \cup SessionRows \cup LinkRows \cup Sights

VARIABLES
  users,     \* User
  sessions,  \* RefreshToken; revokedAt is how it ended
  links,     \* AuthToken
  mailed,    \* the address a link was delivered to
  call,      \* what each call asks for
  pc,        \* how far its handler is
  seen,      \* the user row that it read
  held,      \* rows its open transaction works on
  overlap,   \* ghost: the password was reset while it held an answer
  uses,      \* ghost: how often a link has worked
  moved      \* ghost: links whose user's address changed before they were used,
             \* or after that by an update that did not know it

tables == <<users, sessions, links>>
ghosts == <<overlap, uses, moved>>
handler == <<call, pc, seen, held>>
vars == <<tables, mailed, handler, ghosts>>

\* The ends of a handler: an answer that says so or was lost after the
\* commit, a 4xx, and an error of the database or the process.
Ends == {"ok", "lost", "refused", "error"}
Stages == {"idle", "auth", "find", "create", "issue", "rotate", "insert",
           "revoke", "taken", "update", "consume", "delete", "mint", "mail",
           "claim", "commit"}

Users == {u \in Calls : users[u] # None}
Sessions == {s \in Calls : sessions[s] # None}
Links == {l \in Calls : links[l] # None}
Active(s) == sessions[s] # None /\ sessions[s].end = "no"
WithEmail(e) == {u \in Users : users[u].email = e}

Account(e, p) == [email |-> e, password |-> p, verified |-> None, resets |-> 0]
Session(u, parent, resets, late) ==
  [user |-> u, end |-> "no", expired |-> FALSE,
   parent |-> parent, resets |-> resets, late |-> late]
Link(u, purpose) ==
  [user |-> u, purpose |-> purpose, consumed |-> FALSE, expired |-> FALSE]

\* The founders have just registered, and hold what a registration gives.
Init ==
  /\ \E e \in [Founders -> Emails], p \in [Founders -> Passwords] :
       /\ \A f, g \in Founders : f # g => e[f] # e[g]
       /\ users = [c \in Calls |->
                     IF c \in Founders THEN Account(e[c], p[c]) ELSE None]
       /\ mailed = [c \in Calls |-> IF c \in Founders THEN e[c] ELSE None]
  /\ sessions = [c \in Calls |->
                   IF c \in Founders THEN Session(c, None, 0, FALSE) ELSE None]
  /\ links = [c \in Calls |->
                IF c \in Founders THEN Link(c, "EMAIL_VERIFICATION") ELSE None]
  /\ call = [c \in Calls |-> [op |-> "none"]]
  /\ pc = [c \in Calls |-> IF c \in Founders THEN "ok" ELSE "idle"]
  /\ seen = [c \in Calls |-> None]
  /\ held = [c \in Calls |-> {}]
  /\ overlap = [c \in Calls |-> FALSE]
  /\ uses = [c \in Calls |-> 0]
  /\ moved = {}

----------------------------------------------------------------------------
Op(c) == call[c].op
Goto(c, stage) == pc' = [pc EXCEPT ![c] = stage]

\* A handler ends, and what it had read goes with it.
End(c, outcome) ==
  /\ Goto(c, outcome)
  /\ seen' = [seen EXCEPT ![c] = None]
  /\ held' = [held EXCEPT ![c] = {}]
  /\ UNCHANGED call

Refuse(c) == End(c, "refused") /\ UNCHANGED <<tables, mailed, ghosts>>
Fail(c) == End(c, "error") /\ UNCHANGED <<tables, mailed, ghosts>>
\* After a commit the answer reaches the client or not.
Answer(c) == End(c, "ok") \/ End(c, "lost")

\* A query that sends the handler on.
Continue(c, stage) ==
  Goto(c, stage) /\ UNCHANGED <<tables, mailed, call, seen, held, ghosts>>

Read(c, u, stage) ==
  /\ seen' = [seen EXCEPT ![c] = [user |-> u, email |-> users[u].email,
                                  resets |-> users[u].resets]]
  /\ Goto(c, stage)
  /\ UNCHANGED <<tables, mailed, call, held, ghosts>>

\* Row locks: of a rotation, of a reset and of one that replaces a link.
SessionLocked(s) == \E d \in Calls : pc[d] = "insert" /\ call[d].token = s
LinkLocked(l) ==
  \E d \in Calls : \/ pc[d] = "mint" /\ l \in held[d]
                   \/ pc[d] = "commit" /\ call[d].token = l
Resetting(u) == \E d \in Calls : pc[d] = "commit" /\ seen[d].user = u

----------------------------------------------------------------------------
\* Requests.  Clients present tokens that they have received: a refresh token
\* with an answer, a link by e-mail; a session also gives its user access.

Held == {s \in Sessions : pc[s] = "ok"}
Requests ==
  [op : {"register", "login"}, email : Emails, password : Passwords]
  \cup [op : {"resend", "forgot"}, email : Emails]
  \cup [op : {"refresh", "logout"}, token : Calls]
  \cup [op : {"update"}, user : Calls, email : Emails]
  \cup [op : {"verify"}, token : Calls]
  \cup [op : {"reset"}, token : Calls, password : Passwords]

Sendable(r) ==
  /\ r.op \in {"refresh", "logout"} => r.token \in Held
  /\ r.op \in {"verify", "reset"} => mailed[r.token] # None
  /\ r.op = "update" => r.user \in {sessions[s].user : s \in Held}

Arrive(c) ==
  /\ pc[c] = "idle"
  /\ \E r \in Requests :
       /\ Sendable(r)
       /\ call' = [call EXCEPT ![c] = r]
       /\ Goto(c, IF r.op = "update" THEN "auth" ELSE "find")
  /\ UNCHANGED <<tables, mailed, seen, held, ghosts>>

\* An access token is valid by itself, until it expires; nothing is looked up.
verifyToken(c) == Continue(c, "find") \/ Refuse(c)

Authenticate(c) == pc[c] = "auth" /\ verifyToken(c)

----------------------------------------------------------------------------
\* register

FindNobody(c) ==
  /\ pc[c] = "find" /\ Op(c) = "register"
  /\ IF WithEmail(call[c].email) # {} THEN Refuse(c) ELSE Continue(c, "create")

\* One transaction creates the user, the session and the verification link.
Create(c) ==
  /\ pc[c] = "create"
  /\ WithEmail(call[c].email) = {}
  /\ users' = [users EXCEPT ![c] = Account(call[c].email, call[c].password)]
  /\ sessions' = [sessions EXCEPT ![c] = Session(c, None, 0, FALSE)]
  /\ links' = [links EXCEPT ![c] = Link(c, "EMAIL_VERIFICATION")]
  /\ seen' = [seen EXCEPT ![c] = [user |-> c, email |-> call[c].email, resets |-> 0]]
  /\ Goto(c, "mail")
  /\ UNCHANGED <<mailed, call, held, ghosts>>

\* The unique address was taken between the query and the transaction.
Taken(c) ==
  /\ pc[c] \in {"create", "update"}
  /\ ~WithEmail(call[c].email) \subseteq (IF Op(c) = "update" THEN {call[c].user} ELSE {})
  /\ Fail(c)

\* The link is e-mailed to the address in the row that was read; a failure of
\* the delivery is only logged.
Mail(c) ==
  /\ pc[c] = "mail"
  /\ \/ mailed' = [mailed EXCEPT ![c] = seen[c].email]
     \/ UNCHANGED mailed
  /\ Answer(c)
  /\ UNCHANGED <<tables, ghosts>>

----------------------------------------------------------------------------
\* login

Login(c) ==
  /\ pc[c] = "find" /\ Op(c) = "login"
  /\ \/ \E u \in WithEmail(call[c].email) :
          /\ users[u].password = call[c].password
          /\ Read(c, u, "issue")
     \/ /\ \A u \in WithEmail(call[c].email) :
             users[u].password # call[c].password
        /\ Refuse(c)

\* issueRefreshToken, after bcrypt has taken its time.
Issue(c) ==
  /\ pc[c] = "issue"
  /\ LET u == seen[c].user IN
     sessions' = [sessions EXCEPT ![c] =
       Session(u, None, seen[c].resets, overlap[c] \/ Resetting(u))]
  /\ Answer(c)
  /\ UNCHANGED <<users, links, mailed, ghosts>>

----------------------------------------------------------------------------
\* refresh and logout

FindSession(c) ==
  /\ pc[c] = "find" /\ Op(c) = "refresh"
  /\ IF Active(call[c].token) /\ ~sessions[call[c].token].expired
       THEN Continue(c, "rotate")
       ELSE Refuse(c)

\* Mutant: the update is not guarded by revokedAt.
RevokeAgain(c) ==
  /\ pc[c] = "rotate"
  /\ ~SessionLocked(call[c].token)
  /\ Continue(c, "insert")

\* Mutant: one that lost the race waits for the winner's transaction only.
RevokeOrWait(c) ==
  /\ pc[c] = "rotate"
  /\ ~SessionLocked(call[c].token)
  /\ Active(call[c].token)
  /\ Continue(c, "insert")

\* rotateRefreshToken, first statement: it waits for the row, and gives up
\* when the token has been revoked.
Revoke(c) ==
  /\ pc[c] = "rotate"
  /\ ~SessionLocked(call[c].token)
  /\ IF Active(call[c].token) THEN Continue(c, "insert") ELSE Refuse(c)

\* Second statement and commit.
Insert(c) ==
  /\ pc[c] = "insert"
  /\ LET t == call[c].token
         row == sessions[t]
     IN sessions' = [sessions EXCEPT
          ![t].end = "rotated",
          ![c] = Session(row.user, t, row.resets, row.late \/ Resetting(row.user))]
  /\ Answer(c)
  /\ UNCHANGED <<users, links, mailed, ghosts>>

FindForLogout(c) ==
  /\ pc[c] = "find" /\ Op(c) = "logout"
  /\ Continue(c, "revoke")

\* Mutant: the guard is missing, a rotated token is revoked again.
LogOutAgain(c) ==
  /\ pc[c] = "revoke"
  /\ ~SessionLocked(call[c].token)
  /\ sessions' = [sessions EXCEPT ![call[c].token].end = "logout"]
  /\ Answer(c)
  /\ UNCHANGED <<users, links, mailed, ghosts>>

LogOut(c) ==
  /\ pc[c] = "revoke"
  /\ ~SessionLocked(call[c].token)
  /\ sessions' = IF Active(call[c].token)
                   THEN [sessions EXCEPT ![call[c].token].end = "logout"]
                   ELSE sessions
  /\ Answer(c)
  /\ UNCHANGED <<users, links, mailed, ghosts>>

----------------------------------------------------------------------------
\* updateCurrentUser

FindUser(c) ==
  /\ pc[c] = "find" /\ Op(c) = "update"
  /\ Read(c, call[c].user, "taken")

FindOther(c) ==
  /\ pc[c] = "taken"
  /\ IF WithEmail(call[c].email) \subseteq {call[c].user}
       THEN Continue(c, "update")
       ELSE Refuse(c)

\* Mutant: the marker is not cleared.
KeptMarker(c) == users[call[c].user].verified

\* The marker is cleared if the new address differs from the one that was read.
Marker(c) ==
  IF call[c].email # seen[c].email THEN None ELSE users[call[c].user].verified

\* What was e-mailed, or read, under the address that changes.
Outdated(u) ==
  {c \in Calls : \/ c \in Links /\ links[c].user = u /\ ~links[c].consumed
                 \/ seen[c] # None /\ seen[c].user = u}

UpdateUser(c) ==
  LET u == call[c].user
      changes == users[u].email # call[c].email
  IN /\ pc[c] = "update"
     /\ ~Resetting(u)
     /\ WithEmail(call[c].email) \subseteq {u}
     /\ users' = [users EXCEPT ![u].email = call[c].email,
                               ![u].verified = Marker(c)]
     /\ moved' = IF changes
                   THEN moved \cup Outdated(u)
                        \cup (IF seen[c].email # users[u].email
                                THEN {users[u].verified} \ {None} ELSE {})
                   ELSE moved
     /\ Answer(c)
     /\ UNCHANGED <<sessions, links, mailed, overlap, uses>>

----------------------------------------------------------------------------
\* resendVerification and requestPasswordReset

Purpose(c) ==
  IF Op(c) \in {"resend", "verify"} THEN "EMAIL_VERIFICATION" ELSE "PASSWORD_RESET"

\* Nobody, or nothing to verify: the same answer.
FindAddressee(c) ==
  /\ pc[c] = "find" /\ Op(c) \in {"resend", "forgot"}
  /\ LET wanted == {u \in WithEmail(call[c].email) :
                      Op(c) = "resend" => users[u].verified = None}
     IN \/ \E u \in wanted : Read(c, u, "delete")
        \/ wanted = {} /\ Answer(c) /\ UNCHANGED <<tables, mailed, ghosts>>

Present(u, purpose) ==
  {l \in Links : links[l].user = u /\ links[l].purpose = purpose}

\* createAuthToken deletes the previous link ...
DeleteLinks(c) ==
  /\ pc[c] = "delete"
  /\ held' = [held EXCEPT ![c] = Present(seen[c].user, Purpose(c))]
  /\ Goto(c, "mint")
  /\ UNCHANGED <<tables, mailed, call, seen, ghosts>>

Minting(c) ==
  /\ pc[c] = "mint"
  /\ \A d \in Calls : pc[d] = "commit" => call[d].token \notin held[c]

\* ... and creates the next ...
Mint(c) ==
  /\ Minting(c)
  /\ Present(seen[c].user, Purpose(c)) \subseteq held[c]
  /\ links' = [l \in Calls |->
                 IF l = c THEN Link(seen[c].user, Purpose(c))
                 ELSE IF l \in held[c] THEN None ELSE links[l]]
  /\ Goto(c, "mail")
  /\ UNCHANGED <<users, sessions, mailed, call, seen, held, ghosts>>

\* ... unless another one has appeared: (userId, purpose) is unique.
MintTwice(c) ==
  /\ Minting(c)
  /\ ~Present(seen[c].user, Purpose(c)) \subseteq held[c]
  /\ Fail(c)

----------------------------------------------------------------------------
\* verifyEmailAddress and resetUserPassword

FindLink(c) ==
  /\ pc[c] = "find" /\ Op(c) \in {"verify", "reset"}
  /\ LET l == call[c].token IN
     IF /\ l \in Links
        /\ links[l].purpose = Purpose(c)
        /\ ~links[l].consumed /\ ~links[l].expired
       THEN Read(c, links[l].user, IF Op(c) = "verify" THEN "consume" ELSE "claim")
       ELSE Refuse(c)

\* Mutant: the link that was found is taken to be still unused.
UsableAsFound(l) == l \in Calls

\* updateMany where id and consumedAt null, once the row is free.
Usable(l) == l \in Links /\ ~links[l].consumed

ConsumeVerification(c) ==
  LET l == call[c].token  u == seen[c].user IN
  /\ pc[c] = "consume"
  /\ ~LinkLocked(l) /\ ~Resetting(u)
  /\ IF Usable(l)
       THEN /\ links' = [links EXCEPT ![l] = [Link(u, "EMAIL_VERIFICATION")
                                              EXCEPT !.consumed = TRUE]]
            /\ users' = [users EXCEPT ![u].verified = l]
            /\ uses' = [uses EXCEPT ![l] = @ + 1]
            /\ Answer(c)
            /\ UNCHANGED <<sessions, mailed, overlap, moved>>
       ELSE Refuse(c)

\* Mutant: only the session that was first issued.
FirstSession(u) == {s \in Sessions : s = u /\ Active(s)}

\* The rows that the last statement of a reset finds.
SessionsOf(u) == {s \in Sessions : Active(s) /\ sessions[s].user = u}

\* The transaction of a reset: it consumes the link, sets the password, and
\* goes through the sessions that it finds ...
Claim(c) ==
  LET l == call[c].token  u == seen[c].user IN
  /\ pc[c] = "claim"
  /\ ~LinkLocked(l) /\ ~Resetting(u)
  /\ IF Usable(l)
       THEN /\ held' = [held EXCEPT ![c] = SessionsOf(u)]
            /\ Goto(c, "commit")
            /\ UNCHANGED <<tables, mailed, call, seen, ghosts>>
       ELSE Refuse(c)

\* ... waiting for those that a rotation has locked.
CommitReset(c) ==
  LET l == call[c].token  u == seen[c].user IN
  /\ pc[c] = "commit"
  /\ \A s \in held[c] : ~SessionLocked(s)
  /\ links' = [links EXCEPT ![l] = [Link(u, "PASSWORD_RESET")
                                    EXCEPT !.consumed = TRUE]]
  /\ users' = [users EXCEPT ![u].password = call[c].password,
                            ![u].resets = @ + 1]
  /\ sessions' = [s \in Calls |->
                    IF s \in held[c] /\ Active(s)
                      THEN [sessions[s] EXCEPT !.end = "reset"]
                      ELSE sessions[s]]
  /\ overlap' = [d \in Calls |->
                   \/ overlap[d]
                   \/ pc[d] = "issue" /\ seen[d].user = u]
  /\ uses' = [uses EXCEPT ![l] = @ + 1]
  /\ Answer(c)
  /\ UNCHANGED <<mailed, moved>>

----------------------------------------------------------------------------
\* The database, the network or the process fails; an open transaction is
\* rolled back.
Error(c) == pc[c] \in Stages \ {"idle"} /\ Fail(c)

Expiries ==
  Cardinality({s \in Sessions : sessions[s].expired})
  + Cardinality({l \in Links : links[l].expired})

ExpireSession(s) ==
  /\ s \in Sessions /\ Expiries < MaxExpiries
  /\ ~sessions[s].expired
  /\ sessions' = [sessions EXCEPT ![s].expired = TRUE]
  /\ UNCHANGED <<users, links, mailed, handler, ghosts>>

ExpireLink(l) ==
  /\ l \in Links /\ Expiries < MaxExpiries
  /\ ~links[l].expired
  /\ links' = [links EXCEPT ![l].expired = TRUE]
  /\ UNCHANGED <<users, sessions, mailed, handler, ghosts>>

----------------------------------------------------------------------------
Find(c) ==
  \/ FindNobody(c) \/ Login(c) \/ FindSession(c) \/ FindForLogout(c)
  \/ FindUser(c) \/ FindOther(c) \/ FindAddressee(c) \/ FindLink(c)
Write(c) ==
  \/ Create(c) \/ Taken(c) \/ Issue(c) \/ Revoke(c) \/ Insert(c) \/ LogOut(c)
  \/ UpdateUser(c) \/ DeleteLinks(c) \/ Mint(c) \/ MintTwice(c)
  \/ ConsumeVerification(c) \/ Claim(c) \/ CommitReset(c)
Handle(c) == Authenticate(c) \/ Find(c) \/ Write(c) \/ Mail(c)

Next ==
  \/ \E c \in Calls : Arrive(c) \/ Handle(c) \/ Error(c)
  \/ \E r \in Calls : ExpireSession(r) \/ ExpireLink(r)

Spec == Init /\ [][Next]_vars

----------------------------------------------------------------------------
(* Properties *)

TypeOK ==
  /\ users \in [Calls -> UserRows \cup {None}]
  /\ sessions \in [Calls -> SessionRows \cup {None}]
  /\ links \in [Calls -> LinkRows \cup {None}]
  /\ mailed \in [Calls -> Emails \cup {None}]
  /\ call \in [Calls -> Requests \cup {[op |-> "none"]}]
  /\ pc \in [Calls -> Stages \cup Ends]
  /\ seen \in [Calls -> Sights \cup {None}]
  /\ held \in [Calls -> SUBSET Calls]
  /\ overlap \in [Calls -> BOOLEAN]
  /\ uses \in [Calls -> Nat]
  /\ moved \subseteq Calls

\* rotateRefreshToken: a refresh token is replaced at most once, by the call
\* that ended it, and never after a logout or a reset -- whichever rotations,
\* logouts and resets of it run at once, fail, or lose their answers.
SessionsEndOnce ==
  \A s \in Sessions :
    sessions[s].parent # None =>
      /\ sessions[sessions[s].parent].end = "rotated"
      /\ \A t \in Sessions : sessions[t].parent = sessions[s].parent => t = s

\* consumePasswordResetTokenAndUpdatePassword revokes the sessions it sees: one
\* that is still active was issued for the present password -- or it is late:
\* it, or the one it goes back to, was inserted by a rotation or a login that
\* overlapped with the reset, where neither transaction sees the other.
ResetEndsSessions ==
  \A s \in Sessions :
    Active(s) =>
      sessions[s].resets = users[sessions[s].user].resets \/ sessions[s].late

\* The same without the exception: "all existing sessions end with the password
\* change".
EverySessionEnds ==
  \A s \in Sessions :
    Active(s) => sessions[s].resets = users[sessions[s].user].resets

\* authToken.consumedAt: a link works once, although its row is deleted and
\* created again by other calls, and although it is read long before.
LinksWorkOnce == \A l \in Calls : uses[l] <= 1

\* updateCurrentUser: an address that is marked as verified is the one that
\* the link was mailed to -- unless the address changed while that link was
\* outstanding, or two updates overlapped: neither is looked at again.
VerifiedAddress ==
  \A u \in Users :
    LET l == users[u].verified IN
    l # None => mailed[l] = users[u].email \/ l \in moved

\* Row locks are taken in one order, of a session or a link before the user's:
\* handlers wait for each other, but some handler can always go on, and as
\* none of them loops each of them ends.
SomeoneGoesOn ==
  (\E c \in Calls : pc[c] \in Stages \ {"idle"}) =>
    ENABLED (\E c \in Calls : Handle(c))

\* The inductive invariant: what a call is about to create does not exist yet,
\* row locks are exclusive, and what an open transaction has found is still so.
RowsAreNew ==
  \A c \in Calls :
    /\ pc[c] \in {"idle", "auth", "find", "create"} => users[c] = None
    /\ pc[c] \in {"idle", "auth", "find", "create", "issue", "rotate", "insert"}
         => sessions[c] = None
    /\ pc[c] \in {"idle", "auth", "find", "create", "delete", "mint"}
         => links[c] = None /\ uses[c] = 0

RowsRefer ==
  /\ \A s \in Sessions : /\ sessions[s].user \in Users
                         /\ sessions[s].parent \in Sessions \cup {None}
  /\ \A l \in Links : links[l].user \in Users
  /\ \A c \in Calls :
       /\ seen[c] # None => seen[c].user \in Users
       /\ Op(c) = "update" => call[c].user \in Users
       /\ pc[c] \in {"issue", "taken", "update", "delete", "mint", "mail",
                     "consume", "claim", "commit"} => seen[c] # None

StagesFit ==
  \A c \in Calls :
    /\ pc[c] = "create" => Op(c) = "register"
    /\ pc[c] = "revoke" => Op(c) = "logout"
    /\ pc[c] \in {"taken", "update"} => Op(c) = "update"

RotationHoldsToken ==
  \A c \in Calls :
    /\ pc[c] \in {"rotate", "insert"} => Op(c) = "refresh"
    /\ pc[c] = "insert" =>
         /\ Active(call[c].token)
         /\ \A d \in Calls :
              pc[d] = "insert" /\ call[d].token = call[c].token => d = c

ResetHoldsLink ==
  \A c \in Calls :
    /\ pc[c] \in {"claim", "commit"} => Op(c) = "reset"
    /\ pc[c] = "commit" =>
         /\ Usable(call[c].token)
         /\ \A d \in Calls :
              pc[d] = "commit" /\ (\/ call[d].token = call[c].token
                                   \/ seen[d].user = seen[c].user) => d = c
         /\ \A s \in SessionsOf(seen[c].user) : s \in held[c] \/ sessions[s].late

LoginKnowsPassword ==
  \A c \in Calls :
    pc[c] = "issue" =>
      overlap[c] \/ seen[c].resets = users[seen[c].user].resets

UnusedLinks == \A l \in Calls : Usable(l) => uses[l] = 0

IInv ==
  /\ TypeOK /\ RowsAreNew /\ RowsRefer /\ StagesFit
  /\ RotationHoldsToken /\ SessionsEndOnce
  /\ ResetHoldsLink /\ UnusedLinks /\ LinksWorkOnce
  /\ LoginKnowsPassword /\ ResetEndsSessions
=============================================================================
