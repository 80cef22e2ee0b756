----------------------------- MODULE GroupReads -----------------------------
(***************************************************************************)
(* What members read of a group                                            *)
(*   modules/groups/group.{service,cache,repository}.ts: the details of a  *)
(*     group, served from Redis when they are there (cache-aside)          *)
(*   findSettlementsByGroupId, findExpensesByGroupId and                   *)
(*     findActivityByGroupId: its records, in pages                        *)
(* while the group is renamed and deleted, members come and go, users      *)
(* change their profiles and records are added and removed.                *)
(*                                                                         *)
(* Every query, transaction and Redis command is a step.  What a write     *)
(* sets is named by the call that made it.  A record is a settlement, an   *)
(* expense or an activity event; only expenses are ever removed.           *)
(***************************************************************************)
EXTENDS Integers, FiniteSets, Sequences, SequencesExt

CONSTANTS
  Calls, Users, Owner,
  Requests,   \* what a call may ask for
  Records,    \* ids of records
  MaxFaults,  \* bound: errors and crashes
  None

Readers == {"get", "list", "one"}
Ends == {"done", "refused", "failed", "answered"}
Stages ==
  {"cache", "hit", "row", "members", "miss", "fill", "record", "member",
   "group", "page", "shown", "exists", "membership", "write", "invalidate"} \cup Ends

Groups == [name : Calls \cup {None}, members : SUBSET Users]
Details ==
  [name : Calls \cup {None},
   members : UNION {[m -> Calls \cup {None}] : m \in SUBSET Users}]

ASSUME ReadsAssumption ==
  /\ Owner \in Users
  /\ MaxFaults \in Nat
  /\ None \notin Calls \cup Groups \cup Details \cup Nat \cup Seq(Records)
  /\ \A r \in Requests :
       /\ r.op \in Readers \cup {"rename", "delete", "add", "remove", "profile"}
       /\ r.user \in Users
       /\ r.op \in {"add", "remove"} => r.member \in Users
       /\ r.op = "list" => r.limit \in (Nat \ {0}) \cup {None}

VARIABLES
  group,     \* database: None once deleted, or [name, members]
  profile,   \* database: the call that last changed a user's name or e-mail
  records,   \* database: the group's records, newest first
  erased,    \* records that were removed
  cache,     \* Redis: None, or the details under cache:group:{id}
  request,   \* what each call asks for
  pc,        \* how far its handler is
  read,      \* the details it has read
  walk,      \* of a client that reads a list: [page, items, total, got]
  faults,    \* how many are left
  doubt,     \* ghost: why the cached details may be out of date
  track      \* ghost: [member, since, torn, first] of a reader, see Watch

tables == <<group, profile, records, erased>>
redis == <<cache, doubt>>
vars == <<tables, redis, request, pc, read, walk, faults, track>>

Op(c) == request[c].op
Members == IF group = None THEN {} ELSE group.members
NoMembers == [u \in {} |-> None]

\* findGroupByIdWithMembers as one query would see it.
Detail ==
  IF group = None THEN None
  ELSE [name |-> group.name, members |-> [u \in group.members |-> profile[u]]]

Start(op) ==
  CASE op = "get"     -> "cache"
    [] op = "one"     -> "record"
    [] op = "profile" -> "write"
    [] OTHER          -> "group"

NoWalk == [page |-> 1, items |-> None, total |-> None, got |-> <<>>]
Unwatched == [member |-> FALSE, since |-> {}, torn |-> FALSE, first |-> {}]

Init ==
  /\ group \in [name : {None}, members : {m \in SUBSET Users : Owner \in m}]
  /\ profile = [u \in Users |-> None]
  /\ records = <<>>
  /\ erased \in SUBSET Records
  /\ cache = None
  /\ request \in [Calls -> Requests]
  /\ pc = [c \in Calls |-> Start(request[c].op)]
  /\ read = [c \in Calls |-> None]
  /\ walk = [c \in Calls |-> NoWalk]
  /\ faults \in 0 .. MaxFaults
  /\ doubt = {}
  /\ track = [c \in Calls |-> Unwatched]

-----------------------------------------------------------------------------
Goto(c, stage) == pc' = [pc EXCEPT ![c] = stage]
Fault == faults > 0 /\ faults' = faults - 1

\* A step of a handler that only reads.
Reads(c, stage) ==
  /\ Goto(c, stage)
  /\ UNCHANGED <<tables, redis, request, faults>>
Refuse(c) == Reads(c, "refused") /\ UNCHANGED <<read, walk>>

\* What is noted of readers: whether the user has been a member since the
\* request arrived, what has been committed since its first query, whether
\* records changed between a page and its total, and the records at first.
HalfRead(c) ==
  pc[c] = "page" /\ (walk[c].items = None) # (walk[c].total = None)

Watch(kind, present) ==
  track' = [c \in Calls |->
    IF Op(c) \notin Readers \/ pc[c] \in Ends THEN track[c]
    ELSE [track[c] EXCEPT !.member = @ \/ request[c].user \in present,
                          !.since = @ \cup {kind},
                          !.torn = @ \/ HalfRead(c)]]

Arrive(c) ==
  track' = [track EXCEPT ![c].member = request[c].user \in Members]

-----------------------------------------------------------------------------
(* GET /groups/{id} *)

\* getCachedGroupById; an error counts as a miss.
LookUp(c) ==
  /\ pc[c] = "cache"
  /\ Arrive(c)
  /\ UNCHANGED <<tables, redis, request, walk>>
  /\ \/ /\ cache # None
        /\ read' = [read EXCEPT ![c] = cache]
        /\ Goto(c, "hit")
        /\ UNCHANGED faults
     \/ /\ (cache = None /\ UNCHANGED faults) \/ Fault
        /\ Goto(c, "row")
        /\ UNCHANGED read

\* findGroupByIdWithMembers: the group, then its members with their users.
FindRow(c) ==
  /\ pc[c] = "row"
  /\ track' = [track EXCEPT ![c].since = {}]
  /\ IF group = None THEN Refuse(c)
     ELSE /\ read' = [read EXCEPT ![c] = [name |-> group.name, members |-> NoMembers]]
          /\ Reads(c, "members")
          /\ UNCHANGED walk

FindMembers(c) ==
  /\ pc[c] = "members"
  /\ read' = [read EXCEPT ![c].members = [u \in Members |-> profile[u]]]
  /\ Reads(c, "miss")
  /\ UNCHANGED <<walk, track>>

\* Mutant: the members are taken from the details that are there.
CachedMember(c) ==
  request[c].user \in IF read[c] = None THEN Members ELSE DOMAIN read[c].members

\* isGroupMember.
Member(c) == request[c].user \in Members

\* The membership check of every reader, always against the database.
Authorize(c) ==
  /\ pc[c] \in {"hit", "miss", "member"}
  /\ IF ~Member(c) THEN Refuse(c)
     ELSE /\ Reads(c, CASE pc[c] = "miss" -> "fill"
                        [] Op(c) = "list" -> "page"
                        [] OTHER          -> "answered")
          /\ UNCHANGED <<read, walk>>
  /\ UNCHANGED track

\* setCachedGroupById; whatever becomes of it, the details are returned.
Fill(c) ==
  /\ pc[c] = "fill"
  /\ Goto(c, "answered")
  /\ \/ /\ UNCHANGED faults \/ Fault
        /\ cache' = read[c]
        /\ doubt' = track[c].since \cap {"changed", "profile"}
     \/ Fault /\ UNCHANGED redis
  /\ UNCHANGED <<tables, request, read, walk, track>>

\* The entry expires after CACHE_GROUP_TTL_SECONDS.
Expire ==
  /\ cache # None
  /\ cache' = None
  /\ doubt' = {}
  /\ UNCHANGED <<tables, request, pc, read, walk, faults, track>>

-----------------------------------------------------------------------------
(* GET /groups/{id}/settlements, /expenses, /activity, and a record by id *)

\* findGroupById, the first query of lists and of all changes of a group;
\* changes are for the owner, who is never removed.
OwnerOnly == {"rename", "delete", "add", "remove"}

FindGroup(c) ==
  /\ pc[c] = "group"
  /\ IF Op(c) = "list"
     THEN Arrive(c)
     ELSE UNCHANGED track
  /\ IF \/ group = None
        \/ Op(c) \in OwnerOnly /\ request[c].user # Owner
        \/ Op(c) = "remove" /\ request[c].member = Owner
     THEN Refuse(c)
     ELSE /\ Reads(c, CASE Op(c) = "list"   -> "member"
                        [] Op(c) = "rename" -> "exists"
                        [] Op(c) = "delete" -> "write"
                        [] OTHER            -> "membership")
          /\ UNCHANGED <<read, walk>>

\* findSettlementById, findExpenseById.
FindRecord(c) ==
  /\ pc[c] = "record"
  /\ Arrive(c)
  /\ IF request[c].record \in Range(records)
     THEN Reads(c, "member") /\ UNCHANGED <<read, walk>>
     ELSE Refuse(c)

\* Mutant: pages are counted from zero.
SkipWholePages(c) == walk[c].page * request[c].limit

Skip(c) == (walk[c].page - 1) * request[c].limit

PageOf(c) ==
  IF request[c].limit = None THEN records
  ELSE SubSeq(records, Skip(c) + 1,
              IF Skip(c) + request[c].limit < Len(records)
              THEN Skip(c) + request[c].limit ELSE Len(records))

\* The first query of a walk: from here on it should miss nothing.
WatchRecords(c) ==
  IF walk[c].page = 1 /\ ~HalfRead(c)
  THEN track' = [track EXCEPT ![c].since = {}, ![c].first = Range(records)]
  ELSE UNCHANGED track

\* findMany with skip and take, and count, in any order; without pagination
\* there is nothing to count.
FindPage(c) ==
  /\ pc[c] = "page"
  /\ walk[c].items = None
  /\ walk' = [walk EXCEPT ![c].items = PageOf(c)]
  /\ WatchRecords(c)
  /\ Reads(c, IF walk[c].total = None /\ request[c].limit # None
              THEN "page" ELSE "shown")
  /\ UNCHANGED read

Count(c) ==
  /\ pc[c] = "page"
  /\ walk[c].total = None
  /\ request[c].limit # None
  /\ walk' = [walk EXCEPT ![c].total = Len(records)]
  /\ WatchRecords(c)
  /\ Reads(c, IF walk[c].items = None THEN "page" ELSE "shown")
  /\ UNCHANGED read

\* getGroupSettlements and getGroupExpenses of the app ask for pages until
\* one is not full, or they have as many records as there are.
TakePage(c) ==
  /\ pc[c] = "shown"
  /\ LET w == walk[c]
         got == w.got \o w.items
     IN IF \/ request[c].limit = None
           \/ Len(w.items) < request[c].limit
           \/ Len(got) >= w.total
        THEN /\ walk' = [walk EXCEPT ![c] = [NoWalk EXCEPT !.got = got]]
             /\ Reads(c, "answered")
        ELSE /\ walk' = [walk EXCEPT ![c] =
                           [NoWalk EXCEPT !.page = w.page + 1, !.got = got]]
             /\ Reads(c, "group")
  /\ UNCHANGED <<read, track>>

-----------------------------------------------------------------------------
(* PUT and DELETE /groups/{id}, its members, and PATCH /auth/me *)

\* updateGroup looks for the row again before its transaction.
CheckExists(c) ==
  /\ pc[c] = "exists"
  /\ UNCHANGED track
  /\ IF group = None THEN Refuse(c)
     ELSE Reads(c, "write") /\ UNCHANGED <<read, walk>>

\* isGroupMember, findGroupMember.
CheckMembership(c) ==
  /\ pc[c] = "membership"
  /\ UNCHANGED track
  /\ IF (Op(c) = "add") = (request[c].member \in Members) THEN Refuse(c)
     ELSE Reads(c, "write") /\ UNCHANGED <<read, walk>>

Rename(c) ==
  /\ Op(c) = "rename" /\ group # None
  /\ group' = [group EXCEPT !.name = c]
  /\ Watch("changed", Members)
  /\ UNCHANGED <<profile, records>>

DeleteGroup(c) ==
  /\ Op(c) = "delete" /\ group # None
  /\ group' = None
  /\ records' = <<>>
  /\ track' = [d \in Calls |->
       IF Op(d) \notin Readers \/ pc[d] \in Ends THEN track[d]
       ELSE [track[d] EXCEPT !.since = @ \cup {"changed", "erased"},
                             !.torn = @ \/ HalfRead(d)]]
  /\ UNCHANGED profile

AddMember(c) ==
  /\ Op(c) = "add" /\ group # None /\ request[c].member \notin Members
  /\ group' = [group EXCEPT !.members = @ \cup {request[c].member}]
  /\ Watch("changed", group'.members)
  /\ UNCHANGED <<profile, records>>

RemoveMember(c) ==
  /\ Op(c) = "remove" /\ request[c].member \in Members
  /\ group' = [group EXCEPT !.members = @ \ {request[c].member}]
  /\ Watch("changed", group'.members)
  /\ UNCHANGED <<profile, records>>

\* updateCurrentUser: name and e-mail address are part of every group's details.
UpdateProfile(c) ==
  /\ Op(c) = "profile"
  /\ profile' = [profile EXCEPT ![request[c].user] = c]
  /\ Watch("profile", Members)
  /\ UNCHANGED <<group, records>>

Commits(c) ==
  Rename(c) \/ DeleteGroup(c) \/ AddMember(c) \/ RemoveMember(c) \/ UpdateProfile(c)

\* Mutant: only members change what the cache holds.
InvalidateForMembers(c) == IF Op(c) \in {"add", "remove"} THEN "invalidate" ELSE "done"

\* What follows the commit.
AfterCommit(c) == IF Op(c) = "profile" THEN "done" ELSE "invalidate"

\* Why a cached entry may be out of date.
Doubt(why) == doubt' = IF cache = None THEN doubt ELSE doubt \cup {why}

\* The transaction, with its activity event.
Write(c) ==
  /\ pc[c] = "write"
  /\ Commits(c)
  /\ Goto(c, AfterCommit(c))
  /\ IF Op(c) = "profile" THEN Doubt("profile") ELSE UNCHANGED doubt
  /\ UNCHANGED <<erased, cache, request, read, walk, faults>>

\* The row is gone, or there already: Prisma throws.
CannotWrite(c) ==
  /\ pc[c] = "write"
  /\ \/ Op(c) # "profile" /\ group = None
     \/ Op(c) = "add" /\ request[c].member \in Members
     \/ Op(c) = "remove" /\ request[c].member \notin Members
  /\ Reads(c, "failed")
  /\ UNCHANGED <<read, walk, track>>

\* The commit succeeds, but the handler sees an error.
LoseCommit(c) ==
  /\ pc[c] = "write"
  /\ Fault
  /\ Commits(c)
  /\ Goto(c, "failed")
  /\ Doubt(IF Op(c) = "profile" THEN "profile" ELSE "failed")
  /\ UNCHANGED <<erased, cache, request, read, walk>>

\* invalidateGroupCache, which swallows its errors.
Invalidate(c) ==
  /\ pc[c] = "invalidate"
  /\ Goto(c, "done")
  /\ \/ /\ UNCHANGED faults \/ Fault
        /\ cache' = None
        /\ doubt' = {}
     \/ Fault /\ Doubt("failed") /\ UNCHANGED cache
  /\ UNCHANGED <<tables, request, read, walk, track>>

\* A database error, or the process dies.
Abort(c) ==
  /\ pc[c] \notin Ends
  /\ Fault
  /\ Goto(c, "failed")
  /\ IF pc[c] = "invalidate" THEN Doubt("failed") ELSE UNCHANGED doubt
  /\ UNCHANGED <<tables, cache, request, read, walk, track>>

-----------------------------------------------------------------------------
(* Records *)

\* A record is committed.  Its timestamp was taken before that, on the clock
\* of its own process, so that others may be newer already.
Record(r) ==
  /\ group # None
  /\ r \notin Range(records) \cup erased
  /\ \E i \in 1 .. Len(records) + 1 : records' = InsertAt(records, i, r)
  /\ Watch("added", Members)
  /\ UNCHANGED <<group, profile, erased, redis, request, pc, read, walk, faults>>

\* An expense is deleted.
Erase(r) ==
  /\ \E i \in DOMAIN records : records[i] = r /\ records' = RemoveAt(records, i)
  /\ erased' = erased \cup {r}
  /\ Watch("erased", Members)
  /\ UNCHANGED <<group, profile, redis, request, pc, read, walk, faults>>

-----------------------------------------------------------------------------
Query(c) ==
  \/ LookUp(c) \/ FindRow(c) \/ FindMembers(c) \/ Authorize(c)
  \/ FindGroup(c) \/ FindRecord(c) \/ FindPage(c) \/ Count(c) \/ TakePage(c)
  \/ CheckExists(c) \/ CheckMembership(c)

Change(c) == Write(c) \/ CannotWrite(c) \/ LoseCommit(c)

Next ==
  \/ \E c \in Calls : Query(c) \/ Fill(c) \/ Change(c) \/ Invalidate(c) \/ Abort(c)
  \/ \E r \in Records : Record(r) \/ Erase(r)
  \/ Expire

Spec == Init /\ [][Next]_vars

-----------------------------------------------------------------------------
(* Properties *)

Kinds == {"changed", "profile", "added", "erased"}
Tracks ==
  [member : BOOLEAN, since : SUBSET Kinds, torn : BOOLEAN, first : SUBSET Records]
TypeOK ==
  /\ group \in Groups \cup {None}
  /\ profile \in [Users -> Calls \cup {None}]
  /\ records \in Seq(Records)
  /\ erased \subseteq Records
  /\ cache \in Details \cup {None}
  /\ request \in [Calls -> Requests]
  /\ pc \in [Calls -> Stages]
  /\ read \in [Calls -> Details \cup {None}]
  /\ doubt \subseteq {"changed", "profile", "failed"}
  /\ track \in [Calls -> Tracks]

\* "Every affected write invalidates its entries" (README.md:684): cached
\* details that are no longer those of the database were filled in by a
\* reader whose queries overlapped a write, or an invalidation has failed, or
\* is about to run, or a member's profile was changed.
CacheTellsTheGroup ==
  cache # None =>
    \/ cache = Detail
    \/ doubt # {}
    \/ \E c \in Calls : pc[c] = "invalidate"

\* "A cache hit can never bypass authorization" (README.md:765): data is only
\* returned to someone who was a member at some time during the request.
ServedToMembers ==
  \A c \in Calls :
    Op(c) \in Readers /\ pc[c] \in {"shown", "answered"} => track[c].member

\* Which request can be where.
StageFits(c) ==
  /\ pc[c] \in {"cache", "hit", "row", "members", "miss", "fill"} => Op(c) = "get"
  /\ pc[c] \in {"page", "shown"} => Op(c) = "list"
  /\ pc[c] \in {"record", "member"} => Op(c) \in {"list", "one"}

\* What a reader has found is what there is, unless something was committed
\* since its first query.
FoundIsCurrent(c) ==
  /\ pc[c] \in {"members", "miss", "fill"} => read[c] # None
  /\ (pc[c] = "members" /\ "changed" \notin track[c].since) =>
       /\ group # None
       /\ read[c] = [name |-> group.name, members |-> NoMembers]
  /\ (pc[c] \in {"miss", "fill"} /\ track[c].since \cap {"changed", "profile"} = {}) =>
       read[c] = Detail

\* Whoever may pass the membership check has been noted as a member, and
\* whoever has passed it.
MemberIsNoted(c) ==
  /\ (pc[c] \in {"hit", "row", "members", "miss", "member"}
        /\ request[c].user \in Members) => track[c].member
  /\ (pc[c] \in {"fill", "page", "shown", "answered"} /\ Op(c) \in Readers) =>
       track[c].member

CallInv(c) == StageFits(c) /\ FoundIsCurrent(c) /\ MemberIsNoted(c)

\* The inductive invariant.
IInv == TypeOK /\ CacheTellsTheGroup /\ \A c \in Calls : CallInv(c)

\* What an answered walk has read.
MissesNothing(c) ==
  /\ ("erased" \in track[c].since \/ track[c].torn
        \/ track[c].first \subseteq Range(walk[c].got))
  /\ (track[c].since \cap {"added", "erased"} = {} =>
        /\ Range(walk[c].got) = track[c].first
        /\ Len(walk[c].got) = Cardinality(track[c].first))

\* A client that reads a list page by page misses no record that was there
\* when it began, unless records were removed meanwhile, or one was added
\* between a page and its total; and reads each once when nothing changed.
WalksAreComplete ==
  \A c \in Calls : Op(c) = "list" /\ pc[c] = "answered" => MissesNothing(c)
=============================================================================
