-------------------------- MODULE GroupReadsProofs --------------------------
(***************************************************************************)
(* Proofs about GroupReads, for any calls, users and records: the          *)
(* inductive invariant, and what it says of the cache and of the readers;  *)
(* and the invariant of clients that read lists page by page.              *)
(*                                                                         *)
(* Most steps concern one call and leave the database alone (OneCall).  A  *)
(* commit changes what the others have read; Watch makes a note of it.     *)
(***************************************************************************)
EXTENDS GroupReads, SequenceTheorems, FiniteSetTheorems, TLAPS

----------------------------------------------------------------------------
(* What is read and cached *)

LEMMA MembersInDetails ==
  ASSUME NEW m \in SUBSET Users, NEW f \in [m -> Calls \cup {None}],
         NEW n \in Calls \cup {None}
  PROVE  [name |-> n, members |-> f] \in Details
<1>1. f \in UNION {[s -> Calls \cup {None}] : s \in SUBSET Users}
  OBVIOUS
<1> QED BY <1>1 DEF Details

LEMMA NothingIsNoDetail == None \notin Groups /\ None \notin Details
BY ReadsAssumption

LEMMA DetailType ==
  ASSUME TypeOK
  PROVE  /\ group = None => Detail = None /\ Members = {}
         /\ group # None =>
              /\ group \in Groups
              /\ Members = group.members /\ Members \in SUBSET Users
              /\ Detail = [name |-> group.name,
                           members |-> [u \in Members |-> profile[u]]]
              /\ Detail \in Details
<1>1. CASE group = None
  BY <1>1 DEF Detail, Members
<1>2. CASE group # None
  <2>1. group \in Groups /\ Members = group.members
    BY <1>2 DEF TypeOK, Members
  <2>2. Members \in SUBSET Users /\ group.name \in Calls \cup {None}
    BY <2>1 DEF Groups
  <2>3. [u \in Members |-> profile[u]] \in [Members -> Calls \cup {None}]
    BY <2>2 DEF TypeOK
  <2>4. Detail = [name |-> group.name, members |-> [u \in Members |-> profile[u]]]
    BY <1>2, <2>1 DEF Detail
  <2> QED BY <1>2, <2>1, <2>2, <2>3, <2>4, MembersInDetails
<1> QED BY <1>1, <1>2

LEMMA NoMembersType ==
  ASSUME NEW n \in Calls \cup {None}
  PROVE  [name |-> n, members |-> NoMembers] \in Details
<1>1. NoMembers \in [{} -> Calls \cup {None}]
  BY DEF NoMembers
<1> QED BY <1>1, MembersInDetails

----------------------------------------------------------------------------
(* Steps of one call that leave the database alone *)

OneCall(c) ==
  /\ UNCHANGED <<group, profile, request>>
  /\ \A d \in Calls :
       d # c => pc'[d] = pc[d] /\ read'[d] = read[d] /\ track'[d] = track[d]

LEMMA DetailKept ==
  ASSUME UNCHANGED <<group, profile>>
  PROVE  Detail' = Detail /\ Members' = Members
BY DEF Detail, Members

LEMMA OthersKept ==
  ASSUME NEW c \in Calls, OneCall(c), NEW d \in Calls, d # c, CallInv(d)
  PROVE  CallInv(d)'
<1>1. Detail' = Detail /\ Members' = Members /\ Op(d)' = Op(d)
  BY DetailKept DEF OneCall, Op
<1>2. pc'[d] = pc[d] /\ read'[d] = read[d] /\ track'[d] = track[d]
      /\ request' = request /\ group' = group
  BY DEF OneCall
<1> QED BY <1>1, <1>2 DEF CallInv, StageFits, FoundIsCurrent, MemberIsNoted

LEMMA OneCallKeepsIInv ==
  ASSUME IInv, NEW c \in Calls, OneCall(c),
         TypeOK', CallInv(c)', CacheTellsTheGroup'
  PROVE  IInv'
<1>1. \A d \in Calls : CallInv(d)'
  BY OthersKept DEF IInv
<1> QED BY <1>1 DEF IInv

LEMMA CacheKept ==
  ASSUME CacheTellsTheGroup, NEW c \in Calls, OneCall(c), UNCHANGED redis,
         pc[c] # "invalidate"
  PROVE  CacheTellsTheGroup'
BY DetailKept DEF OneCall, redis, CacheTellsTheGroup
----------------------------------------------------------------------------
(* Queries *)

LEMMA TypesOfOne ==
  ASSUME TypeOK, NEW c \in Calls
  PROVE  /\ pc[c] \in Stages /\ read[c] \in Details \cup {None}
         /\ track[c] \in Tracks
         /\ request[c] \in Requests
BY DEF TypeOK

\* A step that only moves c on, or ends its handler.
LEMMA MovesKeepTypes ==
  ASSUME TypeOK, NEW c \in Calls, NEW stage \in Stages, Goto(c, stage),
         UNCHANGED <<tables, redis, request, read, track>>
  PROVE  TypeOK'
BY DEF TypeOK, Goto, tables, redis

LEMMA MovesAreOneCall ==
  ASSUME NEW c \in Calls, NEW stage, Goto(c, stage), TypeOK,
         UNCHANGED <<group, profile, request>>,
         UNCHANGED read \/ \E x : read' = [read EXCEPT ![c] = x],
         UNCHANGED track \/ \E x : track' = [track EXCEPT ![c] = x]
  PROVE  /\ OneCall(c) /\ pc'[c] = stage
         /\ read' = read => read'[c] = read[c]
         /\ track' = track => track'[c] = track[c]
BY DEF OneCall, Goto, TypeOK

LEMMA MoveKeepsIInv ==
  ASSUME IInv, NEW c \in Calls, NEW stage \in Stages, Goto(c, stage),
         UNCHANGED <<tables, redis, request, read, track>>,
         pc[c] # "invalidate", StageFits(c)', FoundIsCurrent(c)', MemberIsNoted(c)'
  PROVE  IInv'
<1>1. TypeOK /\ CacheTellsTheGroup /\ CallInv(c)
  BY DEF IInv
<1>2. OneCall(c)
  BY <1>1, MovesAreOneCall DEF tables
<1>3. TypeOK'
  BY <1>1, MovesKeepTypes
<1>4. CacheTellsTheGroup'
  BY <1>1, <1>2, CacheKept
<1> QED BY <1>2, <1>3, <1>4, OneCallKeepsIInv DEF CallInv

LEMMA EndKeepsIInv ==
  ASSUME IInv, NEW c \in Calls, NEW stage \in {"refused", "failed", "done"},
         Goto(c, stage), UNCHANGED <<tables, redis, request, read, track>>,
         pc[c] # "invalidate"
  PROVE  IInv'
<1>1. pc'[c] = stage
  BY MovesAreOneCall DEF IInv, tables
<1>2. StageFits(c)' /\ FoundIsCurrent(c)' /\ MemberIsNoted(c)'
  BY <1>1 DEF StageFits, FoundIsCurrent, MemberIsNoted
<1>3. stage \in Stages
  BY DEF Stages, Ends
<1> QED BY <1>2, <1>3, MoveKeepsIInv

LEMMA AuthorizeKeepsIInv ==
  ASSUME IInv, NEW c \in Calls, Authorize(c)
  PROVE  IInv'
<1>1. CASE ~Member(c)
  BY <1>1, EndKeepsIInv DEF Authorize, Refuse, Reads
<1>2. CASE Member(c)
  <2> DEFINE stage == CASE pc[c] = "miss" -> "fill"
                        [] Op(c) = "list" -> "page"
                        [] OTHER          -> "answered"
  <2>1. /\ pc[c] \in {"hit", "miss", "member"} /\ Goto(c, stage)
        /\ UNCHANGED <<tables, redis, request, read, track>>
    BY <1>2 DEF Authorize, Reads
  <2>2. stage \in {"fill", "page", "answered"} /\ stage \in Stages
    BY DEF Stages, Ends
  <2>3. /\ stage = "fill" => pc[c] = "miss"
        /\ stage = "page" => Op(c) = "list"
    OBVIOUS
  <2>4. pc'[c] = stage /\ read'[c] = read[c] /\ track'[c] = track[c] /\ OneCall(c)
    BY <2>1, MovesAreOneCall DEF IInv, tables
  <2> HIDE DEF stage
  <2>5. CallInv(c) /\ Op(c)' = Op(c) /\ Detail' = Detail /\ Members' = Members
    BY <2>1, DetailKept DEF IInv, Op, tables
  <2>6. StageFits(c)'
    BY <2>2, <2>3, <2>4, <2>5, <2>1 DEF CallInv, StageFits
  <2>7. FoundIsCurrent(c)'
    BY <2>2, <2>3, <2>4, <2>5 DEF CallInv, FoundIsCurrent
  <2>8. MemberIsNoted(c)'
    BY <1>2, <2>1, <2>2, <2>4, <2>5 DEF CallInv, MemberIsNoted, Member
  <2> QED BY <2>1, <2>2, <2>6, <2>7, <2>8, MoveKeepsIInv
<1> QED BY <1>1, <1>2

\* A request arrives: whether its user is a member is noted.
LEMMA ArriveTypes ==
  ASSUME TypeOK, NEW c \in Calls, Arrive(c)
  PROVE  /\ track' \in [Calls -> Tracks]
         /\ track'[c].member = (request[c].user \in Members)
         /\ track'[c].since = track[c].since
         /\ \A d \in Calls : d # c => track'[d] = track[d]
<1> DEFINE noted == request[c].user \in Members
           row == [track[c] EXCEPT !.member = noted]
<1>0. noted \in BOOLEAN
  OBVIOUS
<1> HIDE DEF noted
<1>1. row \in Tracks
  BY <1>0, TypesOfOne DEF Tracks
<1>2. row.member = noted /\ row.since = track[c].since
  BY TypesOfOne DEF Tracks
<1>3. track' = [track EXCEPT ![c] = row]
  BY DEF Arrive, noted
<1> HIDE DEF row
<1> QED BY <1>1, <1>2, <1>3 DEF TypeOK, noted

LEMMA LookUpKeepsIInv ==
  ASSUME IInv, NEW c \in Calls, LookUp(c)
  PROVE  IInv'
<1>0. TypeOK /\ CacheTellsTheGroup /\ CallInv(c)
  BY DEF IInv
<1>1. PICK stage \in {"hit", "row"} :
        /\ Goto(c, stage)
        /\ \/ read' = [read EXCEPT ![c] = cache] /\ cache # None
           \/ read' = read
  BY DEF LookUp
<1>2. /\ pc[c] = "cache" /\ Arrive(c)
      /\ UNCHANGED <<tables, redis, request>>
  BY DEF LookUp
<1>3. stage \in Stages
  BY DEF Stages
<1>4. OneCall(c) /\ pc'[c] = stage
  <2>1. \A d \in Calls : d # c => read'[d] = read[d] /\ pc'[d] = pc[d]
    BY <1>0, <1>1 DEF Goto, TypeOK
  <2>2. pc'[c] = stage
    BY <1>0, <1>1 DEF Goto, TypeOK
  <2> QED BY <2>1, <2>2, <1>0, <1>2, ArriveTypes DEF OneCall, tables
<1>5. TypeOK'
  <2>1. read' \in [Calls -> Details \cup {None}]
    BY <1>0, <1>1 DEF TypeOK
  <2>2. pc' \in [Calls -> Stages]
    BY <1>0, <1>1, <1>3 DEF TypeOK, Goto
  <2> QED BY <2>1, <2>2, <1>0, <1>2, ArriveTypes DEF TypeOK, tables, redis
<1>6. CacheTellsTheGroup'
  BY <1>0, <1>2, <1>4, CacheKept
<1>7. Op(c)' = Op(c) /\ Members' = Members /\ request' = request
  BY <1>2, DetailKept DEF Op, tables
<1>8. CallInv(c)'
  BY <1>0, <1>2, <1>4, <1>7, ArriveTypes
     DEF CallInv, StageFits, FoundIsCurrent, MemberIsNoted
<1> QED BY <1>4, <1>5, <1>6, <1>8, OneCallKeepsIInv

\* The first query starts the watch.
LEMMA FindRowKeepsIInv ==
  ASSUME IInv, NEW c \in Calls, FindRow(c)
  PROVE  IInv'
<1>0. TypeOK /\ CacheTellsTheGroup /\ CallInv(c)
  BY DEF IInv
<1> DEFINE row == [track[c] EXCEPT !.since = {}]
           found == IF group = None THEN read[c]
                    ELSE [name |-> group.name, members |-> NoMembers]
           stage == IF group = None THEN "refused" ELSE "members"
<1>1. row \in Tracks
      /\ row.since = {} /\ row.member = track[c].member
  BY <1>0, TypesOfOne DEF Tracks
<1>2. /\ found \in Details \cup {None}
      /\ group # None => found # None
  BY <1>0, TypesOfOne, NoMembersType, DetailType, NothingIsNoDetail DEF Groups
<1>3. /\ pc[c] = "row" /\ Goto(c, stage) /\ track' = [track EXCEPT ![c] = row]
      /\ read' = [read EXCEPT ![c] = found]
      /\ UNCHANGED <<tables, redis, request>>
  <2>1. read = [read EXCEPT ![c] = read[c]]
    BY <1>0 DEF TypeOK
  <2> QED BY <2>1 DEF FindRow, Reads, Refuse
<1>4. /\ group # None => found = [name |-> group.name, members |-> NoMembers]
      /\ stage = IF group = None THEN "refused" ELSE "members"
      /\ stage \in Stages
  BY DEF Stages, Ends
<1> HIDE DEF row, found, stage
<1>5. OneCall(c) /\ pc'[c] = stage /\ track'[c] = row /\ read'[c] = found
  BY <1>0, <1>3 DEF OneCall, Goto, TypeOK, tables
<1>6. TypeOK'
  <2>1. pc' \in [Calls -> Stages]
    BY <1>0, <1>3, <1>4 DEF TypeOK, Goto
  <2>2. read' \in [Calls -> Details \cup {None}]
    BY <1>0, <1>2, <1>3 DEF TypeOK
  <2>3. track' \in [Calls -> Tracks]
    BY <1>0, <1>1, <1>3 DEF TypeOK
  <2> QED BY <2>1, <2>2, <2>3, <1>0, <1>3 DEF TypeOK, tables, redis
<1>7. CacheTellsTheGroup'
  BY <1>0, <1>3, <1>5, CacheKept
<1>8. Op(c)' = Op(c) /\ Members' = Members /\ request' = request /\ group' = group
      /\ NoMembers' = NoMembers
  BY <1>3, DetailKept DEF Op, tables, NoMembers
<1>9. CallInv(c)'
  BY <1>0, <1>1, <1>2, <1>3, <1>4, <1>5, <1>8
     DEF CallInv, StageFits, FoundIsCurrent, MemberIsNoted
<1> QED BY <1>5, <1>6, <1>7, <1>9, OneCallKeepsIInv

LEMMA FindMembersKeepsIInv ==
  ASSUME IInv, NEW c \in Calls, FindMembers(c)
  PROVE  IInv'
<1>0. TypeOK /\ CacheTellsTheGroup /\ CallInv(c)
  BY DEF IInv
<1> DEFINE found == [read[c] EXCEPT !.members = [u \in Members |-> profile[u]]]
<1>1. /\ pc[c] = "members" /\ Goto(c, "miss")
      /\ read' = [read EXCEPT ![c] = found]
      /\ UNCHANGED <<tables, redis, request, track>>
  BY DEF FindMembers, Reads
<1>2. Members \in SUBSET Users /\ read[c] # None
  BY <1>0, <1>1, DetailType DEF CallInv, FoundIsCurrent
<1>3. [u \in Members |-> profile[u]] \in [Members -> Calls \cup {None}]
  BY <1>0, <1>2 DEF TypeOK
<1>4. read[c] \in Details
  BY <1>0, <1>2, TypesOfOne
<1>5. found = [name |-> read[c].name, members |-> [u \in Members |-> profile[u]]]
      /\ read[c].name \in Calls \cup {None}
  BY <1>4 DEF Details
<1>6. found \in Details
  BY <1>2, <1>3, <1>5, MembersInDetails
<1>7. "changed" \notin track[c].since => found = Detail
  <2> HAVE "changed" \notin track[c].since
  <2>1. group # None /\ read[c] = [name |-> group.name, members |-> NoMembers]
    BY <1>0, <1>1 DEF CallInv, FoundIsCurrent
  <2>2. read[c].name = group.name
    BY <2>1
  <2> QED BY <1>0, <1>5, <2>1, <2>2, DetailType
<1> HIDE DEF found
<1>8. OneCall(c) /\ pc'[c] = "miss" /\ read'[c] = found /\ track'[c] = track[c]
  BY <1>0, <1>1 DEF OneCall, Goto, TypeOK, tables
<1>9. TypeOK'
  BY <1>0, <1>1, <1>6 DEF TypeOK, Goto, tables, redis, Stages
<1>10. CacheTellsTheGroup'
  BY <1>0, <1>1, <1>8, CacheKept
<1>11. Op(c)' = Op(c) /\ Members' = Members /\ request' = request /\ Detail' = Detail
  BY <1>1, DetailKept DEF Op, tables
<1>12. CallInv(c)'
  BY <1>0, <1>1, <1>6, <1>7, <1>8, <1>11, NothingIsNoDetail
     DEF CallInv, StageFits, FoundIsCurrent, MemberIsNoted
<1> QED BY <1>8, <1>9, <1>10, <1>12, OneCallKeepsIInv

LEMMA FindGroupKeepsIInv ==
  ASSUME IInv, NEW c \in Calls, FindGroup(c)
  PROVE  IInv'
<1>0. TypeOK /\ CacheTellsTheGroup /\ CallInv(c)
  BY DEF IInv
<1>1. PICK stage \in {"refused", "member", "exists", "write", "membership"} :
        /\ Goto(c, stage)
        /\ stage = "member" => Op(c) = "list"
  BY DEF FindGroup, Refuse, Reads
<1>2. /\ IF Op(c) = "list" THEN Arrive(c) ELSE UNCHANGED track
      /\ UNCHANGED <<tables, redis, request, read>> /\ pc[c] = "group"
  BY DEF FindGroup, Refuse, Reads
<1>3. /\ track' \in [Calls -> Tracks]
      /\ Op(c) = "list" => track'[c].member = (request[c].user \in Members)
      /\ \A d \in Calls : d # c => track'[d] = track[d]
  BY <1>0, <1>2, ArriveTypes DEF TypeOK
<1>4. stage \in Stages
  BY DEF Stages, Ends
<1>5. OneCall(c) /\ pc'[c] = stage
  <2>1. pc'[c] = stage /\ \A d \in Calls : d # c => pc'[d] = pc[d]
    BY <1>0, <1>1 DEF Goto, TypeOK
  <2> QED BY <2>1, <1>2, <1>3 DEF OneCall, tables
<1>6. TypeOK'
  <2>1. pc' \in [Calls -> Stages]
    BY <1>0, <1>1, <1>4 DEF TypeOK, Goto
  <2> QED BY <2>1, <1>0, <1>2, <1>3 DEF TypeOK, tables, redis
<1>7. CacheTellsTheGroup'
  BY <1>0, <1>2, <1>5, CacheKept
<1>8. Op(c)' = Op(c) /\ Members' = Members /\ request' = request
  BY <1>2, DetailKept DEF Op, tables
<1>9. CallInv(c)'
  BY <1>1, <1>3, <1>5, <1>8 DEF CallInv, StageFits, FoundIsCurrent, MemberIsNoted
<1> QED BY <1>5, <1>6, <1>7, <1>9, OneCallKeepsIInv

LEMMA FindRecordKeepsIInv ==
  ASSUME IInv, NEW c \in Calls, FindRecord(c)
  PROVE  IInv'
<1>0. TypeOK /\ CacheTellsTheGroup /\ CallInv(c)
  BY DEF IInv
<1>1. PICK stage \in {"refused", "member"} : Goto(c, stage)
  BY DEF FindRecord, Refuse, Reads
<1>2. /\ UNCHANGED <<tables, redis, request, read>>
      /\ pc[c] = "record" /\ Arrive(c)
  BY DEF FindRecord, Refuse, Reads
<1>3. stage \in Stages
  BY DEF Stages, Ends
<1>4. OneCall(c) /\ pc'[c] = stage
  <2>1. pc'[c] = stage /\ \A d \in Calls : d # c => pc'[d] = pc[d]
    BY <1>0, <1>1 DEF Goto, TypeOK
  <2> QED BY <2>1, <1>0, <1>2, ArriveTypes DEF OneCall, tables
<1>5. TypeOK'
  <2>1. pc' \in [Calls -> Stages]
    BY <1>0, <1>1, <1>3 DEF TypeOK, Goto
  <2> QED BY <2>1, <1>0, <1>2, ArriveTypes DEF TypeOK, tables, redis
<1>6. CacheTellsTheGroup'
  BY <1>0, <1>2, <1>4, CacheKept
<1>7. Op(c)' = Op(c) /\ Members' = Members /\ request' = request
  BY <1>2, DetailKept DEF Op, tables
<1>8. CallInv(c)'
  BY <1>0, <1>2, <1>4, <1>7, ArriveTypes
     DEF CallInv, StageFits, FoundIsCurrent, MemberIsNoted
<1> QED BY <1>4, <1>5, <1>6, <1>8, OneCallKeepsIInv

LEMMA ChecksKeepIInv ==
  ASSUME IInv, NEW c \in Calls,
         CheckExists(c) \/ CheckMembership(c) \/ CannotWrite(c)
  PROVE  IInv'
<1>1. PICK stage \in {"refused", "write", "failed"} :
        /\ Goto(c, stage)
        /\ UNCHANGED <<tables, redis, request, read, track>>
        /\ pc[c] # "invalidate"
  BY DEF CheckExists, CheckMembership, CannotWrite, Refuse, Reads
<1>2. CASE stage = "write"
  <2>1. pc'[c] = stage
    BY <1>1, MovesAreOneCall DEF IInv, tables
  <2>2. StageFits(c)' /\ FoundIsCurrent(c)' /\ MemberIsNoted(c)'
    BY <1>2, <2>1 DEF StageFits, FoundIsCurrent, MemberIsNoted
  <2>3. stage \in Stages
    BY <1>2 DEF Stages
  <2> QED BY <1>1, <2>2, <2>3, MoveKeepsIInv
<1>3. CASE stage \in {"refused", "failed"}
  BY <1>1, <1>3, EndKeepsIInv
<1> QED BY <1>2, <1>3

\* The records that are there at first are noted, with the first query.
LEMMA WatchRecordsTypes ==
  ASSUME TypeOK, NEW c \in Calls, WatchRecords(c)
  PROVE  /\ track' \in [Calls -> Tracks]
         /\ track'[c].member = track[c].member
         /\ \A d \in Calls : d # c => track'[d] = track[d]
<1>1. CASE track' = track
  BY <1>1 DEF TypeOK
<1>2. CASE track' = [track EXCEPT ![c].since = {}, ![c].first = Range(records)]
  <2> DEFINE row == [track[c] EXCEPT !.since = {}, !.first = Range(records)]
  <2>1. Range(records) \in SUBSET Records
    BY DEF TypeOK, Range
  <2>2. row \in Tracks
    BY <2>1, TypesOfOne DEF Tracks
  <2>3. row.member = track[c].member
    BY TypesOfOne DEF Tracks
  <2>4. track' = [track EXCEPT ![c] = row]
    BY <1>2, TypesOfOne DEF TypeOK, Tracks
  <2> HIDE DEF row
  <2> QED BY <2>2, <2>3, <2>4 DEF TypeOK
<1> QED BY <1>1, <1>2 DEF WatchRecords

LEMMA PagesKeepIInv ==
  ASSUME IInv, NEW c \in Calls, FindPage(c) \/ Count(c) \/ TakePage(c)
  PROVE  IInv'
<1>0. TypeOK /\ CacheTellsTheGroup /\ CallInv(c)
  BY DEF IInv
<1>1. PICK stage \in {"page", "shown", "answered", "group"} : Goto(c, stage)
  BY DEF FindPage, Count, TakePage, Reads
<1>2. /\ UNCHANGED <<tables, redis, request, read>>
      /\ pc[c] \in {"page", "shown"}
      /\ track' = track \/ WatchRecords(c)
  BY DEF FindPage, Count, TakePage, Reads
<1>3. stage \in Stages
  BY DEF Stages, Ends
<1>4. /\ track' \in [Calls -> Tracks]
      /\ track'[c].member = track[c].member
      /\ \A d \in Calls : d # c => track'[d] = track[d]
  BY <1>0, <1>2, WatchRecordsTypes DEF TypeOK
<1>5. OneCall(c) /\ pc'[c] = stage
  <2>1. pc'[c] = stage /\ \A d \in Calls : d # c => pc'[d] = pc[d]
    BY <1>0, <1>1 DEF Goto, TypeOK
  <2> QED BY <2>1, <1>2, <1>4 DEF OneCall, tables
<1>6. TypeOK'
  <2>1. pc' \in [Calls -> Stages]
    BY <1>0, <1>1, <1>3 DEF TypeOK, Goto
  <2> QED BY <2>1, <1>0, <1>2, <1>4 DEF TypeOK, tables, redis
<1>7. CacheTellsTheGroup'
  BY <1>0, <1>2, <1>5, CacheKept
<1>8. Op(c)' = Op(c) /\ Op(c) = "list" /\ track[c].member
  BY <1>0, <1>2 DEF Op, CallInv, StageFits, MemberIsNoted, Readers
<1>9. CallInv(c)'
  BY <1>4, <1>5, <1>8 DEF CallInv, StageFits, FoundIsCurrent, MemberIsNoted
<1> QED BY <1>5, <1>6, <1>7, <1>9, OneCallKeepsIInv

----------------------------------------------------------------------------
(* Redis *)

LEMMA FillKeepsIInv ==
  ASSUME IInv, NEW c \in Calls, Fill(c)
  PROVE  IInv'
<1>0. TypeOK /\ CacheTellsTheGroup /\ CallInv(c)
  BY DEF IInv
<1>1. /\ pc[c] = "fill" /\ Goto(c, "answered")
      /\ UNCHANGED <<tables, request, read, track>>
  BY DEF Fill
<1>2. OneCall(c) /\ pc'[c] = "answered" /\ track'[c] = track[c]
  BY <1>0, <1>1 DEF OneCall, Goto, TypeOK, tables
<1>3. \/ cache' = read[c] /\ doubt' = track[c].since \cap {"changed", "profile"}
      \/ UNCHANGED redis
  BY DEF Fill
<1>4. TypeOK'
  <2>1. pc' \in [Calls -> Stages]
    BY <1>0, <1>1 DEF TypeOK, Goto, Stages, Ends
  <2>2. cache' \in Details \cup {None} /\ doubt' \subseteq {"changed", "profile", "failed"}
    BY <1>0, <1>3, TypesOfOne DEF TypeOK, redis
  <2> QED BY <2>1, <2>2, <1>0, <1>1 DEF TypeOK, tables
<1>5. CacheTellsTheGroup'
  <2>1. CASE UNCHANGED redis
    BY <2>1, <1>0, <1>1, <1>2, CacheKept
  <2>2. CASE cache' = read[c] /\ doubt' = track[c].since \cap {"changed", "profile"}
    <3>1. doubt' = {} => read[c] = Detail
      BY <2>2, <1>0, <1>1 DEF CallInv, FoundIsCurrent
    <3>2. Detail' = Detail
      BY <1>1, DetailKept DEF tables
    <3> QED BY <2>2, <3>1, <3>2 DEF CacheTellsTheGroup
  <2> QED BY <1>3, <2>1, <2>2
<1>6. Op(c)' = Op(c) /\ Op(c) = "get" /\ track[c].member
  BY <1>0, <1>1 DEF Op, CallInv, StageFits, MemberIsNoted, Readers
<1>7. CallInv(c)'
  BY <1>2, <1>6 DEF CallInv, StageFits, FoundIsCurrent, MemberIsNoted
<1> QED BY <1>2, <1>4, <1>5, <1>7, OneCallKeepsIInv

LEMMA ExpireKeepsIInv ==
  ASSUME IInv, Expire
  PROVE  IInv'
<1>1. UNCHANGED <<group, profile, request>> /\ UNCHANGED <<pc, read, track>>
      /\ cache' = None /\ doubt' = {}
  BY DEF Expire, tables
<1>2. TypeOK'
  BY DEF IInv, Expire, TypeOK, tables
<1>3. CacheTellsTheGroup'
  BY <1>1 DEF CacheTellsTheGroup
<1>4. Detail' = Detail /\ Members' = Members
  BY <1>1, DetailKept
<1>5. \A d \in Calls : CallInv(d)'
  BY <1>1, <1>4 DEF IInv, CallInv, StageFits, FoundIsCurrent, MemberIsNoted, Op
<1> QED BY <1>2, <1>3, <1>5 DEF IInv

\* A doubt is added.
LEMMA DoubtFacts ==
  ASSUME TypeOK, NEW why \in {"changed", "profile", "failed"}, Doubt(why)
  PROVE  /\ doubt' \subseteq {"changed", "profile", "failed"}
         /\ cache # None => doubt' # {}
BY DEF Doubt, TypeOK

LEMMA InvalidateKeepsIInv ==
  ASSUME IInv, NEW c \in Calls, Invalidate(c)
  PROVE  IInv'
<1>0. TypeOK /\ CacheTellsTheGroup /\ CallInv(c)
  BY DEF IInv
<1>1. /\ pc[c] = "invalidate" /\ Goto(c, "done")
      /\ UNCHANGED <<tables, request, read, track>>
  BY DEF Invalidate
<1>2. OneCall(c) /\ pc'[c] = "done"
  BY <1>0, <1>1 DEF OneCall, Goto, TypeOK, tables
<1>3. \/ cache' = None /\ doubt' = {}
      \/ cache' = cache /\ Doubt("failed")
  BY DEF Invalidate
<1>4. TypeOK' /\ CacheTellsTheGroup'
  <2>1. pc' \in [Calls -> Stages]
    BY <1>0, <1>1 DEF TypeOK, Goto, Stages, Ends
  <2>2. cache' \in Details \cup {None} /\ doubt' \subseteq {"changed", "profile", "failed"}
    BY <1>0, <1>3, DoubtFacts DEF TypeOK
  <2>3. cache' # None => doubt' # {}
    BY <1>0, <1>3, DoubtFacts
  <2> QED BY <2>1, <2>2, <2>3, <1>0, <1>1 DEF TypeOK, tables, CacheTellsTheGroup
<1>5. CallInv(c)'
  BY <1>2 DEF CallInv, StageFits, FoundIsCurrent, MemberIsNoted
<1> QED BY <1>2, <1>4, <1>5, OneCallKeepsIInv

LEMMA AbortKeepsIInv ==
  ASSUME IInv, NEW c \in Calls, Abort(c)
  PROVE  IInv'
<1>0. TypeOK /\ CacheTellsTheGroup /\ CallInv(c)
  BY DEF IInv
<1>1. /\ Goto(c, "failed") /\ UNCHANGED <<tables, cache, request, read, track>>
      /\ IF pc[c] = "invalidate" THEN Doubt("failed") ELSE UNCHANGED doubt
  BY DEF Abort
<1>2. CASE pc[c] # "invalidate"
  BY <1>1, <1>2, EndKeepsIInv DEF redis
<1>3. CASE pc[c] = "invalidate"
  <2>1. OneCall(c) /\ pc'[c] = "failed"
    BY <1>0, <1>1 DEF OneCall, Goto, TypeOK, tables
  <2>2. TypeOK'
    <3>1. pc' \in [Calls -> Stages]
      BY <1>0, <1>1 DEF TypeOK, Goto, Stages, Ends
    <3> QED BY <3>1, <1>0, <1>1, <1>3, DoubtFacts DEF TypeOK, tables
  <2>3. CacheTellsTheGroup'
    BY <1>0, <1>1, <1>3, DoubtFacts DEF CacheTellsTheGroup
  <2>4. CallInv(c)'
    BY <2>1 DEF CallInv, StageFits, FoundIsCurrent, MemberIsNoted
  <2> QED BY <2>1, <2>2, <2>3, <2>4, OneCallKeepsIInv
<1> QED BY <1>2, <1>3

----------------------------------------------------------------------------
(* Commits *)

\* What a reader takes note of when something of a kind is committed.
Noted(kind) ==
  \A d \in Calls :
    IF Op(d) \notin Readers \/ pc[d] \in Ends THEN track'[d] = track[d]
    ELSE /\ track[d].since \cup {kind} \subseteq track'[d].since
         /\ track[d].member => track'[d].member
         /\ request[d].user \in Members' => track'[d].member

LEMMA WatchFacts ==
  ASSUME TypeOK, NEW kind \in Kinds, Watch(kind, Members')
  PROVE  track' \in [Calls -> Tracks] /\ Noted(kind)
<1>1. ASSUME NEW d \in Calls, Op(d) \in Readers, pc[d] \notin Ends
      PROVE  /\ track'[d] \in Tracks
             /\ track'[d].since = track[d].since \cup {kind}
             /\ track[d].member => track'[d].member
             /\ request[d].user \in Members' => track'[d].member
  <2> DEFINE m == track[d].member \/ request[d].user \in Members'
             s == track[d].since \cup {kind}
             t == track[d].torn \/ HalfRead(d)
  <2>1. track[d] \in Tracks
    BY TypesOfOne
  <2>2. track'[d] = [track[d] EXCEPT !.member = m, !.since = s, !.torn = t]
    BY <1>1 DEF Watch
  <2>3. m \in BOOLEAN /\ t \in BOOLEAN
    BY Zenon
  <2>4. s \in SUBSET Kinds
    BY <2>1 DEF Tracks
  <2>5. /\ track[d].member => m
        /\ request[d].user \in Members' => m
    OBVIOUS
  <2> HIDE DEF m, s, t
  <2>6. track'[d] \in Tracks /\ track'[d].member = m /\ track'[d].since = s
    BY <2>1, <2>2, <2>3, <2>4 DEF Tracks
  <2> QED BY <2>5, <2>6 DEF s
<1>2. ASSUME NEW d \in Calls, Op(d) \notin Readers \/ pc[d] \in Ends
      PROVE  track'[d] = track[d]
  BY <1>2 DEF Watch
<1>3. track' = [d \in Calls |-> track'[d]]
  BY DEF Watch
<1>4. \A d \in Calls : track'[d] \in Tracks
  BY <1>1, <1>2, TypesOfOne
<1> QED BY <1>1, <1>2, <1>3, <1>4 DEF Noted

LEMMA DeleteFacts ==
  ASSUME TypeOK, NEW c \in Calls, DeleteGroup(c)
  PROVE  track' \in [Calls -> Tracks] /\ Noted("changed")
<1>0. Members' = {}
  BY DEF DeleteGroup, Members
<1>1. ASSUME NEW d \in Calls, Op(d) \in Readers, pc[d] \notin Ends
      PROVE  /\ track'[d] \in Tracks
             /\ track[d].since \cup {"changed"} \subseteq track'[d].since
             /\ track'[d].member = track[d].member
  <2> DEFINE s == track[d].since \cup {"changed", "erased"}
             t == track[d].torn \/ HalfRead(d)
  <2>1. track[d] \in Tracks
    BY TypesOfOne
  <2>2. track'[d] = [track[d] EXCEPT !.since = s, !.torn = t]
    BY <1>1 DEF DeleteGroup
  <2>3. t \in BOOLEAN
    BY Zenon
  <2>4. s \in SUBSET Kinds
    BY <2>1 DEF Tracks, Kinds
  <2> HIDE DEF t, s
  <2>5. track'[d] \in Tracks /\ track'[d].member = track[d].member
        /\ track'[d].since = s
    BY <2>1, <2>2, <2>3, <2>4 DEF Tracks
  <2> QED BY <2>5 DEF s
<1>2. ASSUME NEW d \in Calls, Op(d) \notin Readers \/ pc[d] \in Ends
      PROVE  track'[d] = track[d]
  BY <1>2 DEF DeleteGroup
<1>3. track' = [d \in Calls |-> track'[d]]
  BY DEF DeleteGroup
<1>4. \A d \in Calls : track'[d] \in Tracks
  BY <1>1, <1>2, TypesOfOne
<1> QED BY <1>0, <1>1, <1>2, <1>3, <1>4 DEF Noted

\* A note taken of what changed is enough for what was found before.
LEMMA NotedKeepsCalls ==
  ASSUME NEW d \in Calls, CallInv(d), NEW kind \in Kinds, Noted(kind),
         pc'[d] = pc[d], read'[d] = read[d], request' = request,
         kind # "changed" => group' = group,
         kind \notin {"changed", "profile"} => profile' = profile
  PROVE  CallInv(d)'
<1>1. Op(d)' = Op(d) /\ NoMembers' = NoMembers
  BY DEF Op, NoMembers
<1>2. CASE Op(d) \notin Readers
  <2>1. pc[d] \notin {"cache", "hit", "row", "members", "miss", "fill", "page",
                      "shown", "record", "member"}
    BY <1>2 DEF CallInv, StageFits, Readers
  <2> QED BY <1>1, <1>2, <2>1 DEF CallInv, StageFits, FoundIsCurrent, MemberIsNoted
<1>3. CASE Op(d) \in Readers /\ pc[d] \in Ends
  <2>1. track'[d] = track[d]
    BY <1>3 DEF Noted
  <2> QED BY <1>1, <1>3, <2>1
        DEF CallInv, StageFits, FoundIsCurrent, MemberIsNoted, Ends
<1>4. CASE Op(d) \in Readers /\ pc[d] \notin Ends
  <2>1. /\ track[d].since \cup {kind} \subseteq track'[d].since
        /\ track[d].member => track'[d].member
        /\ request[d].user \in Members' => track'[d].member
    BY <1>4 DEF Noted
  <2>2. StageFits(d)' /\ MemberIsNoted(d)'
    BY <1>1, <2>1 DEF CallInv, StageFits, MemberIsNoted
  <2>3. FoundIsCurrent(d)'
    <3>1. CASE kind = "changed"
      BY <1>1, <2>1, <3>1 DEF CallInv, FoundIsCurrent
    <3>2. CASE kind = "profile"
      <4>1. group' = group /\ "profile" \in track'[d].since
        BY <3>2, <2>1
      <4> QED BY <4>1, <1>1, <2>1 DEF CallInv, FoundIsCurrent
    <3>3. CASE kind \notin {"changed", "profile"}
      <4>1. Detail' = Detail /\ group' = group
        BY <3>3, DetailKept
      <4>2. track'[d].since \cap {"changed", "profile"} = {} =>
              track[d].since \cap {"changed", "profile"} = {}
        BY <2>1
      <4> QED BY <4>1, <4>2, <1>1, <2>1 DEF CallInv, FoundIsCurrent
    <3> QED BY <3>1, <3>2, <3>3
  <2> QED BY <2>2, <2>3 DEF CallInv
<1> QED BY <1>2, <1>3, <1>4

\* Each kind of commit.
Kind(c) == IF Op(c) = "profile" THEN "profile" ELSE "changed"

LEMMA CommitFacts ==
  ASSUME TypeOK, NEW c \in Calls, Commits(c), UNCHANGED request
  PROVE  /\ group' \in Groups \cup {None}
         /\ profile' \in [Users -> Calls \cup {None}]
         /\ records' \in Seq(Records)
         /\ track' \in [Calls -> Tracks] /\ Noted(Kind(c))
         /\ Op(c) = "profile" => group' = group
         /\ Op(c) # "profile" => profile' = profile
         /\ Op(c) \notin Readers
<1>0. /\ request[c] \in Requests /\ request[c].user \in Users
      /\ Op(c) \in {"add", "remove"} => request[c].member \in Users
      /\ "changed" \in Kinds /\ "profile" \in Kinds
  BY ReadsAssumption, TypesOfOne DEF Op, Kinds
<1>1. CASE Rename(c)
  <2>1. group \in Groups /\ Members = group.members /\ Op(c) = "rename"
    BY <1>1, DetailType DEF Rename
  <2>2. group' = [group EXCEPT !.name = c]
    BY <1>1 DEF Rename
  <2>3. group' \in Groups /\ group'.members = group.members
    BY <2>1, <2>2 DEF Groups
  <2>4. Members' = Members
    BY <2>1, <2>3, NothingIsNoDetail DEF Members
  <2>5. Watch("changed", Members')
    BY <1>1, <2>4 DEF Rename
  <2> QED BY <1>0, <1>1, <2>1, <2>3, <2>5, WatchFacts
        DEF Rename, TypeOK, Kind, Readers
<1>2. CASE DeleteGroup(c)
  <2>1. track' \in [Calls -> Tracks] /\ Noted("changed")
    BY <1>2, DeleteFacts
  <2>2. Op(c) = "delete" /\ group' = None /\ profile' = profile /\ records' = <<>>
    BY <1>2, Zenon DEF DeleteGroup
  <2>3. Kind(c) = "changed" /\ Op(c) # "profile" /\ Op(c) \notin Readers
    BY <2>2 DEF Kind, Readers
  <2>4. profile' \in [Users -> Calls \cup {None}]
    BY <2>2 DEF TypeOK
  <2>5. records' \in Seq(Records)
    BY <2>2
  <2> QED BY <2>1, <2>2, <2>3, <2>4, <2>5
<1>3. CASE AddMember(c) \/ RemoveMember(c)
  <2>1. group \in Groups /\ Members = group.members /\ Op(c) \in {"add", "remove"}
    BY <1>3, DetailType DEF AddMember, RemoveMember
  <2>2. PICK m \in SUBSET Users : group' = [group EXCEPT !.members = m]
    BY <1>0, <1>3, <2>1 DEF AddMember, RemoveMember, Groups
  <2>3. group' \in Groups
    BY <2>1, <2>2 DEF Groups
  <2>4. Members' = group'.members
    BY <2>3, NothingIsNoDetail DEF Members
  <2>5. Watch("changed", Members')
    BY <1>3, <2>4 DEF AddMember, RemoveMember
  <2> QED BY <1>0, <1>3, <2>1, <2>3, <2>5, WatchFacts
        DEF AddMember, RemoveMember, TypeOK, Kind, Readers
<1>4. CASE UpdateProfile(c)
  <2>1. Members' = Members /\ group' = group /\ Op(c) = "profile"
    BY <1>4 DEF UpdateProfile, Members
  <2>2. Watch("profile", Members')
    BY <1>4, <2>1 DEF UpdateProfile
  <2> QED BY <1>0, <1>4, <2>1, <2>2, WatchFacts
        DEF UpdateProfile, TypeOK, Kind, Readers
<1> QED BY <1>1, <1>2, <1>3, <1>4 DEF Commits

\* The transaction of a write, after which its handler goes on, or sees an
\* error; if nothing will be invalidated, the cache is in doubt.
LEMMA CommitKeepsIInv ==
  ASSUME IInv, NEW c \in Calls, pc[c] = "write", Commits(c),
         NEW stage \in {"done", "invalidate", "failed"}, Goto(c, stage),
         UNCHANGED <<erased, cache, request, read>>,
         doubt' \subseteq {"changed", "profile", "failed"},
         stage # "invalidate" /\ cache # None => doubt' # {}
  PROVE  IInv'
<1>0. TypeOK /\ \A d \in Calls : CallInv(d)
  BY DEF IInv
<1>1. \A d \in Calls : d # c => pc'[d] = pc[d] /\ read'[d] = read[d]
  BY <1>0 DEF TypeOK, Goto
<1>2. pc'[c] = stage /\ pc' \in [Calls -> Stages]
  BY <1>0 DEF TypeOK, Goto, Stages, Ends
<1>3. TypeOK'
  BY <1>0, <1>2, CommitFacts DEF TypeOK
<1>4. CacheTellsTheGroup'
  BY <1>2 DEF CacheTellsTheGroup
<1>5. Kind(c) \in Kinds /\ (Kind(c) = "profile" <=> Op(c) = "profile")
      /\ Kind(c) \in {"changed", "profile"}
  BY DEF Kind, Kinds
<1>6. \A d \in Calls : d # c => CallInv(d)'
  BY <1>0, <1>1, <1>5, CommitFacts, NotedKeepsCalls
<1>7. CallInv(c)'
  <2>1. Op(c)' \notin Readers
    BY <1>0, CommitFacts DEF Op
  <2> QED BY <1>2, <2>1 DEF CallInv, StageFits, FoundIsCurrent, MemberIsNoted
<1> QED BY <1>3, <1>4, <1>6, <1>7 DEF IInv

LEMMA ChangeKeepsIInv ==
  ASSUME IInv, NEW c \in Calls, Write(c) \/ LoseCommit(c)
  PROVE  IInv'
<1>0. TypeOK
  BY DEF IInv
<1>1. CASE Write(c)
  <2>1. /\ pc[c] = "write" /\ Commits(c) /\ Goto(c, AfterCommit(c))
        /\ UNCHANGED <<erased, cache, request, read>>
        /\ IF Op(c) = "profile" THEN Doubt("profile") ELSE UNCHANGED doubt
    BY <1>1 DEF Write
  <2>2. AfterCommit(c) = IF Op(c) = "profile" THEN "done" ELSE "invalidate"
    BY DEF AfterCommit
  <2>3. doubt' \subseteq {"changed", "profile", "failed"}
    BY <1>0, <2>1, DoubtFacts DEF TypeOK
  <2>4. Op(c) = "profile" /\ cache # None => doubt' # {}
    BY <1>0, <2>1, DoubtFacts
  <2>5. PICK stage \in {"done", "invalidate"} :
          stage = AfterCommit(c) /\ (stage = "invalidate" \/ Op(c) = "profile")
    BY <2>2
  <2> QED BY <2>1, <2>3, <2>4, <2>5, CommitKeepsIInv
<1>2. CASE LoseCommit(c)
  <2>1. /\ pc[c] = "write" /\ Commits(c) /\ Goto(c, "failed")
        /\ UNCHANGED <<erased, cache, request, read>>
        /\ Doubt(IF Op(c) = "profile" THEN "profile" ELSE "failed")
    BY <1>2 DEF LoseCommit
  <2>2. doubt' \subseteq {"changed", "profile", "failed"}
        /\ (cache # None => doubt' # {})
    BY <1>0, <2>1, DoubtFacts
  <2> QED BY <2>1, <2>2, CommitKeepsIInv
<1> QED BY <1>1, <1>2

----------------------------------------------------------------------------
(* Records *)

LEMMA RecordsKeepIInv ==
  ASSUME IInv, NEW r \in Records, Record(r) \/ Erase(r)
  PROVE  IInv'
<1>0. TypeOK /\ \A d \in Calls : CallInv(d)
  BY DEF IInv
<1>1. /\ UNCHANGED <<group, profile, redis, request, pc, read>>
      /\ \/ Watch("added", Members) /\ erased' = erased
         \/ Watch("erased", Members) /\ erased' = erased \cup {r}
  BY DEF Record, Erase
<1>2. Members' = Members /\ Detail' = Detail
  BY <1>1, DetailKept
<1>3. PICK kind \in {"added", "erased"} : Watch(kind, Members')
  BY <1>1, <1>2
<1>4. kind \in Kinds /\ kind \notin {"changed", "profile"}
  BY DEF Kinds
<1>5. track' \in [Calls -> Tracks] /\ Noted(kind)
  BY <1>0, <1>3, <1>4, WatchFacts
<1>6. records' \in Seq(Records)
  <2>1. CASE Record(r)
    <3>1. PICK i \in 1 .. Len(records) + 1 : records' = InsertAt(records, i, r)
      BY <2>1 DEF Record
    <3>2. records' = (SubSeq(records, 1, i - 1) \o <<r>>) \o SubSeq(records, i, Len(records))
      BY <3>1 DEF InsertAt
    <3>3. /\ SubSeq(records, 1, i - 1) \in Seq(Records)
          /\ SubSeq(records, i, Len(records)) \in Seq(Records)
          /\ <<r>> \in Seq(Records)
      BY <1>0 DEF TypeOK
    <3> QED BY <3>2, <3>3
  <2>2. CASE Erase(r)
    <3>1. PICK i \in DOMAIN records : records' = RemoveAt(records, i)
      BY <2>2 DEF Erase
    <3>2. records' = SubSeq(records, 1, i - 1) \o SubSeq(records, i + 1, Len(records))
      BY <3>1 DEF RemoveAt
    <3>3. /\ SubSeq(records, 1, i - 1) \in Seq(Records)
          /\ SubSeq(records, i + 1, Len(records)) \in Seq(Records)
      BY <1>0 DEF TypeOK
    <3> QED BY <3>2, <3>3
  <2> QED BY <2>1, <2>2
<1>7. TypeOK'
  BY <1>0, <1>1, <1>5, <1>6 DEF TypeOK, redis
<1>8. CacheTellsTheGroup'
  BY <1>1, <1>2 DEF IInv, CacheTellsTheGroup, redis
<1>9. \A d \in Calls : CallInv(d)'
  BY <1>0, <1>1, <1>4, <1>5, NotedKeepsCalls
<1> QED BY <1>7, <1>8, <1>9 DEF IInv

----------------------------------------------------------------------------
(* Theorems *)

LEMMA InitHasIInv ==
  ASSUME Init
  PROVE  IInv
<1>1. /\ group \in Groups /\ records = <<>> /\ erased \subseteq Records
      /\ cache = None /\ doubt = {}
      /\ request \in [Calls -> Requests]
      /\ pc = [c \in Calls |-> Start(request[c].op)]
      /\ read = [c \in Calls |-> None]
      /\ track = [c \in Calls |-> Unwatched]
      /\ profile = [u \in Users |-> None]
  BY DEF Init, Groups
<1>2. \A c \in Calls :
        /\ pc[c] \in {"cache", "record", "write", "group"}
        /\ pc[c] = "cache" => Op(c) = "get"
        /\ pc[c] = "record" => Op(c) = "one"
  BY <1>1 DEF Start, Op
<1>3. Unwatched \in Tracks
  BY DEF Unwatched, Tracks
<1>4. TypeOK
  <2>1. pc \in [Calls -> Stages]
    BY <1>1, <1>2 DEF Stages
  <2> QED BY <1>1, <1>3, <2>1 DEF TypeOK
<1>5. CacheTellsTheGroup
  BY <1>1 DEF CacheTellsTheGroup
<1>6. \A c \in Calls : CallInv(c)
  BY <1>2 DEF CallInv, StageFits, FoundIsCurrent, MemberIsNoted
<1> QED BY <1>4, <1>5, <1>6 DEF IInv

LEMMA StepKeepsIInv ==
  ASSUME IInv, [Next]_vars
  PROVE  IInv'
<1>1. CASE UNCHANGED vars
  <2>1. UNCHANGED <<tables, redis, request, pc, read, track>>
    BY <1>1 DEF vars
  <2>2. TypeOK'
    BY <2>1 DEF IInv, TypeOK, tables, redis
  <2>3. Detail' = Detail /\ Members' = Members
    BY <2>1, DetailKept DEF tables
  <2>4. CacheTellsTheGroup'
    BY <2>1, <2>3 DEF IInv, CacheTellsTheGroup, redis
  <2>5. \A c \in Calls : CallInv(c)'
    BY <2>1, <2>3 DEF IInv, CallInv, StageFits, FoundIsCurrent, MemberIsNoted,
                      Op, NoMembers, tables
  <2> QED BY <2>2, <2>4, <2>5 DEF IInv
<1>2. ASSUME NEW c \in Calls, Query(c)
      PROVE  IInv'
  BY <1>2, LookUpKeepsIInv, FindRowKeepsIInv, FindMembersKeepsIInv,
     AuthorizeKeepsIInv, FindGroupKeepsIInv, FindRecordKeepsIInv,
     PagesKeepIInv, ChecksKeepIInv DEF Query
<1>3. ASSUME NEW c \in Calls, Change(c)
      PROVE  IInv'
  BY <1>3, ChangeKeepsIInv, ChecksKeepIInv DEF Change
<1>4. ASSUME NEW c \in Calls, Fill(c) \/ Invalidate(c) \/ Abort(c)
      PROVE  IInv'
  BY <1>4, FillKeepsIInv, InvalidateKeepsIInv, AbortKeepsIInv
<1>5. ASSUME NEW r \in Records, Record(r) \/ Erase(r)
      PROVE  IInv'
  BY <1>5, RecordsKeepIInv
<1> QED BY <1>1, <1>2, <1>3, <1>4, <1>5, ExpireKeepsIInv DEF Next

LEMMA ServedInvariant ==
  ASSUME IInv
  PROVE  ServedToMembers
BY DEF IInv, CallInv, MemberIsNoted, ServedToMembers

\* The inductive invariant of the details, their cache and the readers.
THEOREM Invariance == Spec => []IInv
<1>1. Init => IInv
  BY InitHasIInv
<1>2. IInv /\ [Next]_vars => IInv'
  BY StepKeepsIInv
<1> QED BY <1>1, <1>2, PTL DEF Spec

\* Cached details differ from the group only while an invalidation is to
\* come, after one has failed, after a profile was changed, or when a reader
\* that overlapped a write has filled them in (group.cache.ts).
THEOREM CacheIsCurrent == Spec => []CacheTellsTheGroup
<1>1. IInv => CacheTellsTheGroup
  BY DEF IInv
<1> QED BY <1>1, Invariance, PTL

\* The data of a group goes to members only, from the cache or not
\* (group.service.ts, settlement.service.ts, expense.service.ts,
\* activity.service.ts).
THEOREM OnlyMembersServed == Spec => []ServedToMembers
<1>1. IInv => ServedToMembers
  BY ServedInvariant
<1> QED BY <1>1, Invariance, PTL

----------------------------------------------------------------------------
(* Walks                                                                   *)
(* A client that reads a list page by page has pages of different moments. *)
(* Records that are added push those that it has not read further back, so *)
(* that, until something is removed, each is in a page that it has or      *)
(* still after them.                                                       *)

Walking == {"group", "member", "page", "shown"}
Walks(c) == Op(c) = "list" /\ pc[c] \in Walking
Limit(c) == request[c].limit
Touched(c) == track[c].since \cap {"added", "erased"} # {}

WalkTypes ==
  walk \in [Calls -> [page : Nat \ {0}, items : Seq(Records) \cup {None},
                      total : Nat \cup {None}, got : Seq(Records)]]

\* What the client has, with the page that is about to be shown.
Have(c) ==
  IF walk[c].items = None THEN walk[c].got ELSE walk[c].got \o walk[c].items

\* The first page or total has been read.
Began(c) == walk[c].page > 1 \/ walk[c].items # None \/ walk[c].total # None

\* A page that is the last, whatever the total.
Short(c) == walk[c].items # None /\ (Limit(c) = None \/ Len(walk[c].items) < Limit(c))

\* What the client has agrees with where it is.
WalkFits(c) ==
  /\ pc[c] \in {"group", "member"} => walk[c].items = None /\ walk[c].total = None
  /\ pc[c] = "page" => walk[c].items = None \/ walk[c].total = None
  /\ pc[c] = "shown" => walk[c].items # None /\ (walk[c].total # None \/ Limit(c) = None)
  /\ Limit(c) = None => walk[c].page = 1 /\ walk[c].total = None /\ walk[c].got = <<>>
  /\ Limit(c) # None => Len(walk[c].got) = Skip(c)
  /\ walk[c].items # None /\ Limit(c) # None => Len(walk[c].items) <= Limit(c)

\* The records after the first n.
Rest(n) == {records[i] : i \in n + 1 .. Len(records)}

\* What was there at first is there or still to come; not to come after the
\* last page.
NothingMissed(c) ==
  Began(c) /\ "erased" \notin track[c].since =>
    /\ track[c].first \subseteq Range(Have(c)) \cup Rest(Len(Have(c)))
    /\ Short(c) => track[c].first \subseteq Range(Have(c))
    /\ (/\ walk[c].items # None /\ walk[c].total # None /\ ~track[c].torn
        /\ Len(Have(c)) >= walk[c].total) => track[c].first \subseteq Range(Have(c))

\* A total that was read before its page still holds.
TotalHolds(c) ==
  pc[c] = "page" /\ walk[c].total # None /\ ~track[c].torn
    => walk[c].total = Len(records)

\* s is how t begins.
Begins(s, t) == Len(s) <= Len(t) /\ \A i \in 1 .. Len(s) : s[i] = t[i]

\* When nothing was added or removed, the client has the first records.
NothingTwice(c) ==
  Began(c) /\ ~Touched(c) =>
    /\ track[c].first = Range(records)
    /\ Begins(Have(c), records)
    /\ Short(c) => Len(Have(c)) = Len(records)
    /\ walk[c].total # None => walk[c].total = Len(records)

CallWalks(c) ==
  /\ Op(c) = "list" => pc[c] \in Walking \cup {"refused", "failed", "answered"}
  /\ Walks(c) => WalkFits(c) /\ NothingMissed(c) /\ TotalHolds(c) /\ NothingTwice(c)
  /\ Op(c) = "list" /\ pc[c] = "answered" => MissesNothing(c)

EachOnce == \A i, j \in 1 .. Len(records) : records[i] = records[j] => i = j

WalkInv == WalkTypes /\ EachOnce /\ \A c \in Calls : CallWalks(c)

----------------------------------------------------------------------------
(* Steps that leave the records and the client's pages alone *)

LEMMA WalkTyped ==
  ASSUME WalkTypes, NEW c \in Calls
  PROVE  /\ walk[c].page \in Nat \ {0} /\ walk[c].got \in Seq(Records)
         /\ walk[c].items \in Seq(Records) \cup {None}
         /\ walk[c].total \in Nat \cup {None}
BY DEF WalkTypes

\* What is noted of a walk is more than before.
NotesMore(d) ==
  Op(d) = "list" =>
    /\ track'[d].first = track[d].first
    /\ track[d].since \subseteq track'[d].since
    /\ track[d].torn => track'[d].torn

\* How a list goes on between its pages, or ends without an answer.
GoesOn(d) ==
  \/ pc'[d] = pc[d] \/ Op(d) # "list" \/ pc'[d] \in {"refused", "failed"}
  \/ pc[d] = "group" /\ pc'[d] = "member"
  \/ pc[d] = "member" /\ pc'[d] = "page"

LEMMA WalkGoesOn ==
  ASSUME NEW d \in Calls, CallWalks(d), UNCHANGED <<records, request>>,
         walk'[d] = walk[d], GoesOn(d), NotesMore(d),
         pc[d] \in Ends => track'[d] = track[d]
  PROVE  CallWalks(d)'
<1>1. /\ Op(d)' = Op(d) /\ Limit(d)' = Limit(d) /\ Skip(d)' = Skip(d)
      /\ Have(d)' = Have(d) /\ Began(d)' = Began(d) /\ Short(d)' = Short(d)
      /\ \A n : Rest(n)' = Rest(n)
  BY DEF Op, Limit, Skip, Have, Began, Short, Rest
<1>2. Op(d) = "list" /\ Touched(d) => Touched(d)'
  BY DEF Touched, NotesMore
<1>3. ASSUME Walks(d)'
      PROVE  (WalkFits(d) /\ NothingMissed(d) /\ TotalHolds(d) /\ NothingTwice(d))'
  <2>1. Walks(d) /\ pc'[d] \notin {"refused", "failed"}
    BY <1>1, <1>3 DEF Walks, GoesOn, Walking
  <2>2. WalkFits(d) /\ NothingMissed(d) /\ TotalHolds(d) /\ NothingTwice(d)
    BY <2>1 DEF CallWalks
  <2>3. \/ pc'[d] = pc[d]
        \/ pc[d] = "group" /\ pc'[d] = "member"
        \/ pc[d] = "member" /\ pc'[d] = "page"
    BY <2>1 DEF GoesOn, Walks
  <2>4. WalkFits(d)'
    BY <1>1, <2>2, <2>3 DEF WalkFits
  <2>5. NothingMissed(d)'
    BY <1>1, <2>1, <2>2 DEF NothingMissed, NotesMore, Walks
  <2>6. TotalHolds(d)'
    BY <2>1, <2>2, <2>3 DEF TotalHolds, NotesMore, WalkFits, Walks
  <2>7. NothingTwice(d)'
    BY <1>1, <1>2, <2>1, <2>2 DEF NothingTwice, NotesMore, Walks
  <2> QED BY <2>4, <2>5, <2>6, <2>7
<1>4. ASSUME Op(d)' = "list", pc'[d] = "answered"
      PROVE  MissesNothing(d)'
  <2>1. Op(d) = "list" /\ pc[d] = "answered"
    BY <1>1, <1>4 DEF GoesOn
  <2>2. track'[d] = track[d] /\ MissesNothing(d)
    BY <2>1 DEF Ends, CallWalks
  <2> QED BY <2>2 DEF MissesNothing
<1>5. Op(d) = "list" => pc'[d] \in Walking \cup {"refused", "failed", "answered"}
  BY DEF CallWalks, GoesOn, Walking
<1> QED BY <1>1, <1>3, <1>4, <1>5 DEF CallWalks

LEMMA QuietKeepsWalks ==
  ASSUME WalkInv, UNCHANGED <<records, request, walk>>,
         \A d \in Calls : GoesOn(d) /\ NotesMore(d),
         \A d \in Calls : pc[d] \in Ends => track'[d] = track[d]
  PROVE  WalkInv'
<1>1. \A d \in Calls : CallWalks(d)'
  BY WalkGoesOn DEF WalkInv
<1>2. WalkTypes' /\ EachOnce'
  BY DEF WalkInv, WalkTypes, EachOnce
<1> QED BY <1>1, <1>2 DEF WalkInv

\* A query of a call's own handler, other than of pages, is noted for that call.
LEMMA OneCallNotes ==
  ASSUME TypeOK, NEW c \in Calls,
         \/ UNCHANGED track
         \/ Arrive(c)
         \/ track' = [track EXCEPT ![c].since = {}] /\ Op(c) # "list"
  PROVE  /\ \A d \in Calls : NotesMore(d)
         /\ \A d \in Calls : d # c => track'[d] = track[d]
<1>0. \A d \in Calls : d # c => track'[d] = track[d]
  BY ArriveTypes DEF TypeOK
<1> SUFFICES ASSUME NEW d \in Calls, Op(d) = "list", d = c
             PROVE  NotesMore(d)
  BY <1>0 DEF NotesMore
<1>1. CASE UNCHANGED track
  BY <1>1 DEF NotesMore
<1>2. CASE Arrive(c)
  <2> DEFINE m == request[c].user \in Members
  <2>1. track'[d] = [track[d] EXCEPT !.member = m]
    BY <1>2 DEF Arrive, TypeOK
  <2>2. track[d] \in Tracks
    BY TypesOfOne
  <2> HIDE DEF m
  <2> QED BY <2>1, <2>2 DEF NotesMore, Tracks
<1> QED BY <1>1, <1>2

\* A list's own queries, other than of pages.
LEMMA QueriesKeepWalks ==
  ASSUME IInv, WalkInv, NEW c \in Calls,
         \/ LookUp(c) \/ FindRow(c) \/ FindMembers(c) \/ Authorize(c)
         \/ FindGroup(c) \/ FindRecord(c) \/ CheckExists(c) \/ CheckMembership(c)
         \/ CannotWrite(c)
  PROVE  WalkInv'
<1>0. TypeOK /\ CallInv(c)
  BY DEF IInv
<1>1. /\ UNCHANGED <<records, request, walk>>
      /\ \/ UNCHANGED track
         \/ Arrive(c)
         \/ track' = [track EXCEPT ![c].since = {}] /\ pc[c] = "row"
      /\ pc[c] \notin Ends
  BY DEF LookUp, FindRow, FindMembers, Authorize, FindGroup, FindRecord, CheckExists,
         CheckMembership, CannotWrite, Refuse, Reads, tables, Ends
<1>2. pc[c] = "row" => Op(c) # "list"
  BY <1>0 DEF CallInv, StageFits
<1>3. /\ \A d \in Calls : NotesMore(d)
      /\ \A d \in Calls : d # c => track'[d] = track[d]
  BY <1>0, <1>1, <1>2, OneCallNotes
<1>4. GoesOn(c)
  <2> SUFFICES ASSUME Op(c) = "list"
               PROVE  GoesOn(c)
    BY DEF GoesOn
  <2>1. pc[c] \in Walking
    BY <1>1 DEF WalkInv, CallWalks, Ends
  <2>2. (Authorize(c) /\ pc[c] = "member") \/ FindGroup(c)
    <3>1. pc[c] \notin {"cache", "row", "members", "hit", "miss", "record", "exists",
                       "membership", "write"}
      BY <2>1 DEF Walking
    <3> QED BY <3>1 DEF LookUp, FindRow, FindMembers, Authorize, FindRecord,
                        CheckExists, CheckMembership, CannotWrite
  <2>3. CASE Goto(c, "refused")
    BY <1>0, <2>3 DEF Goto, TypeOK, GoesOn
  <2>4. CASE Authorize(c) /\ pc[c] = "member"
    <3>1. Goto(c, "refused") \/ Goto(c, "page")
      BY <2>4 DEF Authorize, Refuse, Reads
    <3> QED BY <1>0, <2>3, <2>4, <3>1 DEF Goto, TypeOK, GoesOn
  <2>5. CASE FindGroup(c)
    <3>1. (Goto(c, "refused") \/ Goto(c, "member")) /\ pc[c] = "group"
      BY <2>5 DEF FindGroup, Refuse, Reads
    <3> QED BY <1>0, <2>3, <3>1 DEF Goto, TypeOK, GoesOn
  <2> QED BY <2>2, <2>4, <2>5
<1>5. \A d \in Calls : d # c => pc'[d] = pc[d]
  <2>1. \E stage : Goto(c, stage)
    BY DEF LookUp, FindRow, FindMembers, Authorize, FindGroup, FindRecord, CheckExists,
           CheckMembership, CannotWrite, Refuse, Reads
  <2> QED BY <1>0, <2>1 DEF Goto, TypeOK
<1> QED BY <1>1, <1>3, <1>4, <1>5, QuietKeepsWalks DEF GoesOn

LEMMA CacheKeepsWalks ==
  ASSUME IInv, WalkInv, NEW c \in Calls, Fill(c) \/ Invalidate(c) \/ Abort(c)
  PROVE  WalkInv'
<1>0. TypeOK /\ CallInv(c)
  BY DEF IInv
<1>1. /\ UNCHANGED <<records, request, walk, track>>
      /\ \/ Goto(c, "failed")
         \/ Goto(c, "answered") /\ pc[c] = "fill"
         \/ Goto(c, "done") /\ pc[c] = "invalidate"
  BY DEF Fill, Invalidate, Abort, tables
<1>2. GoesOn(c)
  <2>1. pc[c] \in {"fill", "invalidate"} => Op(c) # "list"
    BY DEF WalkInv, CallWalks, Walking
  <2> QED BY <1>0, <1>1, <2>1 DEF Goto, TypeOK, GoesOn
<1>3. \A d \in Calls : d # c => pc'[d] = pc[d]
  BY <1>0, <1>1 DEF Goto, TypeOK
<1> QED BY <1>1, <1>2, <1>3, QuietKeepsWalks DEF GoesOn, NotesMore

LEMMA WatchNotes ==
  ASSUME TypeOK, NEW kind \in Kinds, NEW present, Watch(kind, present)
  PROVE  \A d \in Calls :
           /\ NotesMore(d)
           /\ pc[d] \in Ends => track'[d] = track[d]
           /\ Walks(d) => /\ kind \in track'[d].since
                          /\ HalfRead(d) => track'[d].torn
<1> TAKE d \in Calls
<1>1. CASE Op(d) \notin Readers \/ pc[d] \in Ends
  <2>1. track'[d] = track[d]
    BY <1>1 DEF Watch
  <2>2. ~Walks(d)
    BY <1>1 DEF Walks, Walking, Ends, Readers
  <2> QED BY <2>1, <2>2 DEF NotesMore
<1>2. CASE Op(d) \in Readers /\ pc[d] \notin Ends
  <2> DEFINE m == track[d].member \/ request[d].user \in present
             s == track[d].since \cup {kind}
             t == track[d].torn \/ HalfRead(d)
  <2>1. track'[d] = [track[d] EXCEPT !.member = m, !.since = s, !.torn = t]
    BY <1>2 DEF Watch
  <2>2. track[d] \in Tracks
    BY TypesOfOne
  <2>3. track[d].since \subseteq s /\ kind \in s
    OBVIOUS
  <2>4. (track[d].torn => t) /\ (HalfRead(d) => t)
    OBVIOUS
  <2> HIDE DEF m, s, t
  <2>5. track'[d].since = s /\ track'[d].torn = t /\ track'[d].first = track[d].first
    BY <2>1, <2>2 DEF Tracks
  <2> QED BY <1>2, <2>3, <2>4, <2>5 DEF NotesMore
<1> QED BY <1>1, <1>2

LEMMA WritesKeepWalks ==
  ASSUME IInv, WalkInv, NEW c \in Calls, pc[c] = "write",
         Rename(c) \/ AddMember(c) \/ RemoveMember(c) \/ UpdateProfile(c),
         NEW stage, Goto(c, stage), UNCHANGED <<request, walk>>
  PROVE  WalkInv'
<1>0. TypeOK
  BY DEF IInv
<1>1. PICK kind \in Kinds : \E present : Watch(kind, present)
  BY DEF Rename, AddMember, RemoveMember, UpdateProfile, Kinds
<1>2. \A d \in Calls : NotesMore(d) /\ (pc[d] \in Ends => track'[d] = track[d])
  BY <1>0, <1>1, WatchNotes
<1>3. records' = records
  BY DEF Rename, AddMember, RemoveMember, UpdateProfile
<1>4. \A d \in Calls : GoesOn(d)
  <2>1. Op(c) # "list"
    BY DEF Rename, AddMember, RemoveMember, UpdateProfile
  <2>2. \A d \in Calls : d # c => pc'[d] = pc[d]
    BY <1>0 DEF Goto, TypeOK
  <2> QED BY <2>1, <2>2 DEF GoesOn
<1> QED BY <1>2, <1>3, <1>4, QuietKeepsWalks

----------------------------------------------------------------------------
(* Records that are added and removed *)

\* What is read of a sequence with e in front of the i-th element.
LEMMA Inserted ==
  ASSUME NEW s \in Seq(Records), NEW e \in Records, NEW i \in 1 .. Len(s) + 1
  PROVE  LET t == InsertAt(s, i, e)
         IN  /\ t \in Seq(Records) /\ Len(t) = Len(s) + 1
             /\ \A k \in 1 .. Len(t) :
                  t[k] = IF k < i THEN s[k] ELSE IF k = i THEN e ELSE s[k - 1]
<1> DEFINE front == SubSeq(s, 1, i - 1)
           back == SubSeq(s, i, Len(s))
           start == front \o <<e>>
<1>0. i \in Int /\ i - 1 \in Int /\ Len(s) \in Nat
      /\ \A k \in 1 .. Len(s) : s[k] \in Records
  OBVIOUS
<1>1. /\ front \in Seq(Records) /\ Len(front) = i - 1
      /\ \A k \in 1 .. i - 1 : front[k] = s[k]
  <2>1. /\ front \in Seq(Records)
        /\ Len(front) = IF 1 <= i - 1 THEN (i - 1) - 1 + 1 ELSE 0
        /\ \A k \in 1 .. (i - 1) - 1 + 1 : front[k] = s[1 + k - 1]
    BY <1>0, SubSeqProperties
  <2> HIDE DEF front
  <2> QED BY <2>1
<1>2. /\ back \in Seq(Records) /\ Len(back) = Len(s) - i + 1
      /\ \A k \in 1 .. Len(s) - i + 1 : back[k] = s[i + k - 1]
  <2>1. /\ back \in Seq(Records)
        /\ Len(back) = IF i <= Len(s) THEN Len(s) - i + 1 ELSE 0
        /\ \A k \in 1 .. Len(s) - i + 1 : back[k] = s[i + k - 1]
    BY <1>0, SubSeqProperties
  <2> HIDE DEF back
  <2> QED BY <2>1
<1> HIDE DEF front, back
<1>3. <<e>> \in Seq(Records) /\ Len(<<e>>) = 1 /\ <<e>>[1] = e
  OBVIOUS
<1>4. /\ start \in Seq(Records) /\ Len(start) = i
      /\ \A k \in 1 .. i : start[k] = IF k < i THEN s[k] ELSE e
  <2>1. /\ start \in Seq(Records) /\ Len(start) = Len(front) + Len(<<e>>)
        /\ \A k \in 1 .. Len(front) + Len(<<e>>) :
             start[k] = IF k <= Len(front) THEN front[k] ELSE <<e>>[k - Len(front)]
    BY <1>1, <1>3, ConcatProperties
  <2> HIDE DEF start
  <2> QED BY <1>1, <1>3, <2>1
<1> HIDE DEF start
<1> DEFINE t == start \o back
<1>5. /\ t \in Seq(Records) /\ Len(t) = Len(start) + Len(back)
      /\ \A k \in 1 .. Len(start) + Len(back) :
           t[k] = IF k <= Len(start) THEN start[k] ELSE back[k - Len(start)]
  BY <1>2, <1>4, ConcatProperties
<1>6. InsertAt(s, i, e) = t
  BY DEF InsertAt, start, front, back
<1> HIDE DEF t
<1>7. Len(t) = Len(s) + 1
  BY <1>2, <1>4, <1>5
<1>8. ASSUME NEW k \in 1 .. Len(t)
      PROVE  t[k] = IF k < i THEN s[k] ELSE IF k = i THEN e ELSE s[k - 1]
  <2>1. CASE k <= i
    BY <1>4, <1>5, <1>7, <1>8, <2>1
  <2>2. CASE k > i
    <3>1. k - i \in 1 .. Len(s) - i + 1 /\ t[k] = back[k - i]
      BY <1>2, <1>4, <1>5, <1>7, <1>8, <2>2
    <3>2. back[k - i] = s[i + (k - i) - 1] /\ i + (k - i) - 1 = k - 1
      BY <1>2, <3>1
    <3> QED BY <2>2, <3>1, <3>2
  <2> QED BY <2>1, <2>2
<1> QED BY <1>5, <1>6, <1>7, <1>8

\* What is read of a sequence without the i-th element.
LEMMA Removed ==
  ASSUME NEW s \in Seq(Records), NEW i \in 1 .. Len(s)
  PROVE  LET t == RemoveAt(s, i)
         IN  /\ t \in Seq(Records) /\ Len(t) = Len(s) - 1
             /\ \A k \in 1 .. Len(t) : t[k] = IF k < i THEN s[k] ELSE s[k + 1]
<1> DEFINE front == SubSeq(s, 1, i - 1)
           back == SubSeq(s, i + 1, Len(s))
           t == front \o back
<1>0. i \in Int /\ i - 1 \in Int /\ i + 1 \in Int /\ Len(s) \in Nat
      /\ \A k \in 1 .. Len(s) : s[k] \in Records
  OBVIOUS
<1>1. /\ front \in Seq(Records) /\ Len(front) = i - 1
      /\ \A k \in 1 .. i - 1 : front[k] = s[k]
  <2>1. /\ front \in Seq(Records)
        /\ Len(front) = IF 1 <= i - 1 THEN (i - 1) - 1 + 1 ELSE 0
        /\ \A k \in 1 .. (i - 1) - 1 + 1 : front[k] = s[1 + k - 1]
    BY <1>0, SubSeqProperties
  <2> HIDE DEF front
  <2> QED BY <2>1
<1>2. /\ back \in Seq(Records) /\ Len(back) = Len(s) - i
      /\ \A k \in 1 .. Len(s) - i : back[k] = s[i + k]
  <2>1. /\ back \in Seq(Records)
        /\ Len(back) = IF i + 1 <= Len(s) THEN Len(s) - (i + 1) + 1 ELSE 0
        /\ \A k \in 1 .. Len(s) - (i + 1) + 1 : back[k] = s[(i + 1) + k - 1]
    BY <1>0, SubSeqProperties
  <2> HIDE DEF back
  <2> QED BY <2>1
<1> HIDE DEF front, back
<1>3. /\ t \in Seq(Records) /\ Len(t) = Len(front) + Len(back)
      /\ \A k \in 1 .. Len(front) + Len(back) :
           t[k] = IF k <= Len(front) THEN front[k] ELSE back[k - Len(front)]
  BY <1>1, <1>2, ConcatProperties
<1>4. RemoveAt(s, i) = t
  BY DEF RemoveAt, front, back
<1> HIDE DEF t
<1>5. Len(t) = Len(s) - 1
  BY <1>1, <1>2, <1>3
<1>6. ASSUME NEW k \in 1 .. Len(t)
      PROVE  t[k] = IF k < i THEN s[k] ELSE s[k + 1]
  <2>1. CASE k < i
    BY <1>1, <1>3, <1>5, <1>6, <2>1
  <2>2. CASE k >= i
    <3>1. k - (i - 1) \in 1 .. Len(s) - i /\ t[k] = back[k - (i - 1)]
      BY <1>1, <1>2, <1>3, <1>5, <1>6, <2>2
    <3>2. back[k - (i - 1)] = s[i + (k - (i - 1))] /\ i + (k - (i - 1)) = k + 1
      BY <1>2, <3>1
    <3> QED BY <2>2, <3>1, <3>2
  <2> QED BY <2>1, <2>2
<1> QED BY <1>3, <1>4, <1>5, <1>6

LEMMA RangeHas ==
  ASSUME NEW s \in Seq(Records)
  PROVE  Range(s) = {s[i] : i \in 1 .. Len(s)}
BY RangeEquality

\* A new record is read once, and pushes others back.
LEMMA RecordAdds ==
  ASSUME TypeOK, EachOnce, NEW r \in Records, Record(r)
  PROVE  /\ EachOnce'
         /\ \A n \in Nat : Rest(n) \subseteq Rest(n)'
<1>0. records \in Seq(Records) /\ r \notin Range(records)
  BY DEF TypeOK, Record
<1>1. PICK i \in 1 .. Len(records) + 1 : records' = InsertAt(records, i, r)
  BY DEF Record
<1> DEFINE t == records'
<1>2. /\ t \in Seq(Records) /\ Len(t) = Len(records) + 1
      /\ \A k \in 1 .. Len(t) :
           t[k] = IF k < i THEN records[k] ELSE IF k = i THEN r ELSE records[k - 1]
  BY <1>0, <1>1, Inserted
<1>3. \A k \in 1 .. Len(records) : records[k] # r
  BY <1>0, RangeHas
<1>4. Len(records) \in Nat
  BY <1>0
<1> HIDE DEF t
<1>5. ASSUME NEW j \in 1 .. Len(t), NEW k \in 1 .. Len(t), t[j] = t[k]
      PROVE  j = k
  <2> DEFINE J == IF j < i THEN j ELSE j - 1
             K == IF k < i THEN k ELSE k - 1
  <2>1. /\ j # i => J \in 1 .. Len(records) /\ t[j] = records[J]
        /\ k # i => K \in 1 .. Len(records) /\ t[k] = records[K]
    BY <1>2, <1>4
  <2>2. (j = i => t[j] = r) /\ (k = i => t[k] = r)
    BY <1>2
  <2>3. j = i <=> k = i
    BY <1>3, <1>5, <2>1, <2>2
  <2>4. j # i => J = K
    BY <1>5, <2>1, <2>3 DEF EachOnce
  <2> QED BY <2>3, <2>4
<1>6. ASSUME NEW n \in Nat, NEW k \in n + 1 .. Len(records)
      PROVE  \E m \in n + 1 .. Len(t) : t[m] = records[k]
  <2>1. CASE k < i
    <3>1. k \in n + 1 .. Len(t) /\ t[k] = records[k]
      BY <1>2, <1>4, <2>1
    <3> QED BY <3>1
  <2>2. CASE k >= i
    <3>1. k + 1 \in n + 1 .. Len(t) /\ t[k + 1] = records[(k + 1) - 1] /\ (k + 1) - 1 = k
      BY <1>2, <1>4, <2>2
    <3> QED BY <3>1
  <2> QED BY <2>1, <2>2
<1>7. EachOnce'
  BY <1>5 DEF EachOnce, t
<1>8. ASSUME NEW n \in Nat, NEW x \in Rest(n)
      PROVE  x \in Rest(n)'
  <2>1. PICK k \in n + 1 .. Len(records) : x = records[k]
    BY DEF Rest
  <2>2. PICK m \in n + 1 .. Len(t) : t[m] = x
    BY <1>6, <2>1
  <2> QED BY <2>2 DEF Rest, t
<1> QED BY <1>7, <1>8

LEMMA EraseKeepsOrder ==
  ASSUME TypeOK, EachOnce, NEW r \in Records, Erase(r)
  PROVE  EachOnce'
<1>0. records \in Seq(Records) /\ Len(records) \in Nat
  BY DEF TypeOK
<1>1. PICK i \in 1 .. Len(records) : records' = RemoveAt(records, i)
  BY <1>0 DEF Erase
<1> DEFINE t == records'
<1>2. /\ Len(t) = Len(records) - 1
      /\ \A k \in 1 .. Len(t) : t[k] = IF k < i THEN records[k] ELSE records[k + 1]
  BY <1>0, <1>1, Removed
<1> HIDE DEF t
<1>3. ASSUME NEW j \in 1 .. Len(t), NEW k \in 1 .. Len(t), t[j] = t[k]
      PROVE  j = k
  <2> DEFINE J == IF j < i THEN j ELSE j + 1
             K == IF k < i THEN k ELSE k + 1
  <2>1. /\ J \in 1 .. Len(records) /\ t[j] = records[J]
        /\ K \in 1 .. Len(records) /\ t[k] = records[K]
    BY <1>0, <1>2
  <2>2. J = K
    BY <1>3, <2>1 DEF EachOnce
  <2> QED BY <2>2
<1> QED BY <1>3 DEF EachOnce, t

\* A client that is between its pages does not see the records change; they
\* are noted.
LEMMA RecordsMove ==
  ASSUME NEW d \in Calls, CallWalks(d), WalkTypes, UNCHANGED request,
         walk'[d] = walk[d], pc'[d] = pc[d], NotesMore(d),
         pc[d] \in Ends => track'[d] = track[d],
         NEW kind \in {"added", "erased"},
         Walks(d) => kind \in track'[d].since /\ (HalfRead(d) => track'[d].torn),
         kind = "added" => \A n \in Nat : Rest(n) \subseteq Rest(n)'
  PROVE  CallWalks(d)'
<1>1. /\ Op(d)' = Op(d) /\ Limit(d)' = Limit(d) /\ Skip(d)' = Skip(d)
      /\ Have(d)' = Have(d) /\ Began(d)' = Began(d) /\ Short(d)' = Short(d)
      /\ Walks(d)' = Walks(d)
  BY DEF Op, Limit, Skip, Have, Began, Short, Walks
<1>2. ASSUME Walks(d)
      PROVE  (WalkFits(d) /\ NothingMissed(d) /\ TotalHolds(d) /\ NothingTwice(d))'
  <2>1. WalkFits(d) /\ NothingMissed(d) /\ TotalHolds(d)
    BY <1>2 DEF CallWalks
  <2>2. /\ track'[d].first = track[d].first
        /\ track[d].since \subseteq track'[d].since
        /\ track[d].torn => track'[d].torn
    BY <1>2 DEF NotesMore, Walks
  <2>3. WalkFits(d)'
    BY <1>1, <2>1 DEF WalkFits
  <2>4. TotalHolds(d)'
    <3>1. pc[d] = "page" /\ walk[d].total # None => HalfRead(d)
      BY <2>1 DEF WalkFits, HalfRead
    <3> QED BY <1>2, <3>1 DEF TotalHolds
  <2>5. NothingTwice(d)'
    BY <1>2 DEF NothingTwice, Touched
  <2>6. NothingMissed(d)'
    <3>1. CASE kind = "erased"
      BY <1>2, <3>1 DEF NothingMissed
    <3>2. CASE kind = "added"
      <4>1. Len(Have(d)) \in Nat
        <5>1. Have(d) \in Seq(Records)
          BY WalkTyped DEF Have
        <5> QED BY <5>1
      <4>2. Rest(Len(Have(d))) \subseteq Rest(Len(Have(d)))'
        BY <1>1, <3>2, <4>1 DEF Rest
      <4> QED BY <1>1, <2>1, <2>2, <4>2 DEF NothingMissed
    <3> QED BY <3>1, <3>2
  <2> QED BY <2>3, <2>4, <2>5, <2>6
<1>3. ASSUME Op(d) = "list", pc[d] = "answered"
      PROVE  MissesNothing(d)'
  <2>1. track'[d] = track[d] /\ MissesNothing(d)
    BY <1>3 DEF Ends, CallWalks
  <2> QED BY <2>1 DEF MissesNothing
<1> QED BY <1>1, <1>2, <1>3 DEF CallWalks

LEMMA RecordsKeepWalks ==
  ASSUME IInv, WalkInv, NEW r \in Records, Record(r) \/ Erase(r)
  PROVE  WalkInv'
<1>0. TypeOK /\ EachOnce /\ WalkTypes
  BY DEF IInv, WalkInv
<1>1. PICK kind \in {"added", "erased"} :
        /\ Watch(kind, Members)
        /\ kind = "added" => Record(r)
  BY DEF Record, Erase
<1>2. UNCHANGED <<request, pc, walk>>
  BY DEF Record, Erase
<1>3. \A d \in Calls :
        /\ NotesMore(d)
        /\ pc[d] \in Ends => track'[d] = track[d]
        /\ Walks(d) => kind \in track'[d].since /\ (HalfRead(d) => track'[d].torn)
  BY <1>0, <1>1, WatchNotes DEF Kinds
<1>4. EachOnce'
  BY <1>0, RecordAdds, EraseKeepsOrder
<1>5. kind = "added" => \A n \in Nat : Rest(n) \subseteq Rest(n)'
  BY <1>0, <1>1, RecordAdds
<1>6. \A d \in Calls : CallWalks(d)'
  BY <1>0, <1>2, <1>3, <1>5, RecordsMove DEF WalkInv
<1>7. WalkTypes'
  BY <1>0, <1>2 DEF WalkTypes
<1> QED BY <1>4, <1>6, <1>7 DEF WalkInv

\* The group takes its records with it.
LEMMA DeleteKeepsWalks ==
  ASSUME IInv, WalkInv, NEW c \in Calls, DeleteGroup(c),
         NEW stage, Goto(c, stage), UNCHANGED <<request, walk>>
  PROVE  WalkInv'
<1>0. TypeOK /\ EachOnce /\ WalkTypes
  BY DEF IInv, WalkInv
<1>1. ASSUME NEW d \in Calls
      PROVE  /\ NotesMore(d)
             /\ pc[d] \in Ends => track'[d] = track[d]
             /\ Walks(d) => /\ "erased" \in track'[d].since
                            /\ HalfRead(d) => track'[d].torn
  <2>1. CASE Op(d) \notin Readers \/ pc[d] \in Ends
    <3>1. track'[d] = track[d]
      BY <2>1 DEF DeleteGroup
    <3>2. ~Walks(d)
      BY <2>1 DEF Walks, Walking, Ends, Readers
    <3> QED BY <3>1, <3>2 DEF NotesMore
  <2>2. CASE Op(d) \in Readers /\ pc[d] \notin Ends
    <3> DEFINE s == track[d].since \cup {"changed", "erased"}
               t == track[d].torn \/ HalfRead(d)
    <3>1. track'[d] = [track[d] EXCEPT !.since = s, !.torn = t]
      BY <2>2 DEF DeleteGroup
    <3>2. track[d] \in Tracks
      BY <1>0, TypesOfOne
    <3>3. track[d].since \subseteq s /\ "erased" \in s
      OBVIOUS
    <3>4. (track[d].torn => t) /\ (HalfRead(d) => t)
      OBVIOUS
    <3> HIDE DEF s, t
    <3>5. track'[d].since = s /\ track'[d].torn = t /\ track'[d].first = track[d].first
      BY <3>1, <3>2 DEF Tracks
    <3> QED BY <2>2, <3>3, <3>4, <3>5 DEF NotesMore
  <2> QED BY <2>1, <2>2
<1>2. records' = <<>> /\ Op(c) # "list"
  BY DEF DeleteGroup
<1>3. ASSUME NEW d \in Calls
      PROVE  CallWalks(d)'
  <2>1. CASE d = c
    BY <1>2, <2>1 DEF CallWalks, Walks, Op
  <2>2. CASE d # c
    <3>1. pc'[d] = pc[d] /\ walk'[d] = walk[d]
      BY <1>0, <2>2 DEF Goto, TypeOK
    <3>2. CallWalks(d) /\ "erased" \in {"added", "erased"} /\ "erased" # "added"
      BY DEF WalkInv
    <3> QED BY <1>0, <1>1, <3>1, <3>2, RecordsMove
  <2> QED BY <2>1, <2>2
<1>4. EachOnce' /\ WalkTypes'
  BY <1>0, <1>2 DEF EachOnce, WalkTypes
<1> QED BY <1>3, <1>4 DEF WalkInv

LEMMA ChangeKeepsWalks ==
  ASSUME IInv, WalkInv, NEW c \in Calls, Write(c) \/ LoseCommit(c)
  PROVE  WalkInv'
<1>1. /\ pc[c] = "write" /\ Commits(c) /\ UNCHANGED <<request, walk>>
      /\ \E stage : Goto(c, stage)
  BY DEF Write, LoseCommit
<1> QED BY <1>1, WritesKeepWalks, DeleteKeepsWalks DEF Commits

----------------------------------------------------------------------------
(* Pages *)

LEMMA NothingRests ==
  ASSUME NEW n \in Nat, records \in Seq(Records), n >= Len(records)
  PROVE  Rest(n) = {}
BY DEF Rest

LEMMA AllRests ==
  ASSUME records \in Seq(Records)
  PROVE  Rest(0) = Range(records)
BY RangeHas DEF Rest

\* Where c may be when it asks for a page or its total.
LEMMA AtPage ==
  ASSUME IInv, WalkInv, NEW c \in Calls, pc[c] \in {"page", "shown"}
  PROVE  /\ Op(c) = "list" /\ Walks(c) /\ request[c] \in Requests
         /\ Limit(c) \in (Nat \ {0}) \cup {None} /\ None \notin Nat \cup Seq(Records)
         /\ WalkFits(c) /\ NothingMissed(c) /\ TotalHolds(c) /\ NothingTwice(c)
         /\ records \in Seq(Records) /\ Len(records) \in Nat /\ EachOnce
         /\ walk[c].page \in Nat \ {0} /\ walk[c].got \in Seq(Records)
         /\ walk[c].items \in Seq(Records) \cup {None}
         /\ walk[c].total \in Nat \cup {None}
         /\ Have(c) \in Seq(Records) /\ Len(Have(c)) \in Nat
<1>1. Op(c) = "list" /\ Walks(c) /\ request[c] \in Requests
  BY DEF IInv, CallInv, StageFits, Walks, Walking, TypeOK
<1>2. Limit(c) \in (Nat \ {0}) \cup {None} /\ None \notin Nat \cup Seq(Records)
  BY <1>1, ReadsAssumption DEF Limit, Op
<1>3. WalkFits(c) /\ NothingMissed(c) /\ TotalHolds(c) /\ NothingTwice(c)
  BY <1>1 DEF WalkInv, CallWalks
<1>4. records \in Seq(Records) /\ Len(records) \in Nat /\ EachOnce
  BY DEF IInv, TypeOK, WalkInv
<1>5. /\ walk[c].page \in Nat \ {0} /\ walk[c].got \in Seq(Records)
      /\ walk[c].items \in Seq(Records) \cup {None}
      /\ walk[c].total \in Nat \cup {None}
  BY WalkTyped DEF WalkInv
<1>6. Have(c) \in Seq(Records)
  BY <1>5 DEF Have
<1>7. Len(Have(c)) \in Nat
  BY <1>6
<1> QED BY <1>1, <1>2, <1>3, <1>4, <1>5, <1>6, <1>7

\* A page has the records that follow those of the pages before.
LEMMA PageFollows ==
  ASSUME IInv, WalkInv, NEW c \in Calls, pc[c] = "page"
  PROVE  LET p == PageOf(c)
             n == Len(walk[c].got)
         IN  /\ p \in Seq(Records)
             /\ \A k \in 1 .. Len(p) : n + k \in 1 .. Len(records) /\ p[k] = records[n + k]
             /\ Limit(c) = None \/ Len(p) < Limit(c) => n + Len(p) >= Len(records)
             /\ Limit(c) # None => Len(p) <= Limit(c)
<1> DEFINE p == PageOf(c)
           n == Len(walk[c].got)
           m == Len(records)
<1>0. /\ records \in Seq(Records) /\ m \in Nat /\ n \in Nat
      /\ Limit(c) \in (Nat \ {0}) \cup {None}
      /\ Limit(c) = None => n = 0
      /\ Limit(c) # None => n = Skip(c)
  <2>1. walk[c].got \in Seq(Records) /\ WalkFits(c) /\ records \in Seq(Records)
        /\ Limit(c) \in (Nat \ {0}) \cup {None}
    BY AtPage
  <2>2. Limit(c) = None => walk[c].got = <<>>
    BY <2>1 DEF WalkFits
  <2>3. Limit(c) # None => n = Skip(c)
    BY <2>1 DEF WalkFits
  <2> QED BY <2>1, <2>2, <2>3
<1>1. CASE Limit(c) = None
  <2>1. p = records
    BY <1>1 DEF PageOf, Limit
  <2> HIDE DEF p, n
  <2>2. n = 0
    BY <1>0, <1>1
  <2> QED BY <1>0, <1>1, <2>1, <2>2 DEF p, n
<1>2. CASE Limit(c) # None
  <2> DEFINE l == Limit(c)
             last == IF n + l < m THEN n + l ELSE m
  <2>1. p = SubSeq(records, n + 1, last)
    BY <1>0, <1>2 DEF PageOf, Limit
  <2>2. l \in Nat \ {0} /\ last \in Int /\ n + 1 \in Int /\ last <= m /\ last <= n + l
    BY <1>0, <1>2
  <2>3. \A i \in n + 1 .. last : records[i] \in Records
    BY <1>0, <2>2
  <2>4. /\ p \in Seq(Records)
        /\ Len(p) = IF n + 1 <= last THEN last - (n + 1) + 1 ELSE 0
        /\ \A k \in 1 .. last - (n + 1) + 1 : p[k] = records[(n + 1) + k - 1]
    <3> HIDE DEF p, n, m, l, last
    <3>1. LET q == SubSeq(records, n + 1, last)
          IN  /\ q \in Seq(Records)
              /\ Len(q) = IF n + 1 <= last THEN last - (n + 1) + 1 ELSE 0
              /\ \A k \in 1 .. last - (n + 1) + 1 : q[k] = records[(n + 1) + k - 1]
      BY <2>2, <2>3, SubSeqProperties
    <3> QED BY <2>1, <3>1
  <2>5. last = n + l \/ last = m
    OBVIOUS
  <2> HIDE DEF p, n, m, l, last
  <2>6. \A k \in 1 .. Len(p) : n + k \in 1 .. m /\ p[k] = records[n + k]
    <3> TAKE k \in 1 .. Len(p)
    <3>1. k \in 1 .. last - (n + 1) + 1 /\ (n + 1) + k - 1 = n + k
      BY <1>0, <2>2, <2>4
    <3>2. n + k \in 1 .. m
      BY <1>0, <2>2, <3>1
    <3>3. p[k] = records[(n + 1) + k - 1]
      BY <2>4, <3>1
    <3> QED BY <3>1, <3>2, <3>3
  <2>7. Len(p) < l => n + Len(p) >= m
    BY <1>0, <2>2, <2>4, <2>5
  <2>8. Len(p) <= l
    BY <1>0, <2>2, <2>4
  <2> QED BY <1>2, <2>4, <2>6, <2>7, <2>8 DEF p, n, m, l
<1> QED BY <1>1, <1>2

\* What the first query of a walk notes, and later ones leave.
LEMMA WatchedRecords ==
  ASSUME IInv, WalkInv, NEW c \in Calls, pc[c] = "page", WatchRecords(c)
  PROVE  /\ \A d \in Calls : d # c => track'[d] = track[d]
         /\ track'[c].torn = track[c].torn
         /\ "erased" \notin track'[c].since =>
              /\ track'[c].first \subseteq Range(Have(c)) \cup Rest(Len(Have(c)))
              /\ Short(c) => track'[c].first \subseteq Range(Have(c))
         /\ track'[c].since \cap {"added", "erased"} = {} =>
              /\ track'[c].first = Range(records)
              /\ Begins(Have(c), records)
              /\ Short(c) => Len(Have(c)) = Len(records)
              /\ walk[c].total # None => walk[c].total = Len(records)
<1>0. /\ WalkFits(c) /\ NothingMissed(c) /\ NothingTwice(c)
      /\ records \in Seq(Records) /\ Len(records) \in Nat
      /\ walk[c].page \in Nat \ {0} /\ walk[c].got \in Seq(Records)
      /\ Limit(c) \in (Nat \ {0}) \cup {None}
  BY AtPage
<1>1. CASE walk[c].page = 1 /\ ~HalfRead(c)
  <2> DEFINE row == [track[c] EXCEPT !.since = {}, !.first = Range(records)]
  <2>1. track[c] \in Tracks
    BY TypesOfOne DEF IInv
  <2>2. row.since = {} /\ row.first = Range(records) /\ row.torn = track[c].torn
    BY <2>1 DEF Tracks
  <2>3. track' = [track EXCEPT ![c] = row]
    BY <1>1 DEF WatchRecords
  <2> HIDE DEF row
  <2>4. track'[c] = row /\ \A d \in Calls : d # c => track'[d] = track[d]
    BY <2>3 DEF IInv, TypeOK
  <2>5. walk[c].items = None /\ walk[c].total = None
    BY <1>0, <1>1 DEF WalkFits, HalfRead
  <2>6. walk[c].got = <<>>
    <3>1. CASE Limit(c) = None
      BY <1>0, <3>1 DEF WalkFits
    <3>2. CASE Limit(c) # None
      <4>1. Len(walk[c].got) = (1 - 1) * Limit(c) /\ Limit(c) \in Nat
        BY <1>0, <1>1, <3>2 DEF WalkFits, Skip, Limit
      <4>2. Len(walk[c].got) = 0
        BY <4>1
      <4> QED BY <1>0, <4>2
    <3> QED BY <3>1, <3>2
  <2>7. Have(c) = <<>> /\ ~Short(c)
    BY <2>5, <2>6 DEF Have, Short
  <2>8. Rest(Len(Have(c))) = Range(records)
    BY <1>0, <2>7, AllRests
  <2>9. Begins(Have(c), records)
    BY <1>0, <2>7 DEF Begins
  <2> QED BY <2>2, <2>4, <2>5, <2>7, <2>8, <2>9
<1>2. CASE ~(walk[c].page = 1 /\ ~HalfRead(c))
  <2>1. track' = track
    BY <1>2 DEF WatchRecords
  <2>2. Began(c)
    BY <1>0, <1>2 DEF Began, HalfRead
  <2> QED BY <1>0, <2>1, <2>2 DEF NothingMissed, NothingTwice, Touched
<1> QED BY <1>1, <1>2

\* A step of a walk does not concern the other calls.
LEMMA WalkStep ==
  ASSUME WalkInv, TypeOK, NEW c \in Calls, NEW stage, Goto(c, stage),
         UNCHANGED <<records, request>>,
         NEW w \in [page : Nat \ {0}, items : Seq(Records) \cup {None},
                    total : Nat \cup {None}, got : Seq(Records)],
         walk' = [walk EXCEPT ![c] = w],
         \A d \in Calls : d # c => track'[d] = track[d],
         (walk'[c] = w /\ pc'[c] = stage) => CallWalks(c)'
  PROVE  WalkInv'
<1>1. walk'[c] = w /\ pc'[c] = stage /\ WalkTypes'
  BY DEF WalkInv, WalkTypes, Goto, TypeOK
<1>2. \A d \in Calls : d # c => walk'[d] = walk[d] /\ pc'[d] = pc[d]
  BY DEF WalkInv, WalkTypes, Goto, TypeOK
<1>3. ASSUME NEW d \in Calls, d # c
      PROVE  CallWalks(d)'
  <2>1. GoesOn(d) /\ NotesMore(d) /\ track'[d] = track[d] /\ CallWalks(d)
    BY <1>2, <1>3 DEF GoesOn, NotesMore, WalkInv
  <2> QED BY <1>2, <1>3, <2>1, WalkGoesOn
<1>4. EachOnce'
  BY DEF WalkInv, EachOnce
<1> QED BY <1>1, <1>3, <1>4 DEF WalkInv

LEMMA FindPageKeepsWalks ==
  ASSUME IInv, WalkInv, NEW c \in Calls, FindPage(c)
  PROVE  WalkInv'
<1> DEFINE p == PageOf(c)
           n == Len(walk[c].got)
           w == [walk[c] EXCEPT !.items = p]
           stage == IF walk[c].total = None /\ Limit(c) # None THEN "page" ELSE "shown"
<1>1. /\ pc[c] = "page" /\ walk[c].items = None /\ WatchRecords(c)
      /\ walk' = [walk EXCEPT ![c] = w]
      /\ Goto(c, stage) /\ UNCHANGED <<records, request>>
  <2>1. Goto(c, stage) /\ UNCHANGED <<records, request>>
    BY DEF FindPage, Reads, tables, Limit
  <2>2. walk' = [walk EXCEPT ![c] = w]
    BY DEF FindPage
  <2> QED BY <2>1, <2>2 DEF FindPage
<1>2. /\ Op(c) = "list" /\ WalkFits(c) /\ TotalHolds(c)
      /\ Limit(c) \in (Nat \ {0}) \cup {None} /\ None \notin Nat \cup Seq(Records)
      /\ records \in Seq(Records) /\ Len(records) \in Nat
      /\ walk[c].got \in Seq(Records) /\ n \in Nat
  <2>1. walk[c].got \in Seq(Records)
    BY <1>1, AtPage
  <2> QED BY <1>1, <2>1, AtPage
<1>3. /\ p \in Seq(Records) /\ Len(p) \in Nat
      /\ \A k \in 1 .. Len(p) : n + k \in 1 .. Len(records) /\ p[k] = records[n + k]
      /\ (Limit(c) = None \/ Len(p) < Limit(c)) => n + Len(p) >= Len(records)
      /\ Limit(c) # None => Len(p) <= Limit(c)
  <2>1. p \in Seq(Records)
    BY <1>1, PageFollows
  <2> QED BY <1>1, <2>1, PageFollows
<1> HIDE DEF p
<1>4. /\ w \in [page : Nat \ {0}, items : Seq(Records) \cup {None},
                total : Nat \cup {None}, got : Seq(Records)]
      /\ w.page = walk[c].page /\ w.items = p /\ w.total = walk[c].total
      /\ w.got = walk[c].got
  BY <1>3 DEF WalkInv, WalkTypes
<1> HIDE DEF w
<1>5. /\ stage \in {"page", "shown"}
      /\ stage = "page" => walk[c].total = None /\ Limit(c) # None
      /\ stage = "shown" => walk[c].total # None \/ Limit(c) = None
  OBVIOUS
<1> HIDE DEF stage, n
<1>6. /\ \A d \in Calls : d # c => track'[d] = track[d]
      /\ track'[c].torn = track[c].torn
      /\ "erased" \notin track'[c].since =>
           track'[c].first \subseteq Range(walk[c].got) \cup Rest(n)
      /\ track'[c].since \cap {"added", "erased"} = {} =>
           /\ track'[c].first = Range(records)
           /\ Begins(walk[c].got, records)
           /\ walk[c].total # None => walk[c].total = Len(records)
  BY <1>1, WatchedRecords DEF Have, n
<1>7. Rest(n) \subseteq Range(p) \cup Rest(n + Len(p))
  <2> SUFFICES ASSUME NEW i \in n + 1 .. Len(records), i \notin n + Len(p) + 1 .. Len(records)
               PROVE  records[i] \in Range(p)
    BY <1>2 DEF Rest
  <2>1. i - n \in 1 .. Len(p) /\ n + (i - n) = i
    BY <1>2, <1>3
  <2>2. p[i - n] = records[i]
    BY <1>3, <2>1
  <2> QED BY <1>3, <2>1, <2>2, RangeHas
<1>8. n + Len(p) >= Len(records) => Rest(n + Len(p)) = {}
  BY <1>2, <1>3, NothingRests
<1>9. ASSUME walk'[c] = w, pc'[c] = stage
      PROVE  CallWalks(c)'
  <2>1. /\ Op(c)' = Op(c) /\ Limit(c)' = Limit(c) /\ Skip(c)' = Skip(c)
        /\ \A k : Rest(k)' = Rest(k)
    BY <1>1, <1>4, <1>9 DEF Op, Limit, Skip, Rest
  <2> DEFINE h == walk[c].got \o p
  <2>2. Have(c)' = h
    BY <1>2, <1>3, <1>4, <1>9 DEF Have
  <2>3. /\ h \in Seq(Records) /\ Len(h) = n + Len(p)
        /\ \A k \in 1 .. n + Len(p) :
             h[k] = IF k <= n THEN walk[c].got[k] ELSE p[k - n]
        /\ Range(h) = Range(walk[c].got) \cup Range(p)
    BY <1>2, <1>3, ConcatProperties, RangeConcatenation DEF n
  <2> HIDE DEF h
  <2>4. Short(c)' => n + Len(p) >= Len(records)
    BY <1>3, <1>4, <1>9, <2>1 DEF Short
  <2>5. WalkFits(c)'
    BY <1>2, <1>3, <1>4, <1>5, <1>9, <2>1 DEF WalkFits
  <2>6. TotalHolds(c)'
    BY <1>4, <1>5, <1>9 DEF TotalHolds
  <2>7. NothingMissed(c)'
    <3> SUFFICES ASSUME "erased" \notin track'[c].since
                 PROVE  /\ track'[c].first \subseteq Range(h) \cup Rest(Len(h))
                        /\ Short(c)' => track'[c].first \subseteq Range(h)
                        /\ (/\ w.total # None /\ ~track[c].torn
                            /\ Len(h) >= w.total) => track'[c].first \subseteq Range(h)
      BY <1>6, <1>9, <2>1, <2>2 DEF NothingMissed
    <3>1. track'[c].first \subseteq Range(h) \cup Rest(n + Len(p))
      BY <1>6, <1>7, <2>3
    <3>2. n + Len(p) >= Len(records) => track'[c].first \subseteq Range(h)
      BY <1>8, <3>1
    <3>3. w.total # None /\ ~track[c].torn => w.total = Len(records)
      BY <1>1, <1>2, <1>4 DEF TotalHolds
    <3> QED BY <2>3, <2>4, <3>1, <3>2, <3>3
  <2>8. NothingTwice(c)'
    <3> SUFFICES ASSUME track'[c].since \cap {"added", "erased"} = {}
                 PROVE  /\ track'[c].first = Range(records)
                        /\ Begins(h, records)
                        /\ Short(c)' => Len(h) = Len(records)
                        /\ w.total # None => w.total = Len(records)
      BY <1>1, <1>9, <2>2 DEF NothingTwice, Touched
    <3>1. n <= Len(records) /\ \A k \in 1 .. n : walk[c].got[k] = records[k]
      BY <1>6 DEF Begins, n
    <3>2. n + Len(p) <= Len(records)
      <4>1. CASE Len(p) = 0
        BY <3>1, <4>1, <1>2
      <4>2. CASE Len(p) # 0
        <5>1. Len(p) \in 1 .. Len(p)
          BY <1>3, <4>2
        <5> QED BY <1>3, <5>1
      <4> QED BY <4>1, <4>2
    <3>3. ASSUME NEW k \in 1 .. Len(h)
          PROVE  h[k] = records[k]
      <4>1. CASE k <= n
        BY <1>2, <2>3, <3>1, <4>1
      <4>2. CASE k > n
        <5>1. k - n \in 1 .. Len(p) /\ n + (k - n) = k /\ h[k] = p[k - n]
          BY <1>2, <1>3, <2>3, <4>2
        <5> QED BY <1>3, <5>1
      <4> QED BY <1>2, <4>1, <4>2
    <3>4. Begins(h, records)
      BY <2>3, <3>2, <3>3 DEF Begins
    <3>5. Short(c)' => Len(h) = Len(records)
      BY <1>2, <1>3, <2>3, <2>4, <3>2
    <3> QED BY <1>4, <1>6, <3>4, <3>5
  <2>9. Walks(c)' /\ pc'[c] \in Walking /\ pc'[c] # "answered"
    BY <1>2, <1>5, <1>9, <2>1 DEF Walks, Walking
  <2> QED BY <2>5, <2>6, <2>7, <2>8, <2>9 DEF CallWalks
<1>10. TypeOK
  BY DEF IInv
<1>11. /\ w \in [page : Nat \ {0}, items : Seq(Records) \cup {None},
                 total : Nat \cup {None}, got : Seq(Records)]
       /\ \A d \in Calls : d # c => track'[d] = track[d]
  BY <1>4, <1>6
<1> QED BY <1>1, <1>9, <1>10, <1>11, WalkStep

LEMMA CountKeepsWalks ==
  ASSUME IInv, WalkInv, NEW c \in Calls, Count(c)
  PROVE  WalkInv'
<1> DEFINE m == Len(records)
           w == [walk[c] EXCEPT !.total = m]
           stage == IF walk[c].items = None THEN "page" ELSE "shown"
<1>1. /\ pc[c] = "page" /\ walk[c].total = None /\ Limit(c) # None /\ WatchRecords(c)
      /\ walk' = [walk EXCEPT ![c] = w]
      /\ Goto(c, stage) /\ UNCHANGED <<records, request>>
  <2>1. Goto(c, stage) /\ UNCHANGED <<records, request>>
    BY DEF Count, Reads, tables
  <2>2. walk' = [walk EXCEPT ![c] = w]
    BY DEF Count
  <2> QED BY <2>1, <2>2 DEF Count, Limit
<1>2. /\ Op(c) = "list" /\ WalkFits(c)
      /\ None \notin Nat \cup Seq(Records)
      /\ records \in Seq(Records) /\ m \in Nat
      /\ Have(c) \in Seq(Records) /\ Len(Have(c)) \in Nat
  BY <1>1, AtPage
<1>3. m = Len(records)
  OBVIOUS
<1> HIDE DEF m
<1>4. /\ w \in [page : Nat \ {0}, items : Seq(Records) \cup {None},
                total : Nat \cup {None}, got : Seq(Records)]
      /\ w.page = walk[c].page /\ w.items = walk[c].items /\ w.total = m
      /\ w.got = walk[c].got
  BY <1>2 DEF WalkInv, WalkTypes
<1> HIDE DEF w
<1>5. /\ stage \in {"page", "shown"}
      /\ stage = "page" => walk[c].items = None
      /\ stage = "shown" => walk[c].items # None
  OBVIOUS
<1> HIDE DEF stage
<1>6. /\ \A d \in Calls : d # c => track'[d] = track[d]
      /\ track'[c].torn = track[c].torn
      /\ "erased" \notin track'[c].since =>
           /\ track'[c].first \subseteq Range(Have(c)) \cup Rest(Len(Have(c)))
           /\ Short(c) => track'[c].first \subseteq Range(Have(c))
      /\ track'[c].since \cap {"added", "erased"} = {} =>
           /\ track'[c].first = Range(records)
           /\ Begins(Have(c), records)
           /\ Short(c) => Len(Have(c)) = Len(records)
  BY <1>1, WatchedRecords
<1>7. Len(Have(c)) >= m => Rest(Len(Have(c))) = {}
  BY <1>2, <1>3, NothingRests
<1>8. ASSUME walk'[c] = w, pc'[c] = stage
      PROVE  CallWalks(c)'
  <2>1. /\ Op(c)' = Op(c) /\ Limit(c)' = Limit(c) /\ Skip(c)' = Skip(c)
        /\ Have(c)' = Have(c) /\ Short(c)' = Short(c)
        /\ \A k : Rest(k)' = Rest(k)
    BY <1>1, <1>4, <1>8 DEF Op, Limit, Skip, Rest, Have, Short
  <2>2. WalkFits(c)'
    BY <1>1, <1>2, <1>4, <1>5, <1>8, <2>1 DEF WalkFits
  <2>3. TotalHolds(c)'
    BY <1>1, <1>3, <1>4, <1>8 DEF TotalHolds
  <2>4. NothingMissed(c)'
    BY <1>4, <1>6, <1>7, <1>8, <2>1 DEF NothingMissed
  <2>5. NothingTwice(c)'
    BY <1>1, <1>3, <1>4, <1>6, <1>8, <2>1 DEF NothingTwice, Touched
  <2>6. Walks(c)' /\ pc'[c] \in Walking /\ pc'[c] # "answered"
    BY <1>2, <1>5, <1>8, <2>1 DEF Walks, Walking
  <2> QED BY <2>2, <2>3, <2>4, <2>5, <2>6 DEF CallWalks
<1>9. TypeOK
  BY DEF IInv
<1>11. /\ w \in [page : Nat \ {0}, items : Seq(Records) \cup {None},
                 total : Nat \cup {None}, got : Seq(Records)]
       /\ \A d \in Calls : d # c => track'[d] = track[d]
  BY <1>4, <1>6
<1> QED BY <1>1, <1>8, <1>9, <1>11, WalkStep

\* A sequence that has each element once has as many as it is long.
LEMMA EachCounts ==
  ASSUME records \in Seq(Records), EachOnce
  PROVE  Len(records) = Cardinality(Range(records))
<1> DEFINE S == 1 .. Len(records)
<1>1. /\ Len(records) \in Nat /\ S = DOMAIN records
      /\ Range(records) = {records[i] : i \in S}
  BY RangeHas
<1>2. IsFiniteSet(S) /\ Cardinality(S) = Len(records)
  BY <1>1, FS_Interval
<1> HIDE DEF S
<1>3. records \in [S -> Range(records)]
  BY <1>1
<1>4. \A i, j \in S : records[i] = records[j] => i = j
  BY DEF EachOnce, S
<1>5. \A r \in Range(records) : \E i \in S : records[i] = r
  BY <1>1
<1>6. records \in Bijection(S, Range(records))
  BY <1>3, <1>4, <1>5 DEF Bijection, Injection, Surjection, IsInjective
<1>7. ExistsBijection(S, Range(records))
  BY <1>6 DEF ExistsBijection
<1> QED BY <1>2, <1>7, FS_Bijection

\* What agrees with all records is those.
LEMMA AllHad ==
  ASSUME NEW s \in Seq(Records), records \in Seq(Records),
         Begins(s, records), Len(s) = Len(records)
  PROVE  s = records
<1>1. \A i \in 1 .. Len(s) : s[i] = records[i]
  BY DEF Begins
<1>2. /\ s = [i \in 1 .. Len(s) |-> s[i]]
      /\ records = [i \in 1 .. Len(records) |-> records[i]]
  OBVIOUS
<1>3. [i \in 1 .. Len(s) |-> s[i]] = [i \in 1 .. Len(records) |-> records[i]]
  BY <1>1
<1> QED BY <1>2, <1>3

LEMMA SkipsAPage ==
  ASSUME NEW p \in Nat, NEW l \in Nat, NEW q, q = p + 1
  PROVE  (q - 1) * l = (p - 1) * l + l
<1>1. q - 1 = (p - 1) + 1
  OBVIOUS
<1>2. \A x \in Int : (x + 1) * l = x * l + l
  OBVIOUS
<1> QED BY <1>1, <1>2

\* The last page ends the walk, any other is followed by the next.
LEMMA TakePageKeepsWalks ==
  ASSUME IInv, WalkInv, NEW c \in Calls, TakePage(c)
  PROVE  WalkInv'
<1> DEFINE h == walk[c].got \o walk[c].items
           Stops == \/ Limit(c) = None \/ Len(walk[c].items) < Limit(c)
                    \/ Len(h) >= walk[c].total
           stop == [NoWalk EXCEPT !.got = h]
           next == [NoWalk EXCEPT !.page = walk[c].page + 1, !.got = h]
           w == IF Stops THEN stop ELSE next
           stage == IF Stops THEN "answered" ELSE "group"
<1>1. /\ pc[c] = "shown" /\ UNCHANGED track
      /\ walk' = [walk EXCEPT ![c] = w]
      /\ Goto(c, stage) /\ UNCHANGED <<records, request>>
  <2>1. pc[c] = "shown" /\ UNCHANGED track
    BY DEF TakePage
  <2>2. CASE Stops
    <3>1. walk' = [walk EXCEPT ![c] = stop] /\ Reads(c, "answered")
      BY <2>2 DEF TakePage, Limit
    <3> QED BY <2>1, <2>2, <3>1 DEF Reads, tables
  <2>3. CASE ~Stops
    <3>1. walk' = [walk EXCEPT ![c] = next] /\ Reads(c, "group")
      BY <2>3 DEF TakePage, Limit
    <3> QED BY <2>1, <2>3, <3>1 DEF Reads, tables
  <2> QED BY <2>2, <2>3
<1>2. /\ Op(c) = "list" /\ WalkFits(c) /\ NothingMissed(c) /\ NothingTwice(c)
      /\ Limit(c) \in (Nat \ {0}) \cup {None} /\ None \notin Nat \cup Seq(Records)
      /\ records \in Seq(Records) /\ Len(records) \in Nat /\ EachOnce
      /\ walk[c].page \in Nat \ {0} /\ walk[c].got \in Seq(Records)
      /\ walk[c].items \in Seq(Records) \cup {None}
      /\ walk[c].total \in Nat \cup {None}
      /\ Have(c) \in Seq(Records) /\ Len(Have(c)) \in Nat
  BY <1>1, AtPage
<1>3. walk[c].items # None /\ (walk[c].total # None \/ Limit(c) = None)
  BY <1>1, <1>2 DEF WalkFits
<1>4. /\ Have(c) = h /\ Began(c) /\ h \in Seq(Records)
      /\ Len(h) = Len(walk[c].got) + Len(walk[c].items)
      /\ walk[c].items \in Seq(Records) /\ Len(walk[c].items) \in Nat
      /\ Len(walk[c].got) \in Nat /\ Len(h) \in Nat
  <2>1. Have(c) = h /\ Began(c)
    BY <1>3 DEF Have, Began
  <2>2. walk[c].items \in Seq(Records)
    BY <1>2, <1>3
  <2>3. Len(h) = Len(walk[c].got) + Len(walk[c].items)
    BY <1>2, <2>2, ConcatProperties
  <2>4. Len(walk[c].items) \in Nat /\ Len(walk[c].got) \in Nat
    BY <1>2, <2>2
  <2>5. h \in Seq(Records) /\ Len(h) \in Nat
    <3> HIDE DEF h
    <3> QED BY <1>2, <2>1
  <2> QED BY <2>1, <2>2, <2>3, <2>4, <2>5
<1>5. Stops <=> \/ Short(c)
                \/ walk[c].total # None /\ Len(h) >= walk[c].total
  <2>1. Short(c) <=> Limit(c) = None \/ Len(walk[c].items) < Limit(c)
    BY <1>3 DEF Short
  <2> QED BY <1>3, <2>1
<1>6. /\ stop.page = 1 /\ stop.items = None /\ stop.total = None /\ stop.got = h
      /\ next.page = walk[c].page + 1 /\ next.items = None /\ next.total = None
      /\ next.got = h
      /\ stop \in [page : Nat \ {0}, items : Seq(Records) \cup {None},
                   total : Nat \cup {None}, got : Seq(Records)]
      /\ next \in [page : Nat \ {0}, items : Seq(Records) \cup {None},
                   total : Nat \cup {None}, got : Seq(Records)]
  <2> HIDE DEF h
  <2> DEFINE n == walk[c].page + 1
  <2>2. n \in Nat \ {0} /\ h \in Seq(Records)
    BY <1>2, <1>4
  <2> HIDE DEF n
  <2>3. stop = [page |-> 1, items |-> None, total |-> None, got |-> h]
    BY DEF NoWalk
  <2>4. next = [[NoWalk EXCEPT !.page = n] EXCEPT !.got = h]
    BY DEF n
  <2> HIDE DEF next
  <2>5. next = [page |-> n, items |-> None, total |-> None, got |-> h]
    BY <2>4 DEF NoWalk
  <2>1. n = walk[c].page + 1
    BY DEF n
  <2> HIDE DEF stop
  <2> QED BY <2>1, <2>2, <2>3, <2>5
<1>7. /\ Stops => w = stop /\ stage = "answered"
      /\ ~Stops => w = next /\ stage = "group"
  OBVIOUS
<1> HIDE DEF w, stage, stop, next, h
<1>8. /\ "erased" \notin track[c].since =>
           /\ track[c].first \subseteq Range(h) \cup Rest(Len(h))
           /\ Short(c) => track[c].first \subseteq Range(h)
           /\ (walk[c].total # None /\ ~track[c].torn /\ Len(h) >= walk[c].total) =>
                track[c].first \subseteq Range(h)
      /\ track[c].since \cap {"added", "erased"} = {} =>
           /\ track[c].first = Range(records) /\ Begins(h, records)
           /\ Short(c) => Len(h) = Len(records)
           /\ walk[c].total # None => walk[c].total = Len(records)
  BY <1>2, <1>3, <1>4 DEF NothingMissed, NothingTwice, Touched
<1>9. ASSUME walk'[c] = w, pc'[c] = stage
      PROVE  CallWalks(c)'
  <2>1. /\ Op(c)' = Op(c) /\ Limit(c)' = Limit(c) /\ track'[c] = track[c]
        /\ \A k : Rest(k)' = Rest(k)
    BY <1>1 DEF Op, Limit, Rest
  <2>2. CASE Stops
    <3>1. "erased" \in track[c].since \/ track[c].torn \/ track[c].first \subseteq Range(h)
      BY <1>5, <1>8, <2>2
    <3>2. ASSUME track[c].since \cap {"added", "erased"} = {}
          PROVE  Range(h) = track[c].first /\ Len(h) = Cardinality(track[c].first)
      <4>1. track[c].first = Range(records) /\ Begins(h, records)
        BY <1>8, <3>2
      <4>2. Len(h) = Len(records)
        <5>1. CASE Short(c)
          BY <1>8, <3>2, <5>1
        <5>2. CASE ~Short(c)
          <6>1. walk[c].total = Len(records) /\ Len(h) >= walk[c].total
            BY <1>5, <1>8, <2>2, <3>2, <5>2
          <6>2. Len(h) <= Len(records)
            BY <4>1 DEF Begins
          <6>3. Len(h) \in Nat
            BY <1>4
          <6> QED BY <1>2, <6>1, <6>2, <6>3
        <5> QED BY <5>1, <5>2
      <4>3. h = records
        BY <1>2, <1>4, <4>1, <4>2, AllHad
      <4> QED BY <1>2, <4>1, <4>2, <4>3, EachCounts
    <3>3. walk'[c].got = h /\ pc'[c] = "answered"
      BY <1>6, <1>7, <1>9, <2>2
    <3>4. MissesNothing(c)'
      BY <2>1, <3>1, <3>2, <3>3 DEF MissesNothing
    <3> QED BY <3>3, <3>4 DEF CallWalks, Walks, Walking
  <2>3. CASE ~Stops
    <3>1. /\ walk'[c].page = walk[c].page + 1 /\ walk'[c].items = None
          /\ walk'[c].total = None /\ walk'[c].got = h /\ pc'[c] = "group"
      BY <1>6, <1>7, <1>9, <2>3
    <3>2. Limit(c) # None /\ Len(walk[c].items) = Limit(c) /\ Limit(c) \in Nat
      <4> HIDE DEF Stops
      <4>1. ~Short(c)
        BY <1>5, <2>3
      <4>2. Limit(c) # None /\ ~(Len(walk[c].items) < Limit(c))
        BY <1>3, <4>1 DEF Short
      <4>3. Len(walk[c].items) <= Limit(c)
        BY <1>2, <1>3, <4>2 DEF WalkFits
      <4> QED BY <1>2, <1>4, <4>2, <4>3
    <3>3. Len(h) = Skip(c)'
      <4>5. Len(walk[c].got) = Skip(c)
        BY <1>2, <3>2 DEF WalkFits
      <4>6. Len(h) = Skip(c) + Limit(c)
        BY <1>4, <3>2, <4>5
      <4>1. Len(h) = (walk[c].page - 1) * request[c].limit + Limit(c)
        BY <4>6 DEF Skip
      <4>7. Skip(c)' = (walk'[c].page - 1) * request'[c].limit
        BY DEF Skip
      <4>8. request' = request /\ walk'[c].page = walk[c].page + 1
        BY <1>1, <3>1
      <4>2. walk[c].page \in Nat /\ request[c].limit \in Nat
            /\ request[c].limit = Limit(c)
        BY <1>2, <3>2 DEF Limit
      <4>3. (walk'[c].page - 1) * request[c].limit
              = (walk[c].page - 1) * request[c].limit + request[c].limit
        BY <4>2, <4>8, SkipsAPage
      <4> QED BY <4>1, <4>2, <4>3, <4>7, <4>8
    <3>4. WalkFits(c)'
      BY <2>1, <3>1, <3>2, <3>3 DEF WalkFits
    <3>5. Have(c)' = h /\ ~Short(c)'
      BY <3>1 DEF Have, Short
    <3>6. NothingMissed(c)'
      BY <1>8, <2>1, <3>1, <3>5 DEF NothingMissed
    <3>7. NothingTwice(c)'
      BY <1>1, <1>8, <2>1, <3>1, <3>5 DEF NothingTwice, Touched
    <3>8. TotalHolds(c)'
      BY <3>1 DEF TotalHolds
    <3>9. Op(c)' = "list" => pc'[c] \in Walking /\ pc'[c] # "answered"
      BY <3>1 DEF Walking
    <3> QED BY <3>1, <3>4, <3>6, <3>7, <3>8, <3>9 DEF CallWalks, Walking
  <2> QED BY <2>2, <2>3
<1>10. TypeOK
  BY DEF IInv
<1>11. w \in [page : Nat \ {0}, items : Seq(Records) \cup {None},
              total : Nat \cup {None}, got : Seq(Records)]
  BY <1>6, <1>7
<1> QED BY <1>1, <1>9, <1>10, <1>11, WalkStep

LEMMA InitWalks ==
  ASSUME Init
  PROVE  WalkInv
<1>1. /\ records = <<>> /\ walk = [c \in Calls |-> NoWalk]
      /\ pc = [c \in Calls |-> Start(request[c].op)]
  BY DEF Init
<1>2. /\ NoWalk \in [page : Nat \ {0}, items : Seq(Records) \cup {None},
                     total : Nat \cup {None}, got : Seq(Records)]
      /\ NoWalk.page = 1 /\ NoWalk.items = None /\ NoWalk.total = None
      /\ NoWalk.got = <<>>
  BY DEF NoWalk
<1>3. WalkTypes /\ EachOnce
  BY <1>1, <1>2 DEF WalkTypes, EachOnce
<1>4. ASSUME NEW c \in Calls
      PROVE  CallWalks(c)
  <2> SUFFICES ASSUME Op(c) = "list"
               PROVE  CallWalks(c)
    BY DEF CallWalks, Walks
  <2>1. pc[c] = "group" /\ walk[c] = NoWalk
    BY <1>1 DEF Op, Start
  <2>2. Limit(c) \in Nat \cup {None}
    BY ReadsAssumption DEF Init, Limit, Op
  <2>3. WalkFits(c)
    <3>1. Skip(c) = (1 - 1) * Limit(c)
      BY <1>2, <2>1 DEF Skip, Limit
    <3>2. Limit(c) # None => Skip(c) = 0
      BY <2>2, <3>1
    <3> QED BY <1>2, <2>1, <3>2 DEF WalkFits
  <2>4. ~Began(c) /\ TotalHolds(c)
    BY <1>2, <2>1 DEF Began, TotalHolds
  <2> QED BY <2>1, <2>3, <2>4 DEF CallWalks, Walking, NothingMissed, NothingTwice
<1> QED BY <1>3, <1>4 DEF WalkInv

LEMMA StepKeepsWalks ==
  ASSUME IInv, WalkInv, [Next]_vars
  PROVE  WalkInv'
<1>1. CASE UNCHANGED vars \/ Expire
  <2>1. UNCHANGED <<records, request, pc, walk, track>>
    BY <1>1 DEF vars, Expire, tables
  <2> QED BY <2>1, QuietKeepsWalks DEF GoesOn, NotesMore
<1>2. ASSUME NEW c \in Calls, Query(c)
      PROVE  WalkInv'
  BY <1>2, QueriesKeepWalks, FindPageKeepsWalks, CountKeepsWalks, TakePageKeepsWalks
     DEF Query
<1>3. ASSUME NEW c \in Calls, Change(c)
      PROVE  WalkInv'
  BY <1>3, ChangeKeepsWalks, QueriesKeepWalks DEF Change
<1>4. ASSUME NEW c \in Calls, Fill(c) \/ Invalidate(c) \/ Abort(c)
      PROVE  WalkInv'
  BY <1>4, CacheKeepsWalks
<1>5. ASSUME NEW r \in Records, Record(r) \/ Erase(r)
      PROVE  WalkInv'
  BY <1>5, RecordsKeepWalks
<1> QED BY <1>1, <1>2, <1>3, <1>4, <1>5 DEF Next

\* The inductive invariant of lists that are read page by page.
THEOREM WalkInvariance == Spec => []WalkInv
<1>1. Init => WalkInv
  BY InitWalks
<1>2. IInv /\ WalkInv /\ [Next]_vars => WalkInv'
  BY StepKeepsWalks
<1> QED BY <1>1, <1>2, Invariance, PTL DEF Spec

\* A client that follows the pages of settlements, expenses or activity
\* misses no record that was there at first, unless records were removed, or
\* changed between a page and its total; and it reads each once when nothing
\* changed (skip and take, and the app's getGroupSettlements).
THEOREM WalksMissNothing == Spec => []WalksAreComplete
<1>1. WalkInv => WalksAreComplete
  BY DEF WalkInv, CallWalks, WalksAreComplete
<1> QED BY <1>1, WalkInvariance, PTL
=============================================================================
