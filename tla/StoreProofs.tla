------------------------------ MODULE StoreProofs ------------------------------
(***************************************************************************)
(* Proofs about the store behind the HTTP API: whatever the requests, the   *)
(* sources and the tenants, favorites, their events and their lists agree   *)
(* (Favorites); requests on profiles, displays and sources leave whole edits *)
(* behind, deadlock only where rows are deleted or a name is new, and        *)
(* change nothing when they are refused (ProfileStore).                     *)
(***************************************************************************)
EXTENDS Store, FiniteSetTheorems, TLAPS

-------------------------------------------------------------------------------
(***************************************************************************)
(* Favorites: what holds of each request.                                  *)
(***************************************************************************)
StagesOf(k) ==
  {"idle", "end"} \cup
    (CASE k = "add" -> {"add", "create", "insert", "publish"}
       [] k = "remove" -> {"remove", "select", "delete", "publish"}
       [] k = "list" -> {"list", "favorites", "get"}
       [] OTHER -> {"deleteSource"})

Statuses == {NoReply, 200, 204, 404, 409, 500}
OfName(u, n) == \E f \in favorites : f[1] = u /\ Name[f[2]] = n

(* The states of the variables that have no other property.                *)
FavoritesTypes ==
  /\ ask \in [Clients -> Asks] /\ since \in [Clients -> SUBSET Clients]
  /\ stage \in [Clients -> {"idle", "add", "create", "insert", "remove", "select", "delete", "publish",
                            "deleteSource", "list", "favorites", "get", "end"}]
  /\ reply \in [Clients -> Statuses]
  /\ found \in [Clients -> SUBSET FavoriteSources]
  /\ asked \in [Clients -> SUBSET FavoriteSources]
  /\ results \in [Clients -> SUBSET FavoriteSources]
  /\ sources \subseteq FavoriteSources
  /\ favorites \subseteq (DOMAIN UserTenant) \X sources
  /\ queue \subseteq Clients \X FavoriteSources
  /\ working \subseteq Clients \X FavoriteSources

(* Who is in progress knows every other request that is.                    *)
KnowsOthers ==
  \A r \in Clients :
    /\ stage[r] = "idle" => since[r] = {}
    /\ \A q \in Clients : q # r /\ stage[r] # "idle" /\ Busy(q) => q \in since[r]

StageFits(r) ==
  /\ stage[r] \in StagesOf(ask[r].kind)
  /\ (reply[r] # NoReply) <=> (stage[r] = "end")

(* What a request has found stays enough for what it does with it.          *)
FoundFits(r) ==
  /\ stage[r] = "create" =>
       \A s \in found[r] : Owner[s] = UserTenant[ask[r].user] /\ Name[s] = ask[r].name
  /\ stage[r] = "insert" =>
       \A s \in found[r] : Name[s] = ask[r].name /\ s \in FavoriteSources /\ \E t \in FavoriteSources :
         Owner[t] = UserTenant[ask[r].user] /\ Name[t] = Name[s] /\ Backend[t] = Backend[s]
  /\ stage[r] = "delete" =>
       Named(ask[r].name) \subseteq found[r] /\ \A s \in found[r] : Name[s] = ask[r].name

(* From its transaction on, a removed favorite is away.                     *)
StaysAway(r) ==
  ask[r].kind = "remove" /\ (stage[r] = "publish" \/ reply[r] = 204) =>
    \/ \E q \in since[r] : ask[q].kind = "add" /\ Concerns(q, ask[r].user, ask[r].name)
    \/ ~OfName(ask[r].user, ask[r].name)

(* A source of the tenant that is there when the favorites are read is one   *)
(* of those the list asks.  A favorite the list has found is to be asked    *)
(* for, is being asked for, or was, unless its source is deleted by then.    *)
DeletedMeanwhile(r, s) == \E q \in since[r] : ask[q].kind = "deleteSource" /\ ask[q].source = s
Excused(r, s) ==
  s \in results[r] \/ health[s] # "ok" \/ Owner[s] # UserTenant[ask[r].user] \/ DeletedMeanwhile(r, s)

ListInv(r) ==
  ask[r].kind = "list" =>
    /\ stage[r] = "favorites" => OfTenant(ask[r].user) \subseteq asked[r]
    /\ stage[r] = "get" => \A s \in found[r] :
         /\ s \in sources \/ DeletedMeanwhile(r, s)
         /\ s \in asked[r] \/ <<r, s>> \in queue \cup working \/ Excused(r, s)
    /\ stage[r] = "end" /\ ~timeout => FuturesOf(r) = {} /\ \A s \in found[r] : Excused(r, s)

(***************************************************************************)
(* What holds of the pool and of a favorite's name for a user: they agree   *)
(* with the events but for one that is still to be published.              *)
(***************************************************************************)
PoolFits ==
  /\ IsFiniteSet(working) /\ Cardinality(working) <= Workers
  /\ queue \cap working = {}
  /\ \A t \in queue \cup working : stage[t[1]] \in {"get", "end"}
  /\ \A r \in Clients : \A s \in asked[r] : <<r, s>> \notin queue \cup working

Disturbed(u, n) ==
  \/ \E q, r \in Clients : q # r /\ Concerns(q, u, n) /\ Concerns(r, u, n) /\ Overlap(q, r)
  \/ \E s \in FavoriteSources : Name[s] = n /\ Deleting(s)

EventsFollow(u, n) ==
  /\ (\A r \in Clients : Concerns(r, u, n) => stage[r] # "publish") =>
       (<<u, n>> \in seen <=> OfName(u, n))
  /\ \A r \in Clients : Concerns(r, u, n) /\ stage[r] = "publish" =>
       (ask[r].kind = "add" <=> OfName(u, n))

RequestFits(r) == StageFits(r) /\ FoundFits(r) /\ StaysAway(r) /\ ListInv(r)

FavoritesInv ==
  /\ FavoritesTypes /\ KnowsOthers /\ PoolFits /\ FavoritesAreOfTheirTenant
  /\ \A r \in Clients : RequestFits(r)
  /\ \A u \in DOMAIN UserTenant, n \in {Name[s] : s \in FavoriteSources} :
       Disturbed(u, n) \/ EventsFollow(u, n)

-------------------------------------------------------------------------------
StageNames == {"idle", "add", "create", "insert", "remove", "select", "delete", "publish", "deleteSource",
               "list", "favorites", "get", "end"}

(* A step of a request is its own: the others keep their place.             *)
Moves(r, to, a) == stage' = [stage EXCEPT ![r] = to] /\ reply' = [reply EXCEPT ![r] = a]

MovesOn(r) ==
  \E to \in StageNames \ {"idle"}, a \in Statuses :
    to \in StagesOf(ask[r].kind) /\ (a # NoReply <=> to = "end") /\ Moves(r, to, a)

LEMMA GoMoves ==
  ASSUME FavoritesTypes, NEW r \in Clients, StageFits(r), Busy(r),
         NEW to \in StageNames \ {"idle", "end"}, to \in StagesOf(ask[r].kind), Go(r, to)
  PROVE  MovesOn(r)
<1>1. reply[r] = NoReply
  BY DEF StageFits, Busy, StagesOf
<1>2. Moves(r, to, NoReply)
  BY <1>1 DEF Go, Moves, FavoritesTypes
<1> QED BY <1>2 DEF MovesOn, Statuses

LEMMA EndMoves ==
  ASSUME NEW r \in Clients, NEW a \in {200, 204, 404, 409, 500}, End(r, a)
  PROVE  MovesOn(r)
<1>1. Moves(r, "end", a) /\ "end" \in StageNames \ {"idle"} /\ a \in Statuses
  BY DEF End, Moves, StageNames, Statuses
<1>2. "end" \in StagesOf(ask[r].kind) /\ a # NoReply
  BY FavoritesAssumption DEF FavoritesAssumption, StagesOf
<1> QED BY <1>1, <1>2 DEF MovesOn

LEMMA StepMoves ==
  ASSUME FavoritesTypes, NEW r \in Clients, StageFits(r), StepOf(r)
  PROVE  /\ UNCHANGED <<ask, since, health, timeout, results, working>> /\ sources' \subseteq sources
         /\ Busy(r) /\ MovesOn(r)
         /\ \E x \in SUBSET FavoriteSources : found' = [found EXCEPT ![r] = x]
         /\ \E x \in SUBSET FavoriteSources : asked' = [asked EXCEPT ![r] = x]
<1> USE DEF StepOf, FindSource, Create, AddFavorite, SelectSources, DeleteFavorites, PublishEvent,
            DeleteSource, ReadProfile, ReadFavorites, AskSource, Answer
<1>1. UNCHANGED <<ask, since, health, timeout, results, working>>
  BY DEF setting, lists
<1>2. sources' \subseteq sources
  OBVIOUS
<1>3. Busy(r)
  BY DEF Busy
<1>4. \E x \in SUBSET FavoriteSources : found' = [found EXCEPT ![r] = x]
  <2>1. found = [found EXCEPT ![r] = found[r]] /\ found[r] \in SUBSET FavoriteSources
    BY DEF FavoritesTypes
  <2>2. CASE FindSource(r)
    BY <2>1, <2>2 DEF Keep, OfTenant, FavoritesTypes
  <2>3. CASE SelectSources(r)
    BY <2>1, <2>3 DEF Keep, Matching, Named, FavoritesTypes
  <2>4. CASE ReadFavorites(r)
    <3>1. {f[2] : f \in {g \in favorites : g[1] = ask[r].user}} \subseteq FavoriteSources
      BY DEF FavoritesTypes
    <3> QED BY <2>4, <3>1 DEF Keep
  <2>5. CASE Create(r)
    BY <2>1, <2>5 DEF Keep, Bound, Named, FavoritesTypes
  <2>6. CASE found' = found
    BY <2>1, <2>6
  <2> QED BY <2>2, <2>3, <2>4, <2>5, <2>6
<1>5. \E x \in SUBSET FavoriteSources : asked' = [asked EXCEPT ![r] = x]
  <2>1. asked = [asked EXCEPT ![r] = asked[r]] /\ asked[r] \in SUBSET FavoriteSources
    BY DEF FavoritesTypes
  <2>2. CASE ReadProfile(r)
    <3>1. OfTenant(ask[r].user) \in SUBSET FavoriteSources
      BY DEF OfTenant, FavoritesTypes
    <3> QED BY <2>2, <3>1
  <2>3. CASE ReadFavorites(r)
    <3>1. {s \in asked[r] : Name[s] \in FavoriteNames(ask[r].user)} \in SUBSET FavoriteSources
      BY <2>1
    <3> QED BY <2>3, <3>1
  <2>4. CASE AskSource(r)
    <3>1. PICK s \in asked[r] : asked' = [asked EXCEPT ![r] = @ \ {s}]
      BY <2>4
    <3>2. asked[r] \ {s} \in SUBSET FavoriteSources
      BY <2>1
    <3> QED BY <3>1, <3>2
  <2>5. CASE asked' = asked
    BY <2>1, <2>5
  <2> QED BY <2>2, <2>3, <2>4, <2>5 DEF lists
<1>6. MovesOn(r)
  <2> USE DEF StageNames
  <2>1. ask[r].kind \in {"add", "remove", "list", "deleteSource"} /\ stage[r] \in StagesOf(ask[r].kind)
    BY FavoritesAssumption DEF FavoritesAssumption, FavoritesTypes, StageFits
  <2>2. CASE FindSource(r)
    <3>1. stage[r] = "add" => "create" \in StagesOf(ask[r].kind)
      BY <2>1 DEF StagesOf
    <3>2. stage[r] = "remove" => "select" \in StagesOf(ask[r].kind)
      BY <2>1 DEF StagesOf
    <3>3. \/ End(r, 404) \/ (stage[r] = "add" /\ Go(r, "create"))
          \/ (stage[r] = "remove" /\ Go(r, "select"))
      BY <2>2
    <3> QED BY <1>3, <3>1, <3>2, <3>3, GoMoves, EndMoves
  <2>3. CASE Create(r)
    <3>1. "insert" \in StagesOf(ask[r].kind)
      BY <2>1, <2>3 DEF StagesOf
    <3>2. End(r, 500) \/ Go(r, "insert")
      BY <2>3
    <3> QED BY <1>3, <3>1, <3>2, GoMoves, EndMoves
  <2>8. CASE AddFavorite(r)
    <3>1. "publish" \in StagesOf(ask[r].kind)
      BY <2>1, <2>8 DEF StagesOf
    <3>2. End(r, 409) \/ Go(r, "publish")
      BY <2>8
    <3> QED BY <1>3, <3>1, <3>2, GoMoves, EndMoves
  <2>4. CASE SelectSources(r)
    <3>1. "delete" \in StagesOf(ask[r].kind)
      BY <2>1, <2>4 DEF StagesOf
    <3> QED BY <1>3, <2>4, <3>1, GoMoves, EndMoves
  <2>5. CASE DeleteFavorites(r)
    <3>1. "publish" \in StagesOf(ask[r].kind)
      BY <2>1, <2>5 DEF StagesOf
    <3> QED BY <1>3, <2>5, <3>1, GoMoves, EndMoves
  <2>6. CASE ReadProfile(r) \/ ReadFavorites(r)
    <3>1. {"favorites", "get"} \subseteq StagesOf(ask[r].kind)
      BY <2>1, <2>6 DEF StagesOf
    <3>2. Go(r, "favorites") \/ Go(r, "get")
      BY <2>6
    <3> QED BY <1>3, <3>1, <3>2, GoMoves
  <2>9. CASE AskSource(r)
    <3>1. "get" \in StagesOf(ask[r].kind) /\ stage[r] = "get" /\ UNCHANGED <<stage, reply>>
      BY <2>1, <2>9 DEF StagesOf
    <3>2. Moves(r, "get", NoReply)
      BY <3>1 DEF Moves, FavoritesTypes, StageFits
    <3> QED BY <3>1, <3>2 DEF MovesOn, Statuses
  <2>7. CASE PublishEvent(r) \/ DeleteSource(r) \/ Answer(r)
    BY <2>7, EndMoves
  <2> QED BY <2>2, <2>3, <2>4, <2>5, <2>6, <2>7, <2>8, <2>9
<1> QED BY <1>1, <1>2, <1>3, <1>4, <1>5, <1>6

(***************************************************************************)
(* What a step does to the requests that do not take it.                    *)
(***************************************************************************)
LEMMA OthersStay ==
  ASSUME FavoritesTypes, NEW r \in Clients, StageFits(r), StepOf(r)
  PROVE  /\ \A q \in Clients : q # r =>
              /\ stage'[q] = stage[q] /\ reply'[q] = reply[q]
              /\ found'[q] = found[q] /\ asked'[q] = asked[q]
         /\ stage'[r] # "idle" /\ (reply'[r] # NoReply <=> stage'[r] = "end")
         /\ stage'[r] \in StagesOf(ask[r].kind)
<1>1. PICK to \in StageNames \ {"idle"}, a \in Statuses :
        to \in StagesOf(ask[r].kind) /\ (a # NoReply <=> to = "end") /\ Moves(r, to, a)
  BY StepMoves DEF MovesOn
<1>2. \A q \in Clients : /\ stage'[q] = (IF q = r THEN to ELSE stage[q])
                         /\ reply'[q] = (IF q = r THEN a ELSE reply[q])
  BY <1>1 DEF Moves, FavoritesTypes
<1>3. \A q \in Clients : q # r => found'[q] = found[q] /\ asked'[q] = asked[q]
  BY StepMoves DEF FavoritesTypes
<1> QED BY <1>1, <1>2, <1>3

LEMMA TypesStep ==
  ASSUME FavoritesTypes, \A r \in Clients : StageFits(r), FavoritesNext
  PROVE  FavoritesTypes'
<1>1. ASSUME NEW r \in Clients, Arrive(r) PROVE FavoritesTypes'
  <2>1. ask[r].kind \in {"add", "remove", "list", "deleteSource"}
    BY FavoritesAssumption DEF FavoritesTypes, FavoritesAssumption
  <2> QED BY <1>1, <2>1 DEF Arrive, Go, FavoritesTypes, Busy, lists, setting
<1>2. ASSUME NEW r \in Clients, StepOf(r) PROVE FavoritesTypes'
  <2>1. UNCHANGED <<ask, since, results, working>> /\ sources' \subseteq FavoriteSources
    BY <1>2, StepMoves DEF FavoritesTypes
  <2>2. /\ stage' \in [Clients -> StageNames] /\ reply' \in [Clients -> Statuses]
        /\ found' \in [Clients -> SUBSET FavoriteSources] /\ asked' \in [Clients -> SUBSET FavoriteSources]
    BY <1>2, StepMoves DEF FavoritesTypes, StageNames, MovesOn, Moves
  <2>3. favorites' \subseteq (DOMAIN UserTenant) \X sources'
    <3>1. ask[r].user \in DOMAIN UserTenant
      BY FavoritesAssumption DEF FavoritesTypes, FavoritesAssumption
    <3>2. CASE AddFavorite(r)
      <4>1. /\ sources' = sources
            /\ \/ favorites' = favorites
               \/ \E s \in sources : favorites' = favorites \cup {<<ask[r].user, s>>}
        BY <3>2 DEF AddFavorite
      <4> QED BY <3>1, <4>1 DEF FavoritesTypes
    <3>3. CASE DeleteSource(r)
      BY <3>3 DEF FavoritesTypes, DeleteSource
    <3>4. CASE DeleteFavorites(r)
      BY <3>4 DEF FavoritesTypes, DeleteFavorites
    <3>5. CASE UNCHANGED <<favorites, sources>>
      BY <3>5 DEF FavoritesTypes
    <3> QED BY <1>2, <3>2, <3>3, <3>4, <3>5
            DEF StepOf, FindSource, Create, SelectSources, PublishEvent, ReadProfile, ReadFavorites,
                AskSource, Answer
  <2>4. queue' \subseteq Clients \X FavoriteSources
    <3>1. CASE AskSource(r)
      BY <3>1 DEF FavoritesTypes, AskSource
    <3>2. CASE UNCHANGED queue
      BY <3>2 DEF FavoritesTypes
    <3> QED BY <1>2, <3>1, <3>2
            DEF StepOf, FindSource, Create, AddFavorite, SelectSources, DeleteFavorites, PublishEvent,
                DeleteSource, ReadProfile, ReadFavorites, Answer, lists
  <2> QED BY <2>1, <2>2, <2>3, <2>4 DEF FavoritesTypes, StageNames
<1>3. ASSUME NEW task \in queue, Take(task) PROVE FavoritesTypes'
  BY <1>3 DEF Take, FavoritesTypes
<1>4. ASSUME NEW task \in working, Finish(task) PROVE FavoritesTypes'
  BY <1>4 DEF Finish, FavoritesTypes
<1> QED BY <1>1, <1>2, <1>3, <1>4 DEF FavoritesNext

LEMMA KnowsOthersStep ==
  ASSUME FavoritesTypes, \A r \in Clients : StageFits(r), KnowsOthers, FavoritesNext
  PROVE  KnowsOthers'
<1>1. ASSUME NEW r \in Clients, Arrive(r) PROVE KnowsOthers'
  <2>1. stage[r] = "idle" /\ \A q \in Clients : q # r => stage'[q] = stage[q]
    BY <1>1 DEF Arrive, Go, FavoritesTypes
  <2>2. \A q \in Clients :
          since'[q] = IF q = r THEN {p \in Clients : Busy(p)}
                      ELSE IF stage[q] # "idle" THEN since[q] \cup {r} ELSE since[q]
    BY <1>1 DEF Arrive
  <2>3. stage'[r] # "idle"
    BY <1>1, FavoritesAssumption DEF Arrive, Go, FavoritesTypes, FavoritesAssumption
  <2>4. ASSUME NEW p \in Clients
        PROVE  /\ stage'[p] = "idle" => since'[p] = {}
               /\ \A q \in Clients : q # p /\ stage'[p] # "idle" /\ Busy(q)' => q \in since'[p]
    BY <2>1, <2>2, <2>3 DEF KnowsOthers, Busy
  <2> QED BY <2>4 DEF KnowsOthers
<1>2. ASSUME NEW r \in Clients, StepOf(r) PROVE KnowsOthers'
  <2>1. Busy(r) /\ since' = since
    BY <1>2, StepMoves
  <2>2. stage'[r] # "idle" /\ \A q \in Clients : q # r => stage'[q] = stage[q]
    BY <1>2, OthersStay
  <2>3. ASSUME NEW p \in Clients
        PROVE  /\ stage'[p] = "idle" => since'[p] = {}
               /\ \A q \in Clients : q # p /\ stage'[p] # "idle" /\ Busy(q)' => q \in since'[p]
    BY <2>1, <2>2 DEF KnowsOthers, Busy
  <2> QED BY <2>3 DEF KnowsOthers
<1>3. CASE UNCHANGED <<stage, since>>
  BY <1>3 DEF KnowsOthers, Busy
<1> QED BY <1>1, <1>2, <1>3 DEF FavoritesNext, Take, Finish

LEMMA PoolStep ==
  ASSUME FavoritesTypes, \A r \in Clients : StageFits(r), PoolFits, FavoritesNext
  PROVE  PoolFits'
<1> USE DEF PoolFits
<1>1. ASSUME NEW r \in Clients, Arrive(r) PROVE PoolFits'
  <2>1. UNCHANGED lists /\ stage[r] = "idle" /\ \A q \in Clients : q # r => stage'[q] = stage[q]
    BY <1>1 DEF Arrive, Go, FavoritesTypes
  <2>2. \A t \in queue \cup working : t[1] \in Clients /\ t[1] # r
    BY <2>1 DEF FavoritesTypes
  <2> QED BY <2>1, <2>2 DEF lists
<1>2. ASSUME NEW r \in Clients, StepOf(r) PROVE PoolFits'
  <2>1. working' = working /\ \A q \in Clients : q # r => stage'[q] = stage[q] /\ asked'[q] = asked[q]
    BY <1>2, StepMoves, OthersStay
  <2>2. CASE AskSource(r)
    <3>1. PICK s \in asked[r] : /\ queue' \in {queue \cup {<<r, s>>}, queue}
                                /\ asked' = [asked EXCEPT ![r] = @ \ {s}]
      BY <2>2 DEF AskSource
    <3>2. stage' = stage /\ stage[r] = "get"
      BY <2>2 DEF AskSource
    <3>3. <<r, s>> \notin working
      OBVIOUS
    <3>4. \A t \in queue' \cup working' : stage'[t[1]] \in {"get", "end"}
      BY <2>1, <3>1, <3>2
    <3>5. asked'[r] = asked[r] \ {s}
      BY <3>1 DEF FavoritesTypes
    <3>6. ASSUME NEW q \in Clients, NEW t \in asked'[q] PROVE <<q, t>> \notin queue' \cup working'
      <4>1. t \in asked[q] /\ (q = r => t # s)
        BY <2>1, <3>5
      <4> QED BY <2>1, <3>1, <4>1
    <3> QED BY <2>1, <3>1, <3>3, <3>4, <3>6
  <2>3. CASE Answer(r)
    BY <2>1, <2>3 DEF Answer, End, lists, FavoritesTypes
  <2>4. CASE queue' = queue /\ stage[r] \notin {"get", "end"}
    <3>1. \A t \in queue \cup working : t[1] \in Clients /\ t[1] # r
      BY <2>4 DEF FavoritesTypes
    <3>2. ASSUME NEW q \in Clients, NEW s \in asked'[q] PROVE <<q, s>> \notin queue' \cup working'
      <4>1. PICK x : x = <<q, s>>
        OBVIOUS
      <4>2. x[1] = q
        BY <4>1
      <4>3. CASE q = r
        BY <2>1, <2>4, <3>1, <4>1, <4>2, <4>3
      <4>4. CASE q # r
        BY <2>1, <2>4, <4>4
      <4> QED BY <4>3, <4>4
    <3> QED BY <2>1, <2>4, <3>1, <3>2
  <2> QED BY <1>2, <2>2, <2>3, <2>4
          DEF StepOf, FindSource, Create, AddFavorite, SelectSources, DeleteFavorites, PublishEvent, DeleteSource,
              ReadProfile, ReadFavorites, lists
<1>3. ASSUME NEW task \in queue, Take(task) PROVE PoolFits'
  <2>1. IsFiniteSet(working') /\ Cardinality(working') = Cardinality(working) + 1
    BY <1>3, FS_AddElement DEF Take
  <2>2. Cardinality(working') <= Workers
    BY <1>3, <2>1, FS_CardinalityType, FavoritesAssumption DEF Take, FavoritesAssumption
  <2> QED BY <1>3, <2>1, <2>2 DEF Take
<1>4. ASSUME NEW task \in working, Finish(task) PROVE PoolFits'
  <2>1. IsFiniteSet(working') /\ Cardinality(working') = Cardinality(working) - 1
    BY <1>4, FS_RemoveElement DEF Finish
  <2>2. Cardinality(working') <= Workers
    BY <2>1, FS_CardinalityType, FavoritesAssumption DEF FavoritesAssumption
  <2> QED BY <1>4, <2>1, <2>2 DEF Finish
<1> QED BY <1>1, <1>2, <1>3, <1>4 DEF FavoritesNext

LEMMA StageStep ==
  ASSUME FavoritesTypes, \A r \in Clients : StageFits(r), FavoritesNext
  PROVE  \A r \in Clients : StageFits(r)'
<1>1. ASSUME NEW r \in Clients, Arrive(r), NEW q \in Clients PROVE StageFits(q)'
  <2>1. ask[r].kind \in {"add", "remove", "list", "deleteSource"}
    BY FavoritesAssumption DEF FavoritesTypes, FavoritesAssumption
  <2>2. stage[r] = "idle" /\ UNCHANGED <<ask, reply>>
    BY <1>1 DEF Arrive, Go, setting
  <2>3. stage'[q] = IF q = r THEN ask[r].kind ELSE stage[q]
    BY <1>1 DEF Arrive, Go, FavoritesTypes
  <2>4. ask[r].kind \in StagesOf(ask[r].kind) /\ ask[r].kind # "end"
    BY <2>1 DEF StagesOf
  <2> QED BY <2>2, <2>3, <2>4 DEF StageFits
<1>2. ASSUME NEW r \in Clients, StepOf(r), NEW q \in Clients PROVE StageFits(q)'
  BY <1>2, OthersStay, StepMoves DEF StageFits
<1>3. CASE UNCHANGED <<ask, stage, reply>>
  BY <1>3 DEF StageFits
<1> QED BY <1>1, <1>2, <1>3 DEF FavoritesNext, Take, Finish

LEMMA TenantStep ==
  ASSUME FavoritesTypes, \A r \in Clients : FoundFits(r), FavoritesAreOfTheirTenant, FavoritesNext
  PROVE  FavoritesAreOfTheirTenant'
<1> USE DEF FavoritesAreOfTheirTenant
<1>1. CASE favorites' \subseteq favorites
  BY <1>1
<1>2. ASSUME NEW r \in Clients, AddFavorite(r) PROVE FavoritesAreOfTheirTenant'
  <2>1. ASSUME NEW s \in found[r]
        PROVE  \E t \in FavoriteSources :
                 Owner[t] = UserTenant[ask[r].user] /\ Name[t] = Name[s] /\ Backend[t] = Backend[s]
    BY <1>2 DEF AddFavorite, FoundFits
  <2>2. \/ favorites' = favorites
        \/ \E s \in found[r] : favorites' = favorites \cup {<<ask[r].user, s>>}
    BY <1>2 DEF AddFavorite
  <2> QED BY <2>1, <2>2
<1> QED BY <1>1, <1>2
        DEF FavoritesNext, StepOf, Arrive, FindSource, Create, SelectSources, DeleteFavorites, PublishEvent,
            DeleteSource, ReadProfile, ReadFavorites, AskSource, Answer, Take, Finish

LEMMA FoundStep ==
  ASSUME FavoritesTypes, \A r \in Clients : StageFits(r) /\ FoundFits(r), FavoritesNext
  PROVE  \A r \in Clients : FoundFits(r)'
<1>1. ASSUME NEW r \in Clients, Arrive(r), NEW q \in Clients PROVE FoundFits(q)'
  <2>1. ask[r].kind \in {"add", "remove", "list", "deleteSource"}
    BY FavoritesAssumption DEF FavoritesTypes, FavoritesAssumption
  <2>2. stage'[q] = IF q = r THEN ask[r].kind ELSE stage[q]
    BY <1>1 DEF Arrive, Go, FavoritesTypes
  <2>3. UNCHANGED <<ask, found, sources>>
    BY <1>1 DEF Arrive, Go, setting
  <2> QED BY <2>1, <2>2, <2>3 DEF FoundFits, Named
<1>2. ASSUME NEW r \in Clients, StepOf(r), NEW q \in Clients PROVE FoundFits(q)'
  <2>1. ask' = ask /\ Named(ask[q].name)' \subseteq Named(ask[q].name)
    BY <1>2, StepMoves DEF Named
  <2>2. CASE q # r
    BY <1>2, <2>1, <2>2, OthersStay DEF FoundFits
  <2>3. CASE q = r /\ FindSource(r)
    <3>1. CASE End(r, 404)
      BY <2>3, <3>1 DEF End, FoundFits, FavoritesTypes
    <3>2. CASE \E s \in OfTenant(ask[r].user) \cap Named(ask[r].name) :
                 Keep(r, {s}) /\ Go(r, IF stage[r] = "add" THEN "create" ELSE "select")
      <4>1. PICK s \in OfTenant(ask[r].user) \cap Named(ask[r].name) : Keep(r, {s})
        BY <3>2
      <4>2. found'[r] = {s} /\ Owner[s] = UserTenant[ask[r].user] /\ Name[s] = ask[r].name
        BY <4>1 DEF Keep, FavoritesTypes, OfTenant, Named
      <4>3. stage'[r] \notin {"delete", "insert"}
        BY <3>2 DEF Go, FavoritesTypes
      <4> QED BY <2>1, <2>3, <4>2, <4>3 DEF FoundFits
    <3> QED BY <2>3, <3>1, <3>2 DEF FindSource
  <2>4. CASE q = r /\ SelectSources(r)
    <3>1. stage'[r] \notin {"create", "insert"}
      BY <2>4 DEF SelectSources, Go, End, FavoritesTypes
    <3>2. stage'[r] = "delete" => found'[r] = Named(ask[r].name)
      BY <2>4 DEF SelectSources, Go, End, Keep, Matching, FavoritesTypes
    <3> QED BY <2>1, <2>4, <3>1, <3>2 DEF FoundFits, Named
  <2>5. CASE q = r /\ Create(r)
    <3>1. CASE End(r, 500)
      BY <2>5, <3>1 DEF End, FoundFits, FavoritesTypes
    <3>2. CASE \E s \in Bound(ask[r].name, found[r]) : Keep(r, {s}) /\ Go(r, "insert")
      <4>1. PICK s \in Bound(ask[r].name, found[r]) : Keep(r, {s}) /\ Go(r, "insert")
        BY <3>2
      <4>2. found'[r] = {s} /\ stage'[r] = "insert"
        BY <4>1 DEF Keep, Go, FavoritesTypes
      <4>3. s \in FavoriteSources /\ Name[s] = ask[r].name /\ \E t \in found[r] : Backend[s] = Backend[t]
        BY <4>1 DEF Bound, Named, FavoritesTypes
      <4>4. \A t \in found[r] : /\ t \in FavoriteSources
                                 /\ Owner[t] = UserTenant[ask[r].user] /\ Name[t] = ask[r].name
        BY <2>5 DEF Create, FoundFits, FavoritesTypes
      <4> QED BY <2>1, <2>5, <4>2, <4>3, <4>4 DEF FoundFits
    <3> QED BY <2>5, <3>1, <3>2 DEF Create
  <2>6. CASE q = r /\ stage'[r] \notin {"create", "insert", "delete"}
    BY <2>6 DEF FoundFits
  <2>7. CASE q = r /\ AskSource(r)
    BY <2>6, <2>7 DEF AskSource
  <2>8. CASE q = r /\ ~(FindSource(r) \/ SelectSources(r) \/ Create(r) \/ AskSource(r))
    <3>1. \/ Go(r, "publish") \/ Go(r, "favorites") \/ Go(r, "get")
          \/ End(r, 200) \/ End(r, 204) \/ End(r, 404) \/ End(r, 409)
      BY <1>2, <2>8
         DEF StepOf, AddFavorite, DeleteFavorites, PublishEvent, DeleteSource, ReadProfile, ReadFavorites, Answer
    <3>2. stage'[r] \in {"publish", "favorites", "get", "end"}
      BY <3>1 DEF Go, End, FavoritesTypes
    <3> QED BY <2>6, <2>8, <3>2
  <2> QED BY <2>2, <2>3, <2>4, <2>5, <2>7, <2>8
<1>3. CASE UNCHANGED <<ask, stage, found, sources>>
  BY <1>3 DEF FoundFits, Named
<1> QED BY <1>1, <1>2, <1>3 DEF FavoritesNext, Take, Finish

(***************************************************************************)
(* What a transaction does to the favorites of a name.                      *)
(***************************************************************************)
LEMMA CreateAdds ==
  ASSUME FavoritesTypes, NEW r \in Clients, StageFits(r), FoundFits(r), AddFavorite(r), NEW u, NEW n
  PROVE  /\ ask[r].kind = "add"
         /\ ~Concerns(r, u, n) => (OfName(u, n)' <=> OfName(u, n))
         /\ \/ favorites' = favorites /\ stage'[r] = "end"
            \/ (Concerns(r, u, n) => OfName(u, n)') /\ stage'[r] = "publish"
<1> USE DEF AddFavorite
<1>1. ask[r].kind = "add"
  BY FavoritesAssumption DEF FavoritesAssumption, FavoritesTypes, StageFits, StagesOf
<1>2. CASE favorites' = favorites /\ End(r, 409)
  BY <1>1, <1>2 DEF End, FavoritesTypes, OfName
<1>3. CASE \E s \in found[r] :
             favorites' = favorites \cup {<<ask[r].user, s>>} /\ Go(r, "publish")
  <2>1. PICK s \in found[r] :
          favorites' = favorites \cup {<<ask[r].user, s>>} /\ Go(r, "publish")
    BY <1>3
  <2>2. Name[s] = ask[r].name
    BY DEF FoundFits
  <2>3. \A f : f \in favorites' <=> f \in favorites \/ f = <<ask[r].user, s>>
    BY <2>1
  <2>4. Concerns(r, u, n) => OfName(u, n)'
    <3>1. PICK f : f = <<ask[r].user, s>>
      OBVIOUS
    <3>2. f \in favorites' /\ f[1] = ask[r].user /\ f[2] = s
      BY <2>3, <3>1
    <3> QED BY <2>2, <3>2 DEF OfName, Concerns
  <2>5. ~Concerns(r, u, n) => ~(ask[r].user = u /\ ask[r].name = n)
    BY <1>1 DEF Concerns
  <2>6. ~Concerns(r, u, n) => (OfName(u, n)' <=> OfName(u, n))
    BY <2>2, <2>3, <2>5 DEF OfName
  <2> QED BY <1>1, <2>1, <2>4, <2>6 DEF Go, FavoritesTypes
<1> QED BY <1>2, <1>3

LEMMA DeleteRemoves ==
  ASSUME FavoritesTypes, NEW r \in Clients, StageFits(r), FoundFits(r), DeleteFavorites(r), NEW u, NEW n
  PROVE  /\ ask[r].kind = "remove"
         /\ ~Concerns(r, u, n) => (OfName(u, n)' <=> OfName(u, n))
         /\ Concerns(r, u, n) => ~OfName(u, n)'
         /\ \/ favorites' = favorites /\ stage'[r] = "end" /\ reply'[r] = 404
            \/ stage'[r] = "publish"
<1> USE DEF DeleteFavorites
<1>1. ask[r].kind = "remove"
  BY FavoritesAssumption DEF FavoritesAssumption, FavoritesTypes, StageFits, StagesOf
<1>2. \A f : f \in favorites' <=>
               f \in favorites /\ ~(f[1] = ask[r].user /\ f[2] \in found[r])
  OBVIOUS
<1>3. \A f \in favorites : f[2] \in sources
  BY DEF FavoritesTypes
<1>4. \A s \in sources : s \in found[r] <=> Name[s] = ask[r].name
  BY DEF FoundFits, Named
<1>5. \A f : f \in favorites' <=>
               f \in favorites /\ ~(f[1] = ask[r].user /\ Name[f[2]] = ask[r].name)
  BY <1>2, <1>3, <1>4
<1>6. Concerns(r, u, n) => ~OfName(u, n)'
  BY <1>5 DEF OfName, Concerns
<1>7. ~Concerns(r, u, n) => (OfName(u, n)' <=> OfName(u, n))
  BY <1>1, <1>5 DEF OfName, Concerns
<1>8. \/ favorites' = favorites /\ End(r, 404)
      \/ Go(r, "publish")
  OBVIOUS
<1>9. \/ favorites' = favorites /\ stage'[r] = "end" /\ reply'[r] = 404
      \/ stage'[r] = "publish"
  BY <1>8 DEF End, Go, FavoritesTypes
<1> QED BY <1>1, <1>6, <1>7, <1>9

LEMMA OthersLeaveFavorites ==
  ASSUME NEW r \in Clients, NEW u, NEW n,
         StepOf(r), ~AddFavorite(r), ~DeleteFavorites(r)
  PROVE  /\ DeleteSource(r) \/ favorites' = favorites
         /\ OfName(u, n)' => OfName(u, n)
BY DEF StepOf, FindSource, Create, SelectSources, PublishEvent, DeleteSource, ReadProfile, ReadFavorites,
       AskSource, Answer, OfName

LEMMA AwayStep ==
  ASSUME FavoritesTypes, KnowsOthers, \A r \in Clients : RequestFits(r), FavoritesNext
  PROVE  \A r \in Clients : StaysAway(r)'
<1> USE DEF RequestFits
<1>1. ASSUME NEW r \in Clients, Arrive(r), NEW q \in Clients PROVE StaysAway(q)'
  <2>1. UNCHANGED <<ask, reply, favorites>> /\ stage[r] = "idle"
    BY <1>1 DEF Arrive, Go, setting
  <2>2. CASE q = r
    <3>1. reply'[r] = NoReply /\ stage'[r] # "publish"
      BY <1>1, <2>1, FavoritesAssumption
         DEF StageFits, Arrive, Go, FavoritesTypes, FavoritesAssumption
    <3> QED BY <2>2, <3>1, FavoritesAssumption DEF StaysAway, FavoritesAssumption
  <2>3. CASE q # r
    <3>1. stage'[q] = stage[q] /\ since[q] \subseteq since'[q]
      BY <1>1, <2>3 DEF Arrive, Go, FavoritesTypes
    <3> QED BY <2>1, <3>1 DEF StaysAway, OfName, Concerns
  <2> QED BY <2>2, <2>3
<1>2. ASSUME NEW r \in Clients, StepOf(r), NEW q \in Clients PROVE StaysAway(q)'
  <2>0. PICK u, n : u = ask[q].user /\ n = ask[q].name
    OBVIOUS
  <2>1. UNCHANGED <<ask, since>> /\ Busy(r)
    BY <1>2, StepMoves
  <2>2. CASE q # r
    <3>1. stage'[q] = stage[q] /\ reply'[q] = reply[q]
      BY <1>2, <2>2, OthersStay
    <3>2. CASE OfName(u, n)' => OfName(u, n)
      BY <2>0, <2>1, <3>1, <3>2 DEF StaysAway, Concerns, OfName
    <3>3. CASE Concerns(r, u, n) /\ ask[r].kind = "add"
      <4>1. stage[q] = "publish" \/ reply[q] = 204 => stage[q] # "idle"
        BY FavoritesAssumption DEF StageFits, FavoritesAssumption
      <4>2. stage[q] = "publish" \/ reply[q] = 204 => r \in since[q]
        BY <2>1, <2>2, <4>1 DEF KnowsOthers
      <4> QED BY <2>0, <2>1, <3>1, <3>3, <4>2 DEF StaysAway, Concerns
    <3>4. CASE AddFavorite(r)
      <4>1. ask[r].kind = "add" /\ (~Concerns(r, u, n) => (OfName(u, n)' <=> OfName(u, n)))
        BY <3>4, CreateAdds
      <4> QED BY <3>2, <3>3, <4>1
    <3>5. CASE DeleteFavorites(r)
      <4>1. favorites' \subseteq favorites
        BY <3>5 DEF DeleteFavorites
      <4>2. OfName(u, n)' => OfName(u, n)
        BY <4>1 DEF OfName
      <4> QED BY <3>2, <4>2
    <3>6. CASE ~AddFavorite(r) /\ ~DeleteFavorites(r)
      <4>1. OfName(u, n)' => OfName(u, n)
        BY <1>2, <3>6, OthersLeaveFavorites
      <4> QED BY <3>2, <4>1
    <3> QED BY <3>4, <3>5, <3>6
  <2>3. CASE q = r
    <3>1. CASE DeleteFavorites(r)
      <4>1. ask[r].kind = "remove" /\ ~OfName(u, n)'
        BY <2>0, <2>3, <3>1, DeleteRemoves DEF Concerns
      <4> QED BY <2>0, <2>1, <2>3, <4>1 DEF StaysAway, OfName
    <3>2. CASE PublishEvent(r)
      <4>1. stage[r] = "publish" /\ favorites' = favorites
        BY <3>2 DEF PublishEvent
      <4> QED BY <2>1, <2>3, <4>1 DEF StaysAway, Concerns, OfName
    <3>3. CASE AddFavorite(r)
      BY <2>1, <2>3, <3>3, CreateAdds DEF StaysAway
    <3>10. CASE Create(r)
      <4>1. ask[r].kind # "remove"
        BY <3>10 DEF Create, StageFits, StagesOf
      <4> QED BY <2>1, <2>3, <4>1 DEF StaysAway
    <3>4. CASE stage'[r] # "publish" /\ (reply'[r] # 204 \/ ask[r].kind # "remove")
      BY <2>1, <2>3, <3>4 DEF StaysAway
    <3>5. CASE FindSource(r)
      <4>1. End(r, 404) \/ Go(r, "create") \/ Go(r, "select")
        BY <3>5 DEF FindSource
      <4>2. reply[r] # 204
        BY <3>5, FavoritesAssumption DEF FindSource, StageFits, FavoritesAssumption
      <4> QED BY <3>4, <4>1, <4>2 DEF End, Go, FavoritesTypes
    <3>6. CASE SelectSources(r)
      BY <3>4, <3>6, FavoritesAssumption
         DEF SelectSources, End, Go, FavoritesTypes, StageFits, FavoritesAssumption
    <3>7. CASE DeleteSource(r)
      <4>1. ask[r].kind # "remove"
        BY <3>7 DEF DeleteSource, StageFits, StagesOf
      <4> QED BY <3>4, <3>7, <4>1 DEF DeleteSource, End, FavoritesTypes
    <3>8. CASE ReadProfile(r) \/ ReadFavorites(r) \/ AskSource(r)
      <4>1. ask[r].kind # "remove"
        BY <3>8 DEF ReadProfile, ReadFavorites, AskSource, StageFits, StagesOf
      <4> QED BY <2>1, <2>3, <4>1 DEF StaysAway
    <3>9. CASE Answer(r)
      BY <3>4, <3>9 DEF Answer, End, FavoritesTypes
    <3> QED BY <1>2, <3>1, <3>2, <3>3, <3>5, <3>6, <3>7, <3>8, <3>9, <3>10 DEF StepOf
  <2> QED BY <2>2, <2>3
<1>3. CASE UNCHANGED <<ask, stage, reply, since, favorites>>
  BY <1>3 DEF StaysAway, OfName, Concerns
<1> QED BY <1>1, <1>2, <1>3 DEF FavoritesNext, Take, Finish

(* What excused a list from having a favorite stays.                        *)
LEMMA StaysExcused ==
  ASSUME FavoritesTypes, NEW q \in Clients, UNCHANGED <<ask, health>>,
         since[q] \subseteq since'[q], results[q] \subseteq results'[q], NEW s
  PROVE  /\ DeletedMeanwhile(q, s) => DeletedMeanwhile(q, s)'
         /\ Excused(q, s) => Excused(q, s)'
BY DEF DeletedMeanwhile, Excused

(* A source that is deleted while a list is made is deleted meanwhile.       *)
LEMMA GoneIsDeletedMeanwhile ==
  ASSUME FavoritesTypes, KnowsOthers, NEW r \in Clients, StageFits(r), StepOf(r),
         NEW q \in Clients, q # r, stage[q] # "idle", NEW s \in sources
  PROVE  s \in sources' \/ DeletedMeanwhile(q, s)
<1>1. r \in since[q]
  BY StepMoves DEF KnowsOthers
<1>2. CASE DeleteSource(r)
  <2>1. ask[r].kind = "deleteSource"
    BY <1>2, FavoritesAssumption
       DEF DeleteSource, StageFits, StagesOf, FavoritesAssumption, FavoritesTypes
  <2> QED BY <1>1, <1>2, <2>1 DEF DeleteSource, DeletedMeanwhile
<1>3. CASE sources' = sources
  BY <1>3
<1> QED BY <1>2, <1>3
        DEF StepOf, FindSource, Create, AddFavorite, SelectSources, DeleteFavorites, PublishEvent,
            ReadProfile, ReadFavorites, AskSource, Answer

(* What a list has found is being asked for until it is answered.           *)
LEMMA ListStep ==
  ASSUME FavoritesTypes, KnowsOthers, PoolFits, \A r \in Clients : RequestFits(r), FavoritesNext
  PROVE  \A r \in Clients : ListInv(r)'
<1> USE DEF RequestFits
<1>1. ASSUME NEW r \in Clients, Arrive(r), NEW q \in Clients PROVE ListInv(q)'
  <2>1. /\ UNCHANGED <<ask, timeout, health, sources, found, asked, queue, working, results>>
        /\ stage'[q] \in {stage[q], ask[q].kind}
    BY <1>1 DEF Arrive, Go, setting, lists, FavoritesTypes
  <2>2. since[q] \subseteq since'[q]
    BY <1>1 DEF Arrive, KnowsOthers
  <2>3. \A s : /\ DeletedMeanwhile(q, s) => DeletedMeanwhile(q, s)'
               /\ Excused(q, s) => Excused(q, s)'
    BY <2>1, <2>2, StaysExcused
  <2>4. FuturesOf(q)' = FuturesOf(q) /\ OfTenant(ask[q].user)' = OfTenant(ask[q].user)
    BY <2>1 DEF FuturesOf, OfTenant
  <2> QED BY <2>1, <2>3, <2>4 DEF ListInv
<1>2. ASSUME NEW r \in Clients, StepOf(r), NEW q \in Clients PROVE ListInv(q)'
  <2>1. UNCHANGED <<ask, since, timeout, health, working, results>> /\ sources' \subseteq sources
    BY <1>2, StepMoves
  <2>2. \A s : /\ DeletedMeanwhile(q, s) => DeletedMeanwhile(q, s)'
               /\ Excused(q, s) => Excused(q, s)'
    BY <2>1, StaysExcused
  <2>3. CASE q # r
    <3>1. stage'[q] = stage[q] /\ found'[q] = found[q] /\ asked'[q] = asked[q]
      BY <1>2, <2>3, OthersStay
    <3>2. queue \subseteq queue' /\ \A t \in queue' \ queue : t[1] = r
      BY <1>2 DEF StepOf, FindSource, Create, AddFavorite, SelectSources, DeleteFavorites, PublishEvent,
                  DeleteSource, ReadProfile, ReadFavorites, AskSource, Answer, lists
    <3>3. FuturesOf(q)' = FuturesOf(q)
      BY <2>1, <2>3, <3>2 DEF FuturesOf
    <3>4. OfTenant(ask[q].user)' \subseteq OfTenant(ask[q].user)
      BY <2>1 DEF OfTenant
    <3>5. ASSUME stage[q] # "idle", NEW s, s \in sources \/ DeletedMeanwhile(q, s)
          PROVE  s \in sources' \/ DeletedMeanwhile(q, s)'
      BY <1>2, <2>2, <2>3, <3>5, GoneIsDeletedMeanwhile
    <3> QED BY <2>1, <2>2, <3>1, <3>2, <3>3, <3>4, <3>5 DEF ListInv
  <2>4. CASE q = r /\ ReadProfile(r)
    <3>1. /\ stage'[r] = "favorites" /\ asked'[r] = OfTenant(ask[r].user)
          /\ OfTenant(ask[r].user)' = OfTenant(ask[r].user)
      BY <2>4 DEF ReadProfile, Go, FavoritesTypes, setting, OfTenant
    <3> QED BY <2>1, <2>4, <3>1 DEF ListInv
  <2>5. CASE q = r /\ ReadFavorites(r)
    <3>1. /\ stage[r] = "favorites" /\ stage'[r] = "get" /\ sources' = sources
          /\ found'[r] = {f[2] : f \in {g \in favorites : g[1] = ask[r].user}}
          /\ asked'[r] = {s \in asked[r] : Name[s] \in FavoriteNames(ask[r].user)}
      BY <2>5 DEF ReadFavorites, Go, Keep, FavoritesTypes
    <3>2. ask[r].kind = "list" => OfTenant(ask[r].user) \subseteq asked[r]
      BY <3>1 DEF ListInv
    <3>3. ASSUME ask[r].kind = "list", NEW s \in found'[r]
          PROVE  s \in sources' /\ (s \in asked'[r] \/ Excused(r, s))
      <4>1. s \in sources /\ Name[s] \in FavoriteNames(ask[r].user)
        BY <3>1 DEF FavoritesTypes, FavoriteNames
      <4>2. s \in asked'[r] \/ Owner[s] # UserTenant[ask[r].user]
        BY <3>1, <3>2, <3>3, <4>1 DEF OfTenant
      <4> QED BY <3>1, <4>1, <4>2 DEF Excused
    <3> QED BY <2>1, <2>2, <2>5, <3>1, <3>3 DEF ListInv
  <2>6. CASE q = r /\ AskSource(r)
    <3>1. /\ stage[r] = "get" /\ UNCHANGED <<stage, sources, found>>
      BY <2>6 DEF AskSource
    <3>2. PICK s \in asked[r] :
            /\ asked'[r] = asked[r] \ {s}
            /\ \/ queue' = queue \cup {<<r, s>>}
               \/ (s \notin sources \/ health[s] = "missing") /\ queue' = queue
      BY <2>6 DEF AskSource, FavoritesTypes
    <3>3. ASSUME ask[r].kind = "list", NEW t \in found[r]
          PROVE  t \in asked'[r] \/ <<r, t>> \in queue' \cup working' \/ Excused(r, t)
      <4>1. /\ t \in sources \/ DeletedMeanwhile(r, t)
            /\ t \in asked[r] \/ <<r, t>> \in queue \cup working \/ Excused(r, t)
        BY <3>1, <3>3 DEF ListInv
      <4>2. CASE t = s
        BY <2>1, <3>2, <4>1, <4>2 DEF Excused
      <4>3. CASE t # s
        BY <2>1, <3>2, <4>1, <4>3
      <4> QED BY <4>2, <4>3
    <3>4. ASSUME ask[r].kind = "list", NEW t \in found[r] PROVE t \in sources' \/ DeletedMeanwhile(r, t)
      BY <3>1, <3>4 DEF ListInv
    <3> QED BY <2>1, <2>2, <2>6, <3>1, <3>3, <3>4 DEF ListInv
  <2>7. CASE q = r /\ Answer(r)
    <3>1. /\ stage[r] = "get" /\ stage'[r] = "end" /\ asked[r] = {} /\ UNCHANGED <<found, queue>>
      BY <2>7 DEF Answer, End, lists, FavoritesTypes
    <3>2. ~timeout => FuturesOf(r) = {}
      BY <2>7 DEF Answer, AllCompleted
    <3>3. ~timeout => \A s \in FavoriteSources : <<r, s>> \notin queue \cup working
      BY <3>2 DEF FuturesOf
    <3>4. found[r] \subseteq FavoriteSources /\ FuturesOf(r)' = FuturesOf(r)
      BY <2>1, <3>1 DEF FavoritesTypes, FuturesOf
    <3> QED BY <2>1, <2>2, <2>7, <3>1, <3>2, <3>3, <3>4 DEF ListInv
  <2>8. CASE q = r /\ ~ReadProfile(r) /\ ~ReadFavorites(r) /\ ~AskSource(r) /\ ~Answer(r)
    <3>1. ask[r].kind # "list"
      BY <1>2, <2>8
         DEF StepOf, FindSource, Create, AddFavorite, SelectSources, DeleteFavorites, PublishEvent,
             DeleteSource, StageFits, StagesOf
    <3> QED BY <2>1, <2>8, <3>1 DEF ListInv
  <2> QED BY <2>3, <2>4, <2>5, <2>6, <2>7, <2>8
<1>3. ASSUME NEW task \in queue, Take(task), NEW q \in Clients PROVE ListInv(q)'
  <2>1. UNCHANGED <<ask, timeout, health, sources, found, asked, results, stage, since>>
        /\ queue' \cup working' = queue \cup working
    BY <1>3 DEF Take
  <2> QED BY <2>1 DEF ListInv, Excused, DeletedMeanwhile, FuturesOf, OfTenant
<1>4. ASSUME NEW task \in working, Finish(task), NEW q \in Clients PROVE ListInv(q)'
  <2>1. /\ UNCHANGED <<ask, timeout, health, sources, found, asked, stage, queue, since>>
        /\ working' = working \ {task}
    BY <1>4 DEF Finish
  <2>2. task[1] \in Clients /\ task = <<task[1], task[2]>>
    BY DEF FavoritesTypes
  <2>3. results[q] \subseteq results'[q]
    BY <1>4, <2>2 DEF Finish, FavoritesTypes
  <2>4. ASSUME NEW s, task = <<q, s>>, stage[q] = "get" PROVE s \in results'[q] \/ health[s] # "ok"
    BY <1>4, <2>2, <2>4 DEF Finish, FavoritesTypes
  <2>5. \A s : /\ DeletedMeanwhile(q, s) => DeletedMeanwhile(q, s)'
               /\ Excused(q, s) => Excused(q, s)'
    BY <2>1, <2>3, StaysExcused
  <2>6. FuturesOf(q)' \subseteq FuturesOf(q) /\ OfTenant(ask[q].user)' = OfTenant(ask[q].user)
    BY <2>1 DEF FuturesOf, OfTenant
  <2>7. ASSUME NEW s, <<q, s>> \in queue \cup working, stage[q] = "get"
        PROVE  <<q, s>> \in queue' \cup working' \/ Excused(q, s)'
    BY <2>1, <2>4, <2>7 DEF Excused
  <2> QED BY <2>1, <2>5, <2>6, <2>7 DEF ListInv
<1> QED BY <1>1, <1>2, <1>3, <1>4 DEF FavoritesNext

(***************************************************************************)
(* Events.  What disturbs them stays: requests that overlapped did so for   *)
(* good, and two in progress do overlap.                                   *)
(***************************************************************************)
LEMMA DisturbedStays ==
  ASSUME FavoritesTypes, KnowsOthers, \A r \in Clients : StageFits(r), FavoritesNext,
         NEW u, NEW n, Disturbed(u, n)
  PROVE  Disturbed(u, n)'
<1>1. ASSUME NEW q \in Clients
      PROVE  since[q] \subseteq since'[q] /\ (stage[q] # "idle" => stage'[q] # "idle")
  <2>1. ASSUME NEW r \in Clients, Arrive(r)
        PROVE  since[q] \subseteq since'[q] /\ (stage[q] # "idle" => stage'[q] # "idle")
    BY <2>1 DEF Arrive, Go, FavoritesTypes, KnowsOthers
  <2>2. ASSUME NEW r \in Clients, StepOf(r)
        PROVE  since[q] \subseteq since'[q] /\ (stage[q] # "idle" => stage'[q] # "idle")
    BY <2>2, StepMoves, OthersStay
  <2> QED BY <2>1, <2>2 DEF FavoritesNext, Take, Finish
<1>2. ask' = ask
  <2>1. ASSUME NEW r \in Clients, StepOf(r) PROVE ask' = ask
    BY <2>1, StepMoves
  <2> QED BY <2>1 DEF FavoritesNext, Arrive, Take, Finish, setting
<1>3. CASE \E q, r \in Clients : q # r /\ Concerns(q, u, n) /\ Concerns(r, u, n) /\ Overlap(q, r)
  BY <1>1, <1>2, <1>3 DEF Disturbed, Concerns, Overlap
<1>4. CASE \E s \in FavoriteSources : Name[s] = n /\ Deleting(s)
  BY <1>1, <1>2, <1>4 DEF Disturbed, Deleting
<1> QED BY <1>3, <1>4 DEF Disturbed

LEMMA TwoOverlap ==
  ASSUME KnowsOthers, NEW u, NEW n, NEW q \in Clients, NEW r \in Clients, q # r,
         Concerns(q, u, n), Concerns(r, u, n), Busy(q), Busy(r)
  PROVE  Disturbed(u, n)
BY DEF KnowsOthers, Disturbed, Overlap, Busy

(* A request that neither publishes nor is about to leaves the events be.   *)
LEMMA QuietStep ==
  ASSUME FavoritesTypes, NEW u, NEW n, EventsFollow(u, n),
         \A r \in Clients : stage'[r] = "publish" <=> stage[r] = "publish",
         UNCHANGED <<ask, seen>>, OfName(u, n)' <=> OfName(u, n)
  PROVE  EventsFollow(u, n)'
BY DEF EventsFollow, Concerns

LEMMA EventsStep ==
  ASSUME FavoritesTypes, KnowsOthers, \A r \in Clients : RequestFits(r), FavoritesNext,
         NEW u, NEW n, Disturbed(u, n) \/ EventsFollow(u, n)
  PROVE  Disturbed(u, n)' \/ EventsFollow(u, n)'
<1> USE DEF RequestFits
<1> SUFFICES ASSUME ~Disturbed(u, n)' PROVE EventsFollow(u, n)'
  OBVIOUS
<1>1. ~Disturbed(u, n) /\ EventsFollow(u, n)
  BY DisturbedStays
<1>2. ASSUME NEW r \in Clients, Arrive(r) PROVE EventsFollow(u, n)'
  <2>1. UNCHANGED <<ask, seen, favorites>>
    BY <1>2 DEF Arrive, Go, setting
  <2>2. \A q \in Clients : stage'[q] = "publish" <=> stage[q] = "publish"
    BY <1>2, FavoritesAssumption DEF Arrive, Go, FavoritesTypes, FavoritesAssumption
  <2>3. OfName(u, n)' <=> OfName(u, n)
    BY <2>1 DEF OfName
  <2> QED BY <1>1, <2>1, <2>2, <2>3, QuietStep
<1>3. ASSUME NEW r \in Clients, StepOf(r) PROVE EventsFollow(u, n)'
  <2>1. ask' = ask /\ Busy(r)
    BY <1>3, StepMoves
  <2>2. \A q \in Clients : q # r => stage'[q] = stage[q]
    BY <1>3, OthersStay
  <2>3. \A q \in Clients : q # r /\ Concerns(q, u, n) /\ stage[q] = "publish" => ~Concerns(r, u, n)
    BY <1>1, <2>1, TwoOverlap DEF Busy
  <2>4. CASE seen' = seen /\ stage'[r] # "publish" /\ stage[r] # "publish" /\ (OfName(u, n)' <=> OfName(u, n))
    BY <1>1, <2>1, <2>2, <2>4, QuietStep
  <2>5. CASE AddFavorite(r) \/ DeleteFavorites(r)
    <3>1. seen' = seen /\ stage[r] # "publish"
      BY <2>5 DEF AddFavorite, DeleteFavorites
    <3>2. /\ ask[r].kind \in {"add", "remove"}
          /\ ~Concerns(r, u, n) => (OfName(u, n)' <=> OfName(u, n))
          /\ \/ favorites' = favorites /\ stage'[r] = "end"
             \/ /\ stage'[r] = "publish"
                /\ Concerns(r, u, n) => (ask[r].kind = "add" <=> OfName(u, n)')
      BY <2>5, CreateAdds, DeleteRemoves
    <3>3. CASE favorites' = favorites /\ stage'[r] = "end"
      BY <2>4, <3>1, <3>3 DEF OfName
    <3>4. CASE stage'[r] = "publish" /\ Concerns(r, u, n)
      <4>1. \A q \in Clients : Concerns(q, u, n) /\ stage'[q] = "publish" => q = r
        BY <2>2, <2>3, <3>4
      <4>2. ask[r].kind = "add" <=> OfName(u, n)'
        BY <3>2, <3>4
      <4> QED BY <2>1, <3>4, <4>1, <4>2 DEF EventsFollow, Concerns
    <3>5. CASE ~Concerns(r, u, n)
      <4>1. OfName(u, n)' <=> OfName(u, n)
        BY <3>2, <3>5
      <4> QED BY <1>1, <2>1, <2>2, <3>1, <3>5, <4>1 DEF EventsFollow, Concerns
    <3> QED BY <3>2, <3>3, <3>4, <3>5
  <2>6. CASE PublishEvent(r)
    <3>1. ask[r].kind \in {"add", "remove"}
      BY <2>6, FavoritesAssumption
         DEF PublishEvent, StageFits, StagesOf, FavoritesAssumption, FavoritesTypes
    <3>2. stage[r] = "publish" /\ stage'[r] = "end" /\ favorites' = favorites
      BY <2>6 DEF PublishEvent, End, FavoritesTypes
    <3>3. OfName(u, n)' <=> OfName(u, n)
      BY <3>2 DEF OfName
    <3>4. CASE Concerns(r, u, n)
      <4>1. <<u, n>> \in seen' <=> ask[r].kind = "add"
        BY <2>6, <3>4, <3>1 DEF PublishEvent, Event, Concerns
      <4>2. ask[r].kind = "add" <=> OfName(u, n)
        BY <1>1, <3>2, <3>4 DEF EventsFollow
      <4>3. \A q \in Clients : ~(Concerns(q, u, n) /\ stage'[q] = "publish")
        BY <2>2, <2>3, <3>2, <3>4
      <4> QED BY <2>1, <3>3, <4>1, <4>2, <4>3 DEF EventsFollow, Concerns
    <3>5. CASE ~Concerns(r, u, n)
      <4>1. <<u, n>> # <<ask[r].user, ask[r].name>>
        BY <3>1, <3>5 DEF Concerns
      <4>2. <<u, n>> \in seen' <=> <<u, n>> \in seen
        BY <2>6, <4>1 DEF PublishEvent, Event
      <4> QED BY <1>1, <2>1, <2>2, <3>2, <3>3, <3>5, <4>2 DEF EventsFollow, Concerns
    <3> QED BY <3>4, <3>5
  <2>7. CASE DeleteSource(r)
    <3>1. seen' = seen /\ stage[r] = "deleteSource" /\ stage'[r] = "end"
          /\ favorites' = {f \in favorites : f[2] # ask[r].source}
      BY <2>7 DEF DeleteSource, End, FavoritesTypes
    <3>2. ask[r].kind = "deleteSource"
      BY <3>1, FavoritesAssumption
         DEF StageFits, StagesOf, FavoritesAssumption, FavoritesTypes
    <3>3. \A f \in favorites : Name[f[2]] = n => f[2] # ask[r].source
      BY <1>1, <3>1, <3>2 DEF Disturbed, Deleting, FavoritesTypes
    <3>4. OfName(u, n)' <=> OfName(u, n)
      BY <3>1, <3>3 DEF OfName
    <3> QED BY <2>4, <3>1, <3>4
  <2>8. CASE \/ FindSource(r) \/ Create(r) \/ SelectSources(r) \/ ReadProfile(r) \/ ReadFavorites(r)
             \/ AskSource(r) \/ Answer(r)
    <3>1. UNCHANGED <<seen, favorites>> /\ stage[r] # "publish"
      BY <2>8 DEF FindSource, Create, SelectSources, ReadProfile, ReadFavorites, AskSource, Answer
    <3>2. stage'[r] # "publish"
      <4>1. CASE FindSource(r) \/ Create(r) \/ SelectSources(r)
        <5>1. \/ End(r, 404) \/ End(r, 500) \/ Go(r, "create") \/ Go(r, "insert") \/ Go(r, "select")
              \/ Go(r, "delete")
          BY <4>1 DEF FindSource, Create, SelectSources
        <5> QED BY <5>1 DEF Go, End, FavoritesTypes
      <4>2. CASE ReadProfile(r) \/ ReadFavorites(r) \/ Answer(r)
        <5>1. End(r, 200) \/ Go(r, "favorites") \/ Go(r, "get")
          BY <4>2 DEF ReadProfile, ReadFavorites, Answer
        <5> QED BY <5>1 DEF Go, End, FavoritesTypes
      <4>3. CASE AskSource(r)
        BY <3>1, <4>3 DEF AskSource
      <4> QED BY <2>8, <4>1, <4>2, <4>3
    <3> QED BY <2>4, <3>1, <3>2 DEF OfName
  <2> QED BY <1>3, <2>5, <2>6, <2>7, <2>8 DEF StepOf
<1>4. CASE UNCHANGED <<ask, stage, seen, favorites>>
  BY <1>1, <1>4, QuietStep DEF OfName
<1> QED BY <1>2, <1>3, <1>4 DEF FavoritesNext, Take, Finish

-------------------------------------------------------------------------------
LEMMA FavoritesInitInv == FavoritesInit => FavoritesInv
<1> SUFFICES ASSUME FavoritesInit PROVE FavoritesInv
  OBVIOUS
<1> USE DEF FavoritesInit
<1>0. \A r \in Clients : ask[r].kind \in {"add", "remove", "list", "deleteSource"}
  BY FavoritesAssumption DEF FavoritesAssumption
<1>1. \A f \in favorites : f[1] \in DOMAIN UserTenant /\ f[2] \in FavoriteSources
                           /\ f = <<f[1], f[2]>> /\ Owner[f[2]] = UserTenant[f[1]]
  OBVIOUS
<1>2. FavoritesTypes
  BY <1>1 DEF FavoritesTypes, Statuses
<1>3. KnowsOthers /\ FavoritesAreOfTheirTenant
  BY <1>1 DEF KnowsOthers, FavoritesAreOfTheirTenant, Busy
<1>4. PoolFits
  BY FS_EmptySet, FavoritesAssumption DEF PoolFits, FavoritesAssumption
<1>5. ASSUME NEW r \in Clients PROVE RequestFits(r)
  BY <1>0, FavoritesAssumption
     DEF RequestFits, StageFits, StagesOf, FoundFits, StaysAway, ListInv, FavoritesAssumption
<1>6. ASSUME NEW u, NEW n PROVE EventsFollow(u, n)
  <2>1. <<u, n>> \in seen <=> OfName(u, n)
    BY <1>1 DEF OfName
  <2> QED BY <2>1 DEF EventsFollow
<1> QED BY <1>2, <1>3, <1>4, <1>5, <1>6 DEF FavoritesInv

LEMMA FavoritesKeepInv == FavoritesInv /\ FavoritesNext => FavoritesInv'
<1> SUFFICES ASSUME FavoritesInv, FavoritesNext PROVE FavoritesInv'
  OBVIOUS
<1>0. FavoritesTypes /\ KnowsOthers /\ PoolFits /\ FavoritesAreOfTheirTenant
      /\ \A r \in Clients : RequestFits(r) /\ StageFits(r) /\ FoundFits(r)
  BY DEF FavoritesInv, RequestFits
<1>1. FavoritesTypes'
  BY <1>0, TypesStep
<1>2. KnowsOthers' /\ PoolFits' /\ FavoritesAreOfTheirTenant'
  BY <1>0, KnowsOthersStep, PoolStep, TenantStep
<1>3. \A r \in Clients : RequestFits(r)'
  BY <1>0, StageStep, FoundStep, AwayStep, ListStep DEF RequestFits
<1>4. ASSUME NEW u \in DOMAIN UserTenant, NEW n \in {Name[s] : s \in FavoriteSources}
      PROVE  Disturbed(u, n)' \/ EventsFollow(u, n)'
  <2>1. Disturbed(u, n) \/ EventsFollow(u, n)
    BY DEF FavoritesInv
  <2> QED BY <1>0, <2>1, EventsStep
<1> QED BY <1>1, <1>2, <1>3, <1>4 DEF FavoritesInv

LEMMA FavoritesStutter == FavoritesInv /\ UNCHANGED favoriteVars => FavoritesInv'
<1> SUFFICES ASSUME FavoritesInv, UNCHANGED favoriteVars PROVE FavoritesInv'
  OBVIOUS
<1> USE DEF favoriteVars, FavoritesInv
<1>1. FavoritesTypes'
  BY DEF FavoritesTypes
<1>2. KnowsOthers' /\ PoolFits' /\ FavoritesAreOfTheirTenant'
  BY DEF KnowsOthers, PoolFits, FavoritesAreOfTheirTenant, Busy
<1>3. \A r \in Clients : RequestFits(r)'
  BY DEF RequestFits, StageFits, FoundFits, Named, StaysAway, Concerns, OfName, ListInv, Excused, DeletedMeanwhile,
         FuturesOf, OfTenant
<1>4. ASSUME NEW u \in DOMAIN UserTenant, NEW n \in {Name[s] : s \in FavoriteSources}
      PROVE  Disturbed(u, n)' \/ EventsFollow(u, n)'
  <2>1. CASE Disturbed(u, n)
    BY <2>1 DEF Disturbed, Concerns, Overlap, Deleting
  <2>2. CASE EventsFollow(u, n)
    BY <2>2 DEF Concerns, EventsFollow, OfName
  <2> QED BY <2>1, <2>2
<1> QED BY <1>1, <1>2, <1>3, <1>4

(* Favorites, the events about them and the lists of their contacts agree,   *)
(* whatever the requests, the sources and the back-ends that fail           *)
(* (_FavoritesService, FavoriteCRUD).                                      *)
THEOREM SpecFavoritesAgree == Spec => []FavoritesAgree
<1>1. Init => FavoritesInv
  BY FavoritesInitInv DEF Init
<1>2. FavoritesInv /\ [Next]_vars => FavoritesInv'
  BY FavoritesKeepInv, FavoritesStutter
     DEF Next, AnswerView, ChangeProfiles, ChangeFavorites, vars
<1>3. FavoritesInv => FavoritesAgree
  <2> SUFFICES ASSUME FavoritesInv PROVE FavoritesAgree
    OBVIOUS
  <2> USE DEF FavoritesInv
  <2>0. /\ FavoritesTypes /\ PoolFits
        /\ \A r \in Clients : StageFits(r) /\ StaysAway(r) /\ ListInv(r)
    BY DEF RequestFits
  <2>1. FavoritesTypeOK
    BY <2>0 DEF FavoritesTypes, PoolFits, StageFits, FavoritesTypeOK
  <2>2. RemovedStaysAway
    BY <2>0 DEF RemovedStaysAway, StaysAway, OfName
  <2>3. SubscribersAgree
    <3> SUFFICES ASSUME NEW u \in DOMAIN UserTenant, NEW n \in {Name[s] : s \in FavoriteSources},
                        ~Disturbed(u, n), \A r \in Clients : ~(Concerns(r, u, n) /\ Busy(r))
                 PROVE  <<u, n>> \in seen <=> n \in FavoriteNames(u)
      BY Zenon DEF SubscribersAgree, Disturbed
    <3>1. <<u, n>> \in seen <=> OfName(u, n)
      BY DEF EventsFollow, Busy
    <3>2. OfName(u, n) <=> n \in FavoriteNames(u)
      BY DEF OfName, FavoriteNames
    <3> QED BY <3>1, <3>2
  <2>4. ListIsWhole
    <3>1. \A r \in Clients : reply[r] = 200 => stage[r] = "end"
      BY <2>0, FavoritesAssumption DEF StageFits, FavoritesAssumption
    <3> QED BY <2>0, <3>1 DEF ListIsWhole, ListInv, Excused, DeletedMeanwhile
  <2> QED BY <2>1, <2>2, <2>3, <2>4 DEF FavoritesAgree
<1> QED BY <1>1, <1>2, <1>3, PTL DEF Spec

-------------------------------------------------------------------------------
(***************************************************************************)
(* Profiles: where a request is tells which rows it has inserted, and what   *)
(* it has deleted is what it was to delete and the rows that refer to it.   *)
(***************************************************************************)
Edits(r) == body[r].kind \in {"editProfile", "editDisplay"}
Deletes(r) == body[r].kind \in {"deleteProfile", "deleteDisplay", "deleteSource"}
Size(r) == Len(Statements(r))

StoreTypes ==
  /\ body \in [Requests -> Bodies] /\ at \in [Requests -> Nat]
  /\ answer \in [Requests -> {Unset, 201, 204, 400, 404, 409, 500}]
  /\ there \subseteq AllRows
  /\ added \in [Requests -> SUBSET AllRows]
  /\ removed \in [Requests -> SUBSET AllRows]
  /\ updated \in [Requests -> SUBSET AllRows]
  /\ todo \in [Requests -> (SUBSET AllRows) \cup {Unset}]
  /\ named \in Requests \cup {Unset, There}
  /\ overlaps \in [Requests -> SUBSET Requests]

AddedBy(r) ==
  IF ~Active(r) THEN {}
  ELSE (IF body[r].kind = "createProfile" /\ at[r] > 2 THEN {Profile(r)} ELSE {})
       \cup (IF body[r].kind \in {"editProfile", "createProfile"} /\ at[r] > Size(r)
             THEN {Service(r)} \cup {Link(r, body[r].sources[i]) : i \in 1 .. at[r] - Size(r) - 1}
             ELSE {})
       \cup (IF body[r].kind = "editDisplay" /\ at[r] > 4 THEN {Column(r)} ELSE {})

Clearing(r) ==
  \/ body[r].kind = "editProfile" /\ at[r] = 1
  \/ body[r].kind = "editDisplay" /\ at[r] = 2
  \/ Deletes(r) /\ at[r] = 1

Place(r) ==
  /\ at[r] = 0 => answer[r] = Unset /\ overlaps[r] = {}
  /\ at[r] <= Size(r) + Len(body[r].sources) + 1
  /\ ~Active(r) => removed[r] = {} /\ updated[r] = {} /\ todo[r] = Unset
  /\ added[r] = AddedBy(r)
  /\ updated[r] # {} => updated[r] = {Target(r)} /\ Edits(r) /\ body[r].renamed /\ at[r] > 3
  /\ todo[r] # Unset => Clearing(r)
  /\ named = r => Active(r) /\ body[r].kind \in {"editProfile", "createProfile"} /\ at[r] >= Size(r)

Todo(r) == IF todo[r] = Unset THEN {} ELSE todo[r]

TablesOf(r) ==
  CASE body[r].kind = "editProfile" -> {"service", "link"}
    [] body[r].kind = "editDisplay" -> {"column"}
    [] body[r].kind = "createProfile" -> {}
    [] OTHER -> {"profile", "display", "source", "shown", "service", "link", "column"}

(* A row is deleted for being asked for, or for what it refers to.          *)
Reason(r, x) ==
  /\ x[1] \in TablesOf(r)
  /\ \/ Deletes(r) /\ x = Target(r)
     \/ Edits(r) /\ Target(r) \in Parents(x)
     \/ x[1] # "profile" /\ Parents(x) \cap removed[r] # {}
  /\ x[2] # 0 => x[2] \in Requests /\ answer[x[2]] # Unset

NotStarted(r) ==
  \/ body[r].kind = "editProfile" /\ at[r] = 1
  \/ body[r].kind = "editDisplay" /\ at[r] < 3

Deletion(r) ==
  /\ removed[r] \subseteq there
  /\ \A x \in removed[r] \cup Todo(r) : Reason(r, x)
  /\ \A x \in removed[r], c \in Visible(r) : x \in Parents(c) /\ c[1] # "profile" => c \in Todo(r)
  /\ NotStarted(r) /\ todo[r] = Unset => removed[r] = {}
  /\ Edits(r) => \A x \in removed[r], y \in Todo(r) : Before(x, y)

(* What an edit has cleared is gone, but for what others wrote since.       *)
RowsToClear(r) == IF body[r].kind = "editProfile" THEN ServicesOf(Profile(0)) ELSE Columns
Cleared(r) ==
  Active(r) /\ Edits(r) /\ (todo[r] # Unset \/ ~NotStarted(r)) =>
    \A x \in RowsToClear(r) \ removed[r] :
      x \in Todo(r) \/ (x[2] # 0 /\ Together(x[2], r) /\ Together(r, x[2]))

(***************************************************************************)
(* Between requests: locks keep each from deleting what another has, or     *)
(* what another's rows refer to.                                           *)
(***************************************************************************)
Apart(q, r) ==
  /\ removed[q] \cap removed[r] = {} /\ updated[q] \cap updated[r] = {}
  /\ \A c \in added[q] : Parents(c) \cap removed[r] = {}
  /\ Active(q) /\ Active(r) => Together(q, r)

(* The committed rows.                                                     *)
Written ==
  \A x \in there :
    /\ x[2] # 0 => /\ x[2] \in Requests /\ answer[x[2]] \in {201, 204}
                   /\ x[1] = "link" => \E i \in DOMAIN body[x[2]].sources : body[x[2]].sources[i] = x[3]
    /\ x[1] # "profile" => Parents(x) \subseteq there

Whole(r) ==
  Service(r) \in there =>
    \A i \in DOMAIN body[r].sources :
      SourceRow(body[r].sources[i]) \in there => Link(r, body[r].sources[i]) \in there

RequestKept(r) ==
  /\ Place(r) /\ Deletion(r) /\ Cleared(r) /\ Whole(r)
  /\ \A c \in added[r] : Parents(c) \subseteq Visible(r)

StoreInv ==
  /\ StoreTypes /\ Written /\ DuplicatesOnlyByOverlap /\ AnEditRemains
  /\ \A r \in Requests : RequestKept(r)
  /\ \A q, r \in Requests : q # r => Apart(q, r)

-------------------------------------------------------------------------------
TableNames == {"profile", "display", "source", "shown", "service", "link", "column"}

LEMMA RowShape ==
  ASSUME NEW x \in AllRows
  PROVE  /\ x[1] \in TableNames /\ x[2] \in Nat /\ x[3] \in Nat
         /\ x[1] = "profile" => x = Profile(x[2])
         /\ x[1] = "display" => x = Display
         /\ x[1] = "source" => x = SourceRow(x[3])
         /\ x[1] = "shown" => x = Shown
         /\ x[1] = "service" => x = Service(x[2])
         /\ x[1] = "link" => x = Link(x[2], x[3])
         /\ x[1] = "column" => x = Column(x[2])
         /\ x[2] # 0 => x[2] \in Requests
<1> USE DEF Profile, Display, SourceRow, Shown, Service, Link, Column, TableNames
<1>1. Requests \subseteq Nat \ {0} /\ StoreSources \subseteq Nat
  BY StoreAssumption DEF StoreAssumption
<1>2. CASE x \in FirstRows
  BY <1>1, <1>2 DEF FirstRows
<1>3. CASE x \in ServiceRows
  BY <1>1, <1>3 DEF ServiceRows
<1>4. ASSUME NEW r \in Requests, x \in RowsOfRequest(r) PROVE
         /\ x[1] \in TableNames /\ x[2] \in Nat /\ x[3] \in Nat
         /\ x[1] = "profile" => x = Profile(x[2])
         /\ x[1] = "display" => x = Display
         /\ x[1] = "source" => x = SourceRow(x[3])
         /\ x[1] = "shown" => x = Shown
         /\ x[1] = "service" => x = Service(x[2])
         /\ x[1] = "link" => x = Link(x[2], x[3])
         /\ x[1] = "column" => x = Column(x[2])
         /\ x[2] # 0 => x[2] \in Requests
  BY <1>1, <1>4 DEF RowsOfRequest
<1> QED BY <1>2, <1>3, <1>4 DEF AllRows

LEMMA ParentsAre ==
  /\ \A w : Parents(Service(w)) = {ProfileOf(w)}
  /\ \A w, s : Parents(Link(w, s)) = {Service(w), SourceRow(s)}
  /\ \A w : Parents(Column(w)) = {Display}
  /\ Parents(Shown) = {Display, Profile(0)}
  /\ \A w : Parents(Profile(w)) = {Display}
  /\ Parents(Display) = {}
  /\ \A s : Parents(SourceRow(s)) = {}
BY DEF Parents, Profile, Display, SourceRow, Shown, Service, Link, Column

(* Tables of the rows that a row refers to.                                *)
LEMMA ParentTables ==
  ASSUME NEW x \in AllRows, NEW p \in Parents(x)
  PROVE  /\ x[1] \in {"service", "link", "column", "shown", "profile"}
         /\ x[1] = "service" => p = ProfileOf(x[2]) /\ p[1] = "profile"
         /\ x[1] = "link" => p \in {Service(x[2]), SourceRow(x[3])} /\ p[1] \in {"service", "source"}
         /\ x[1] = "column" => p = Display
         /\ x[1] = "shown" => p \in {Display, Profile(0)}
         /\ x[1] = "profile" => p = Display
BY RowShape DEF Parents, TableNames, ProfileOf, Profile, Display, SourceRow, Shown, Service, Link, Column

LEMMA BodyFacts ==
  ASSUME StoreTypes, NEW r \in Requests
  PROVE  /\ body[r].kind \in {"editProfile", "createProfile", "editDisplay", "deleteProfile",
                              "deleteDisplay", "deleteSource"}
         /\ body[r].sources \in Seq(StoreSources) /\ Len(body[r].sources) \in Nat
         /\ body[r].kind \notin {"editProfile", "createProfile"} => Len(body[r].sources) = 0
         /\ body[r].renamed \in BOOLEAN
         /\ r \in Nat /\ r # 0 /\ r # Unset /\ r # There
         /\ at[r] \in Nat /\ Unset # There
         /\ Size(r) = (IF body[r].kind = "editProfile" THEN 6
                       ELSE IF body[r].kind = "createProfile" THEN 5
                       ELSE IF Deletes(r) THEN 1 ELSE 4)
         /\ Size(r) \in Nat
<1>1. body[r] \in Bodies /\ at[r] \in Nat /\ Unset \notin Nat /\ r \in Nat \ {0}
  BY StoreAssumption DEF StoreTypes, StoreAssumption
<1>2. /\ body[r].kind \in {"editProfile", "createProfile", "editDisplay", "deleteProfile",
                           "deleteDisplay", "deleteSource"}
      /\ body[r].sources \in Seq(StoreSources) /\ body[r].renamed \in BOOLEAN
      /\ body[r].kind \notin {"editProfile", "createProfile"} => body[r].sources = << >>
  BY <1>1, StoreAssumption DEF StoreAssumption
<1>3. Size(r) = (IF body[r].kind = "editProfile" THEN 6
                ELSE IF body[r].kind = "createProfile" THEN 5 ELSE IF Deletes(r) THEN 1 ELSE 4)
  BY <1>2 DEF Size, Statements, Deletes, EditProfile, CreateProfile, EditDisplay, Delete
<1> QED BY <1>1, <1>2, <1>3 DEF There

(* Where a request is, for each of its statements.                          *)
LEMMA DoingAt ==
  ASSUME StoreTypes, NEW r \in Requests
  PROVE  /\ Doing(r, "clear") <=> /\ Active(r)
                                  /\ \/ body[r].kind = "editProfile" /\ at[r] = 1
                                     \/ body[r].kind = "editDisplay" /\ at[r] = 2
         /\ Doing(r, "select") <=> /\ Active(r)
                                   /\ \/ body[r].kind = "editProfile" /\ at[r] = 2
                                      \/ body[r].kind = "editDisplay" /\ at[r] = 1
         /\ Doing(r, "update") <=> Active(r) /\ Edits(r) /\ at[r] = 3
         /\ Doing(r, "service") <=> /\ Active(r)
                                    /\ \/ body[r].kind = "editProfile" /\ at[r] = 4
                                       \/ body[r].kind = "createProfile" /\ at[r] = 3
         /\ Doing(r, "name") <=> /\ Active(r)
                                 /\ \/ body[r].kind = "editProfile" /\ at[r] = 5
                                    \/ body[r].kind = "createProfile" /\ at[r] = 4
         /\ Doing(r, "row") <=> Active(r) /\ ~Deletes(r) /\ at[r] = Size(r)
         /\ Doing(r, "tenant") <=> Active(r) /\ body[r].kind = "createProfile" /\ at[r] = 1
         /\ Doing(r, "parent") <=> Active(r) /\ body[r].kind = "createProfile" /\ at[r] = 2
         /\ Doing(r, "remove") <=> Active(r) /\ Deletes(r) /\ at[r] = 1
         /\ Doing(r, "link") <=> Active(r) /\ at[r] > Size(r) /\ ~Ended(r)
<1>1. at[r] \in Nat /\ Len(body[r].sources) \in Nat
      /\ body[r].kind \in {"editProfile", "createProfile", "editDisplay", "deleteProfile",
                           "deleteDisplay", "deleteSource"}
      /\ (body[r].kind \notin {"editProfile", "createProfile"} => Len(body[r].sources) = 0)
  BY BodyFacts
<1> USE DEF Doing, Active, Ended, Statements, Edits, Deletes, Size
<1>2. CASE body[r].kind = "editProfile"
  BY <1>1, <1>2 DEF EditProfile
<1>3. CASE body[r].kind = "createProfile"
  BY <1>1, <1>3 DEF CreateProfile
<1>4. CASE body[r].kind = "editDisplay"
  BY <1>1, <1>4 DEF EditDisplay
<1>5. CASE body[r].kind = "deleteProfile"
  BY <1>1, <1>5 DEF Delete
<1>6. CASE body[r].kind = "deleteDisplay"
  BY <1>1, <1>6 DEF Delete
<1>7. CASE body[r].kind = "deleteSource"
  BY <1>1, <1>7 DEF Delete
<1> QED BY <1>1, <1>2, <1>3, <1>4, <1>5, <1>6, <1>7

(***************************************************************************)
(* A step that commits nothing is its request's own.                        *)
(***************************************************************************)
OnlyOf(r) ==
  /\ there' = there /\ body' = body
  /\ \A q \in Requests \ {r} :
       /\ at'[q] = at[q] /\ answer'[q] = answer[q] /\ added'[q] = added[q]
       /\ removed'[q] = removed[q] /\ updated'[q] = updated[q] /\ todo'[q] = todo[q]
       /\ named' = q => named = q
       /\ at[q] = 0 => overlaps'[q] = overlaps[q]
  /\ \A q \in Requests : overlaps[q] \subseteq overlaps'[q]
  /\ answer'[r] = answer[r] \/ (answer[r] = Unset /\ answer'[r] \notin {201, 204})

LEMMA OwnKeepsRows ==
  ASSUME StoreTypes, Written, DuplicatesOnlyByOverlap, AnEditRemains, NEW r \in Requests, OnlyOf(r)
  PROVE  Written' /\ DuplicatesOnlyByOverlap' /\ AnEditRemains'
<1>1. \A q \in Requests : answer[q] \in {201, 204} => answer'[q] = answer[q]
  BY StoreAssumption DEF OnlyOf, StoreAssumption
<1>2. \A q \in Requests : answer'[q] \in {201, 204} => answer'[q] = answer[q]
  BY DEF OnlyOf
<1>3. there' = there /\ body' = body
  BY DEF OnlyOf
<1>4. Written'
  BY <1>1, <1>3 DEF Written, Parents, ProfileOf
<1>5. ServicesOf(Profile(0))' = ServicesOf(Profile(0)) /\ Columns' = Columns
  BY <1>3 DEF ServicesOf, Columns, ProfileOf
<1>6. \A x, y \in there : Together(x[2], y[2]) /\ y[2] # 0 => Together(x[2], y[2])'
  BY RowShape DEF Together, OnlyOf, StoreTypes
<1>7. DuplicatesOnlyByOverlap'
  BY <1>3, <1>5, <1>6 DEF DuplicatesOnlyByOverlap, ServicesOf, Columns
<1>8. AnEditRemains'
  BY <1>2, <1>3, <1>5 DEF AnEditRemains, Done
<1> QED BY <1>4, <1>7, <1>8

LEMMA OwnKeepsOthers ==
  ASSUME StoreTypes, NEW r \in Requests, OnlyOf(r), NEW q \in Requests \ {r}, RequestKept(q)
  PROVE  RequestKept(q)'
<1> USE DEF RequestKept
<1>1. /\ there' = there /\ body' = body
      /\ at'[q] = at[q] /\ answer'[q] = answer[q] /\ added'[q] = added[q]
      /\ removed'[q] = removed[q] /\ updated'[q] = updated[q] /\ todo'[q] = todo[q]
      /\ named' = q => named = q
      /\ at[q] = 0 => overlaps'[q] = overlaps[q]
  BY DEF OnlyOf
<1>2. \A p \in Requests : answer[p] # Unset => answer'[p] # Unset
  BY DEF OnlyOf
<1>3. /\ Active(q)' <=> Active(q)
      /\ AddedBy(q)' = AddedBy(q) /\ Statements(q)' = Statements(q) /\ Target(q)' = Target(q)
      /\ (Edits(q)' <=> Edits(q)) /\ (Deletes(q)' <=> Deletes(q)) /\ (Clearing(q)' <=> Clearing(q))
      /\ Todo(q)' = Todo(q) /\ TablesOf(q)' = TablesOf(q) /\ (NotStarted(q)' <=> NotStarted(q))
      /\ Visible(q)' = Visible(q)
  BY <1>1 DEF Active, AddedBy, Statements, Size, Target, Edits, Deletes, Clearing, Todo, TablesOf,
              NotStarted, Visible
<1>4. \A x : Parents(x)' = Parents(x)
  BY <1>1 DEF Parents, ProfileOf
<1>5. Place(q)'
  BY <1>1, <1>3 DEF Place, Size
<1>6. Deletion(q)'
  <2>1. \A x \in removed[q] \cup Todo(q) : Reason(q, x)'
    BY <1>1, <1>2, <1>3, <1>4 DEF Deletion, Reason
  <2> QED BY <1>1, <1>3, <1>4, <2>1 DEF Deletion
<1>7. Cleared(q)'
  <2>1. RowsToClear(q)' = RowsToClear(q) /\ RowsToClear(q) \subseteq there
    BY <1>1 DEF RowsToClear, ServicesOf, Columns, ProfileOf
  <2>2. \A x \in there : x[2] # 0 /\ Together(x[2], q) /\ Together(q, x[2])
                           => Together(x[2], q)' /\ Together(q, x[2])'
    BY RowShape DEF Together, OnlyOf, StoreTypes
  <2> QED BY <1>1, <1>3, <2>1, <2>2 DEF Cleared
<1>8. Whole(q)'
  BY <1>1 DEF Whole
<1> QED BY <1>1, <1>3, <1>4, <1>5, <1>6, <1>7, <1>8

LEMMA OwnKeepsOthersApart ==
  ASSUME StoreTypes, NEW r \in Requests, OnlyOf(r),
         NEW q \in Requests \ {r}, NEW p \in Requests \ {r}, Apart(q, p)
  PROVE  Apart(q, p)'
BY DEF OnlyOf, Apart, Parents, ProfileOf, Active, Together

(***************************************************************************)
(* What an own step must show: the state of its request and what lies       *)
(* between it and the others.                                              *)
(***************************************************************************)
ApartFromAll(r) == \A q \in Requests \ {r} : Apart(q, r) /\ Apart(r, q)
OwnInv(r) == StoreTypes /\ RequestKept(r) /\ ApartFromAll(r)

LEMMA OwnStepKeeps ==
  ASSUME StoreInv, NEW r \in Requests, OnlyOf(r), OwnInv(r)'
  PROVE  StoreInv'
<1>1. StoreTypes /\ Written /\ DuplicatesOnlyByOverlap /\ AnEditRemains
  BY DEF StoreInv
<1>2. Written' /\ DuplicatesOnlyByOverlap' /\ AnEditRemains'
  BY <1>1, OwnKeepsRows
<1>3. \A q \in Requests : RequestKept(q)'
  <2>1. \A q \in Requests \ {r} : RequestKept(q)'
    BY <1>1, OwnKeepsOthers DEF StoreInv
  <2> QED BY <2>1 DEF OwnInv
<1>4. \A q, p \in Requests : q # p => Apart(q, p)'
  <2>1. \A q, p \in Requests \ {r} : q # p => Apart(q, p)'
    BY <1>1, OwnKeepsOthersApart DEF StoreInv
  <2> QED BY <2>1 DEF OwnInv, ApartFromAll
<1> QED BY <1>2, <1>3, <1>4 DEF StoreInv, OwnInv

(* Values of the rows that a request inserts.                               *)
LEMMA AddedAre ==
  ASSUME StoreTypes, NEW r \in Requests, NEW c \in AddedBy(r)
  PROVE  /\ Active(r) /\ c[2] = r /\ ~Deletes(r)
         /\ c[1] \in {"profile", "service", "link", "column"}
         /\ c[1] = "profile" => c = Profile(r) /\ body[r].kind = "createProfile"
         /\ c[1] = "service" => c = Service(r) /\ body[r].kind \in {"editProfile", "createProfile"}
         /\ c[1] = "column" => c = Column(r) /\ body[r].kind = "editDisplay"
         /\ c[1] = "link" => /\ at[r] > Size(r)
                             /\ \E i \in 1 .. at[r] - Size(r) - 1 : c = Link(r, body[r].sources[i])
<1>1. CASE c = Profile(r) /\ body[r].kind = "createProfile"
  BY <1>1 DEF AddedBy, Profile, Deletes
<1>2. CASE c = Service(r) /\ body[r].kind \in {"editProfile", "createProfile"}
  BY <1>2 DEF AddedBy, Service, Deletes
<1>3. CASE /\ body[r].kind \in {"editProfile", "createProfile"} /\ at[r] > Size(r)
           /\ \E i \in 1 .. at[r] - Size(r) - 1 : c = Link(r, body[r].sources[i])
  BY <1>3 DEF AddedBy, Link, Deletes
<1>4. CASE c = Column(r) /\ body[r].kind = "editDisplay"
  BY <1>4 DEF AddedBy, Column, Deletes
<1> QED BY <1>1, <1>2, <1>3, <1>4 DEF AddedBy

(* Nothing is inserted by who is deleting.                                  *)
LEMMA ClearingAddsNothing ==
  ASSUME StoreTypes, NEW r \in Requests, Place(r), Clearing(r)
  PROVE  added[r] = {} /\ updated[r] = {} /\ named # r
BY BodyFacts DEF Place, Clearing, AddedBy, Deletes, Edits

(* A rollback leaves nothing of the request.                                *)
LEMMA RollbackKeeps ==
  ASSUME StoreInv, NEW r \in Requests, Active(r),
         NEW code \in {400, 404, 409, 500}, Rollback(r, code)
  PROVE  StoreInv'
<1> USE DEF StoreInv
<1>1. /\ there' = there /\ body' = body /\ at' = at /\ overlaps' = overlaps
      /\ added' = [added EXCEPT ![r] = {}] /\ removed' = [removed EXCEPT ![r] = {}]
      /\ updated' = [updated EXCEPT ![r] = {}] /\ todo' = [todo EXCEPT ![r] = Unset]
      /\ answer' = [answer EXCEPT ![r] = code]
      /\ named' = IF named = r THEN Unset ELSE named
  BY DEF Rollback, Release
<1>2. StoreTypes /\ StoreTypes' /\ Unset # code /\ r # Unset
  <2>1. Unset # code /\ r # Unset
    BY StoreAssumption DEF StoreAssumption
  <2> QED BY <1>1, <2>1 DEF StoreTypes
<1>3. OnlyOf(r)
  BY <1>1, <1>2, BodyFacts DEF OnlyOf, StoreTypes, Active
<1>4. /\ added'[r] = {} /\ removed'[r] = {} /\ updated'[r] = {} /\ todo'[r] = Unset
      /\ answer'[r] # Unset /\ at'[r] = at[r] /\ at[r] > 0 /\ named' # r
  BY <1>1, <1>2 DEF StoreTypes, Active
<1>5. ~Active(r)'
  BY <1>4 DEF Active
<1>6. RequestKept(r)'
  <2>1. AddedBy(r)' = {} /\ Todo(r)' = {}
    BY <1>4, <1>5 DEF AddedBy, Todo
  <2>2. Place(r)'
    <3>1. Size(r)' = Size(r) /\ Place(r)
      BY <1>1 DEF Size, Statements, RequestKept
    <3> QED BY <1>1, <1>4, <1>5, <2>1, <3>1 DEF Place
  <2>3. Deletion(r)'
    BY <1>4, <2>1 DEF Deletion
  <2>4. Cleared(r)'
    BY <1>5 DEF Cleared
  <2>5. Whole(r)'
    BY <1>1 DEF Whole, RequestKept
  <2> QED BY <1>4, <2>2, <2>3, <2>4, <2>5 DEF RequestKept
<1>7. ApartFromAll(r)'
  BY <1>4, <1>5 DEF ApartFromAll, Apart
<1> QED BY <1>2, <1>3, <1>6, <1>7, OwnStepKeeps DEF OwnInv

(* What holds of the deletions of a request holds while it deletes nothing,  *)
(* but inserts rows whose parents it sees.                                  *)
LEMMA HeldKeeps ==
  ASSUME StoreTypes, StoreTypes', NEW r \in Requests, OnlyOf(r), RequestKept(r), NEW N,
         removed'[r] = removed[r], todo'[r] = todo[r], answer'[r] = answer[r],
         overlaps' = overlaps, Active(r), Active(r)', NotStarted(r)' <=> NotStarted(r),
         added'[r] = added[r] \cup N, \A c \in N : Parents(c) \subseteq Visible(r)
  PROVE  /\ Deletion(r)' /\ Cleared(r)' /\ Whole(r)'
         /\ \A c \in added'[r] : Parents(c)' \subseteq Visible(r)'
<1> USE DEF RequestKept
<1>1. there' = there /\ body' = body /\ answer' = answer
  BY DEF OnlyOf, StoreTypes
<1>2. /\ Target(r)' = Target(r) /\ Todo(r)' = Todo(r) /\ TablesOf(r)' = TablesOf(r)
      /\ (Edits(r)' <=> Edits(r)) /\ (Deletes(r)' <=> Deletes(r))
      /\ Visible(r)' = (there \cup added[r] \cup N) \ removed[r]
  BY <1>1 DEF Target, Todo, TablesOf, Edits, Deletes, Visible
<1>3. \A x : Parents(x)' = Parents(x)
  BY <1>1 DEF Parents, ProfileOf
<1>4. Deletion(r)'
  <2>1. \A x \in removed[r] \cup Todo(r) : Reason(r, x)'
    BY <1>1, <1>2, <1>3 DEF Deletion, Reason
  <2>2. \A x \in removed[r], c \in Visible(r)' :
          x \in Parents(c) /\ c[1] # "profile" => c \in Todo(r)
    BY <1>2 DEF Deletion, Visible
  <2> QED BY <1>1, <1>2, <1>3, <2>1, <2>2 DEF Deletion
<1>5. Cleared(r)'
  <2>1. RowsToClear(r)' = RowsToClear(r)
    BY <1>1 DEF RowsToClear, ServicesOf, Columns, ProfileOf
  <2> QED BY <1>2, <2>1 DEF Cleared, Together
<1>6. Whole(r)'
  BY <1>1 DEF Whole
<1>7. \A c \in added'[r] : Parents(c)' \subseteq Visible(r)'
  BY <1>2, <1>3 DEF Visible
<1> QED BY <1>4, <1>5, <1>6, <1>7

(* A request that goes on without deleting a row.                           *)
LEMMA MoveKeeps ==
  ASSUME StoreInv, NEW r \in Requests, OnlyOf(r), StoreTypes', Place(r)', NEW N,
         Active(r), Active(r)', NotStarted(r)' <=> NotStarted(r), overlaps' = overlaps,
         removed'[r] = removed[r], todo'[r] = todo[r], answer'[r] = answer[r],
         added'[r] = added[r] \cup N,
         \A c \in N : /\ Parents(c) \subseteq Visible(r)
                      /\ \A q \in Requests \ {r} : Parents(c) \cap removed[q] = {},
         \A q \in Requests \ {r} : updated'[r] \cap updated[q] = {}
  PROVE  StoreInv'
<1>1. StoreTypes /\ RequestKept(r) /\ \A q \in Requests \ {r} : Apart(q, r) /\ Apart(r, q)
  BY DEF StoreInv
<1>2. /\ Deletion(r)' /\ Cleared(r)' /\ Whole(r)'
      /\ \A c \in added'[r] : Parents(c)' \subseteq Visible(r)'
  BY <1>1, HeldKeeps
<1>3. \A x : Parents(x)' = Parents(x)
  BY DEF OnlyOf, Parents, ProfileOf
<1>4. ASSUME NEW q \in Requests \ {r} PROVE Apart(q, r)' /\ Apart(r, q)'
  <2>1. /\ added'[q] = added[q] /\ removed'[q] = removed[q] /\ updated'[q] = updated[q]
        /\ Active(q)' <=> Active(q)
    BY DEF OnlyOf, Active
  <2>2. Apart(q, r) /\ Apart(r, q)
    BY <1>1
  <2> QED BY <1>3, <2>1, <2>2 DEF Apart, Together
<1> QED BY <1>2, <1>4, OwnStepKeeps DEF RequestKept, OwnInv, ApartFromAll

LEMMA AdvanceOnly ==
  ASSUME StoreTypes, NEW r \in Requests, Active(r), NEW n \in {1, 2}, Advance(r, n)
  PROVE  /\ at'[r] = at[r] + n /\ at' \in [Requests -> Nat]
         /\ \A q \in Requests \ {r} : at'[q] = at[q]
         /\ body' = body /\ there' = there /\ answer' = answer /\ overlaps' = overlaps
         /\ Active(r)' /\ Size(r)' = Size(r)
<1>1. at[r] \in Nat /\ at[r] > 0 /\ answer[r] = Unset
  BY DEF StoreTypes, Active
<1> QED BY <1>1 DEF Advance, StoreTypes, Active, Size, Statements

(* A statement that leaves its rows and its locks as they are.              *)
LEMMA PassKeeps ==
  ASSUME StoreInv, NEW r \in Requests, Active(r), NEW n \in {1, 2}, Advance(r, n), UNCHANGED held,
         \/ body[r].kind = "editProfile" /\ at[r] > 1 /\ at[r] + n < 7
         \/ body[r].kind = "createProfile" /\ at[r] = 1 /\ n = 1
         \/ body[r].kind = "createProfile" /\ at[r] > 2 /\ at[r] + n < 6
         \/ body[r].kind = "editDisplay" /\ at[r] \in {1, 3} /\ n = 1
  PROVE  StoreInv'
<1>1. StoreTypes /\ Place(r)
  BY DEF StoreInv, RequestKept
<1>2. /\ at'[r] = at[r] + n /\ at' \in [Requests -> Nat]
      /\ \A q \in Requests \ {r} : at'[q] = at[q]
      /\ body' = body /\ there' = there /\ answer' = answer /\ overlaps' = overlaps
      /\ Active(r)' /\ Size(r)' = Size(r)
  BY <1>1, AdvanceOnly
<1>3. added' = added /\ removed' = removed /\ updated' = updated /\ todo' = todo /\ named' = named
  BY DEF held
<1>4. OnlyOf(r) /\ StoreTypes'
  BY <1>1, <1>2, <1>3 DEF OnlyOf, StoreTypes
<1>5. /\ at[r] \in Nat /\ Len(body[r].sources) \in Nat
      /\ Size(r) = IF body[r].kind = "editProfile" THEN 6 ELSE IF body[r].kind = "createProfile" THEN 5 ELSE 4
  BY <1>1, BodyFacts DEF Deletes
<1>6. AddedBy(r)' = AddedBy(r)
  <2>1. CASE body[r].kind = "editProfile"
    BY <1>2, <1>5, <2>1 DEF AddedBy
  <2>2. CASE body[r].kind = "createProfile"
    BY <1>2, <1>5, <2>2 DEF AddedBy, Deletes
  <2>3. CASE body[r].kind = "editDisplay"
    BY <1>2, <1>5, <2>3 DEF AddedBy, Deletes
  <2> QED BY <2>1, <2>2, <2>3
<1>7. NotStarted(r)' <=> NotStarted(r)
  BY <1>2, <1>5 DEF NotStarted
<1>8. Place(r)'
  <2>1. todo[r] = Unset
    BY <1>1 DEF Place, Clearing, Deletes
  <2>2. at'[r] > at[r] /\ at'[r] <= Size(r) + Len(body[r].sources) + 1
    <3>1. at'[r] = at[r] + n /\ at[r] \in Nat /\ Len(body[r].sources) >= 0
      BY <1>2, <1>5
    <3>2. at'[r] > at[r]
      BY <3>1
    <3>3. at[r] + n <= Size(r)
      BY <3>1, <1>5
    <3>4. Size(r) \in Nat /\ Len(body[r].sources) \in Nat
      BY <1>5
    <3> QED BY <3>1, <3>2, <3>3, <3>4
  <2>3. Target(r)' = Target(r) /\ (Edits(r)' <=> Edits(r))
    BY <1>2 DEF Target, Edits
  <2>4. named = r => at[r] >= Size(r) /\ body[r].kind \in {"editProfile", "createProfile"}
    BY <1>1 DEF Place
  <2>5. updated[r] # {} => updated[r] = {Target(r)} /\ Edits(r) /\ body[r].renamed /\ at[r] > 3
    BY <1>1 DEF Place
  <2>6. added[r] = AddedBy(r)
    BY <1>1 DEF Place
  <2>7. at'[r] \in Nat /\ at[r] \in Nat /\ Size(r) \in Nat /\ at[r] > 0
    BY <1>2, <1>5
  <2>8. at'[r] > 0 /\ (at[r] > 3 => at'[r] > 3) /\ (at[r] >= Size(r) => at'[r] >= Size(r))
    BY <2>2, <2>7
  <2> QED BY <1>2, <1>3, <1>6, <2>1, <2>2, <2>3, <2>4, <2>5, <2>6, <2>8 DEF Place
<1>9. \A q \in Requests \ {r} : updated'[r] \cap updated[q] = {}
  BY <1>3 DEF StoreInv, Apart
<1> QED BY <1>2, <1>3, <1>4, <1>7, <1>8, <1>9, MoveKeeps, added'[r] = added[r] \cup {}

LEMMA BeginKeeps ==
  ASSUME StoreInv, NEW r \in Requests, Begin(r)
  PROVE  StoreInv'
<1>1. StoreTypes /\ RequestKept(r) /\ Place(r)
  BY DEF StoreInv, RequestKept
<1>2. /\ at[r] = 0 /\ answer[r] = Unset /\ overlaps[r] = {} /\ ~Active(r)
      /\ removed[r] = {} /\ updated[r] = {} /\ todo[r] = Unset /\ added[r] = {} /\ named # r
  BY <1>1 DEF Begin, Place, Active, AddedBy
<1>3. /\ at' = [at EXCEPT ![r] = 1] /\ body' = body /\ there' = there /\ answer' = answer
      /\ added' = added /\ removed' = removed /\ updated' = updated /\ todo' = todo /\ named' = named
      /\ overlaps' = [q \in Requests |->
           IF q = r THEN {p \in Requests : Active(p)}
           ELSE IF q \in {p \in Requests : Active(p)} THEN overlaps[q] \cup {r} ELSE overlaps[q]]
  BY DEF Begin, held
<1>4. OnlyOf(r)
  <2>1. \A q \in Requests : overlaps[q] \subseteq overlaps'[q]
    <3>1. ASSUME NEW q \in Requests \ {r} PROVE overlaps[q] \subseteq overlaps'[q]
      BY <1>3
    <3>2. overlaps[r] \subseteq overlaps'[r]
      BY <1>2
    <3> QED BY <3>1, <3>2
  <2>2. \A q \in Requests \ {r} : at[q] = 0 => overlaps'[q] = overlaps[q]
    BY <1>3 DEF Active
  <2> QED BY <1>1, <1>3, <2>1, <2>2 DEF OnlyOf, StoreTypes
<1>5. StoreTypes'
  <2>1. overlaps' \in [Requests -> SUBSET Requests]
    BY <1>1, <1>3 DEF StoreTypes
  <2> QED BY <1>1, <1>3, <2>1 DEF StoreTypes
<1>6. at'[r] = 1 /\ Active(r)'
  BY <1>1, <1>2, <1>3 DEF Active, StoreTypes
<1>7. /\ Size(r) = (IF body[r].kind = "editProfile" THEN 6
                   ELSE IF body[r].kind = "createProfile" THEN 5 ELSE IF Deletes(r) THEN 1 ELSE 4)
      /\ Len(body[r].sources) \in Nat
  BY <1>1, BodyFacts
<1>8. Size(r)' = Size(r)
  BY <1>3 DEF Size, Statements
<1>9. AddedBy(r)' = {} /\ Todo(r)' = {}
  BY <1>2, <1>3, <1>6, <1>7, <1>8 DEF AddedBy, Todo
<1>10. RequestKept(r)'
  <2>1. Place(r)'
    <3>1. at'[r] <= Size(r) + Len(body[r].sources) + 1 /\ at'[r] # 0
      <4>1. Size(r) \in Nat
        BY <1>7
      <4>2. PICK m \in Nat : m = Len(body[r].sources)
        BY <1>7
      <4>3. 1 <= Size(r) + m + 1
        BY <4>1
      <4> QED BY <1>6, <4>2, <4>3
    <3> QED BY <1>2, <1>3, <1>6, <1>8, <1>9, <3>1 DEF Place
  <2>2. Deletion(r)'
    BY <1>2, <1>3, <1>9 DEF Deletion
  <2>3. Cleared(r)'
    <3>1. Edits(r)' => NotStarted(r)'
      BY <1>6 DEF Edits, NotStarted
    <3> QED BY <1>2, <1>3, <3>1 DEF Cleared
  <2>4. Whole(r)'
    BY <1>1, <1>3 DEF RequestKept, Whole
  <2> QED BY <1>2, <1>3, <2>1, <2>2, <2>3, <2>4 DEF RequestKept
<1>11. ASSUME NEW q \in Requests \ {r} PROVE Apart(q, r)' /\ Apart(r, q)'
  <2>1. Active(q)' <=> Active(q)
    BY <1>1, <1>3 DEF Active, StoreTypes
  <2>2. Active(q) => Together(q, r)' /\ Together(r, q)'
    BY <1>1, <1>3 DEF Together, StoreTypes
  <2> QED BY <1>2, <1>3, <2>1, <2>2 DEF Apart
<1> QED BY <1>4, <1>5, <1>10, <1>11, OwnStepKeeps DEF OwnInv, ApartFromAll

(***************************************************************************)
(* Deletions.  While it deletes, a request has inserted nothing.            *)
(***************************************************************************)
(* What a step of a deletion leaves as it was.                              *)
Unlinking(r) ==
  /\ body' = body /\ at' = at /\ there' = there /\ added' = added /\ updated' = updated
  /\ named' = named /\ answer' = answer /\ overlaps' = overlaps
  /\ \A q \in Requests \ {r} : removed'[q] = removed[q] /\ todo'[q] = todo[q]

LEMMA DeletionKeeps ==
  ASSUME StoreInv, NEW r \in Requests, Active(r), Unlinking(r), Clearing(r),
         removed' \in [Requests -> SUBSET AllRows],
         todo' \in [Requests -> (SUBSET AllRows) \cup {Unset}],
         Deletion(r)', Cleared(r)',
         \A q \in Requests \ {r} : /\ removed[q] \cap removed'[r] = {}
                                   /\ \A c \in added[q] : Parents(c) \cap removed'[r] = {}
  PROVE  StoreInv'
<1>1. StoreTypes /\ RequestKept(r) /\ Place(r) /\ \A q \in Requests \ {r} : Apart(q, r) /\ Apart(r, q)
  BY DEF StoreInv, RequestKept
<1>2. /\ body' = body /\ at' = at /\ there' = there /\ added' = added /\ updated' = updated
      /\ named' = named /\ answer' = answer /\ overlaps' = overlaps
  BY DEF Unlinking
<1>3. added[r] = {} /\ updated[r] = {} /\ named # r
  BY <1>1, ClearingAddsNothing
<1>4. OnlyOf(r) /\ StoreTypes'
  BY <1>1, <1>2 DEF OnlyOf, Unlinking, StoreTypes
<1>5. Place(r)'
  <2>1. /\ Active(r)' /\ Clearing(r)' /\ AddedBy(r)' = AddedBy(r)
        /\ Size(r)' = Size(r)
    BY <1>2 DEF Active, Clearing, Deletes, AddedBy, Size, Statements
  <2> QED BY <1>1, <1>2, <1>3, <2>1 DEF Place
<1>6. Whole(r)'
  BY <1>1, <1>2 DEF RequestKept, Whole
<1>7. \A c \in added'[r] : Parents(c)' \subseteq Visible(r)'
  BY <1>2, <1>3
<1>8. \A x : Parents(x)' = Parents(x)
  BY <1>2 DEF Parents, ProfileOf
<1>9. ASSUME NEW q \in Requests \ {r} PROVE Apart(q, r)' /\ Apart(r, q)'
  <2>1. Apart(q, r) /\ Apart(r, q) /\ removed'[q] = removed[q]
    BY <1>1 DEF Unlinking
  <2>2. Active(q) /\ Active(r) => Together(q, r)' /\ Together(r, q)'
    BY <1>2, <2>1 DEF Apart, Together
  <2>3. (Active(q)' <=> Active(q)) /\ (Active(r)' <=> Active(r))
    BY <1>2 DEF Active
  <2> QED BY <1>2, <1>3, <1>8, <2>1, <2>2, <2>3 DEF Apart
<1> QED BY <1>4, <1>5, <1>6, <1>7, <1>9, OwnStepKeeps DEF RequestKept, OwnInv, ApartFromAll

LEMMA BeforeIsOrder ==
  ASSUME NEW x \in AllRows, NEW y \in AllRows, NEW z \in AllRows
  PROVE  /\ x = y \/ Before(x, y) \/ Before(y, x)
         /\ Before(x, y) /\ Before(y, z) => Before(x, z)
<1>1. /\ x[2] \in Nat /\ x[3] \in Nat /\ y[2] \in Nat /\ y[3] \in Nat /\ z[2] \in Nat /\ z[3] \in Nat
      /\ x[1] \in TableNames /\ y[1] \in TableNames /\ z[1] \in TableNames
  BY RowShape
<1>2. \A v \in TableNames : Tables[v] \in Nat
  BY DEF Tables, TableNames
<1>3. \A v, w \in TableNames : Tables[v] = Tables[w] => v = w
  BY DEF Tables, TableNames
<1>4. x = y \/ Before(x, y) \/ Before(y, x)
  <2>1. x[1] = y[1] /\ x[2] = y[2] /\ x[3] = y[3] => x = y
    BY RowShape DEF TableNames
  <2>2. Tables[x[1]] \in Nat /\ Tables[y[1]] \in Nat /\ (Tables[x[1]] = Tables[y[1]] => x[1] = y[1])
    BY <1>1, <1>2, <1>3
  <2> QED BY <1>1, <2>1, <2>2 DEF Before
<1>5. Before(x, y) /\ Before(y, z) => Before(x, z)
  <2>1. Tables[x[1]] \in Nat /\ Tables[y[1]] \in Nat /\ Tables[z[1]] \in Nat
    BY <1>1, <1>2
  <2> QED BY <1>1, <2>1 DEF Before
<1> QED BY <1>4, <1>5

LEMMA BeforeIsStrict ==
  ASSUME NEW x \in AllRows, NEW y \in AllRows
  PROVE  ~(Before(x, y) /\ Before(y, x))
<1>1. x[2] \in Nat /\ x[3] \in Nat /\ y[2] \in Nat /\ y[3] \in Nat
      /\ x[1] \in TableNames /\ y[1] \in TableNames
  BY RowShape
<1>2. Tables[x[1]] \in Nat /\ Tables[y[1]] \in Nat
  BY <1>1 DEF Tables, TableNames
<1> QED BY <1>1, <1>2 DEF Before

LEMMA StartDeleteKeeps ==
  ASSUME StoreInv, NEW r \in Requests, StartDelete(r)
  PROVE  StoreInv'
<1>1. /\ StoreTypes /\ RequestKept(r) /\ Place(r) /\ Deletion(r) /\ Written
      /\ \A q \in Requests \ {r} : Apart(q, r)
  BY DEF StoreInv, RequestKept
<1>2. Active(r) /\ Clearing(r) /\ todo[r] = Unset
  BY <1>1, DoingAt DEF StartDelete, Clearing
<1>3. added[r] = {} /\ Visible(r) = there \ removed[r]
  BY <1>1, <1>2, ClearingAddsNothing DEF Visible
<1>4. PICK rows : /\ todo' = [todo EXCEPT ![r] = rows]
                  /\ \/ Edits(r) /\ rows = Children(r, Target(r)) \ {Shown}
                     \/ Deletes(r) /\ rows \in SUBSET {Target(r)} /\ rows \subseteq Visible(r)
  <2>1. /\ Doing(r, "clear") => Edits(r)
        /\ Doing(r, "remove") => Deletes(r)
    BY <1>1, DoingAt DEF Edits
  <2>2. CASE Doing(r, "clear") /\ todo' = [todo EXCEPT ![r] = Children(r, Target(r)) \ {Shown}]
    BY <2>1, <2>2
  <2>3. CASE /\ Doing(r, "remove")
             /\ todo' = [todo EXCEPT ![r] =
                  IF body[r].stranger THEN {} ELSE {Target(r)} \cap Visible(r)]
    <3>1. PICK rows : rows = IF body[r].stranger THEN {} ELSE {Target(r)} \cap Visible(r)
      OBVIOUS
    <3>2. rows \in SUBSET {Target(r)} /\ rows \subseteq Visible(r)
      BY <3>1
    <3>3. todo' = [todo EXCEPT ![r] = rows]
      BY <2>3, <3>1
    <3> QED BY <2>1, <2>3, <3>2, <3>3
  <2> QED BY <2>2, <2>3 DEF StartDelete
<1>5. rows \subseteq there /\ there \subseteq AllRows
  BY <1>1, <1>3, <1>4 DEF Children, StoreTypes
<1>6. /\ Unlinking(r) /\ removed' = removed /\ todo'[r] = rows
      /\ todo' \in [Requests -> (SUBSET AllRows) \cup {Unset}]
      /\ removed' \in [Requests -> SUBSET AllRows]
  BY <1>1, <1>4, <1>5 DEF StartDelete, Unlinking, StoreTypes
<1>7. rows # Unset
  BY <1>5, StoreAssumption DEF StoreAssumption
<1>8. Todo(r) = {} /\ Todo(r)' = rows
  BY <1>2, <1>6, <1>7 DEF Todo
<1>9. /\ body' = body /\ at' = at /\ there' = there /\ added' = added
      /\ answer' = answer /\ overlaps' = overlaps
  BY <1>6 DEF Unlinking
<1>10. \A x : Parents(x)' = Parents(x)
  BY <1>9 DEF Parents, ProfileOf
<1>11. /\ (Edits(r)' <=> Edits(r)) /\ (Deletes(r)' <=> Deletes(r)) /\ Target(r)' = Target(r)
       /\ TablesOf(r)' = TablesOf(r) /\ Visible(r)' = Visible(r)
  BY <1>6, <1>9 DEF Edits, Deletes, Target, TablesOf, Visible
<1>12. \A x \in rows : Reason(r, x)
  <2> SUFFICES ASSUME NEW x \in rows PROVE Reason(r, x)
    OBVIOUS
  <2>1. x[2] # 0 => x[2] \in Requests /\ answer[x[2]] # Unset
    BY <1>1, <1>5, StoreAssumption DEF Written, StoreAssumption
  <2>2. CASE Edits(r)
    <3>1. x \in there /\ Target(r) \in Parents(x) /\ x[1] # "profile" /\ x # Shown
      BY <1>3, <1>4, <2>2 DEF Children, Edits, Deletes
    <3>2. Target(r) = IF body[r].kind = "editProfile" THEN Profile(0) ELSE Display
      BY <2>2 DEF Target, Edits
    <3>3. x[1] \in TablesOf(r)
      BY <1>5, <2>2, <3>1, <3>2, ParentTables, RowShape
         DEF TablesOf, Edits, Profile, Display, Service, SourceRow
    <3> QED BY <2>1, <2>2, <3>1, <3>3 DEF Reason
  <2>3. CASE Deletes(r)
    <3>1. x = Target(r) /\ x[2] = 0
      BY <1>4, <2>3 DEF Target, Deletes, Edits, Profile, Display, SourceRow
    <3>2. x[1] \in TablesOf(r)
      BY <2>3, <3>1 DEF TablesOf, Target, Deletes, Profile, Display, SourceRow
    <3> QED BY <2>3, <3>1, <3>2 DEF Reason
  <2> QED BY <1>4, <2>2, <2>3
<1>13. Edits(r) => removed[r] = {}
  BY <1>1, <1>2 DEF Deletion, Clearing, NotStarted, Edits, Deletes
<1>14. Deletion(r)'
  <2>1. \A x \in removed[r] \cup rows : Reason(r, x)'
    BY <1>1, <1>6, <1>9, <1>10, <1>11, <1>12 DEF Deletion, Reason
  <2> QED BY <1>1, <1>6, <1>7, <1>8, <1>9, <1>10, <1>11, <1>13, <2>1 DEF Deletion
<1>15. Cleared(r)'
  <2>1. Edits(r) => RowsToClear(r) \ removed[r] \subseteq rows
    <3> SUFFICES ASSUME Edits(r), NEW x \in RowsToClear(r), x \notin removed[r] PROVE x \in rows
      OBVIOUS
    <3>1. x \in there /\ x[1] \in {"service", "column"} /\ Target(r) \in Parents(x)
      BY DEF RowsToClear, ServicesOf, Columns, Target, Parents, Edits
    <3> QED BY <1>3, <1>4, <3>1 DEF Children, Edits, Deletes, Shown
  <2>2. RowsToClear(r)' = RowsToClear(r)
    BY <1>9 DEF RowsToClear, ServicesOf, Columns, ProfileOf
  <2> QED BY <1>6, <1>8, <1>11, <2>1, <2>2 DEF Cleared
<1> QED BY <1>1, <1>2, <1>6, <1>14, <1>15, DeletionKeeps DEF Apart

LEMMA EndDeleteKeeps ==
  ASSUME StoreInv, NEW r \in Requests, EndDelete(r)
  PROVE  StoreInv'
<1>1. /\ StoreTypes /\ RequestKept(r) /\ Place(r) /\ Deletion(r)
      /\ \A q \in Requests \ {r} : Apart(q, r) /\ Apart(r, q)
  BY DEF StoreInv, RequestKept
<1>2. todo[r] = {} /\ Clearing(r) /\ Active(r)
  <2>1. Unset # {}
    BY StoreAssumption DEF StoreAssumption
  <2> QED BY <1>1, <2>1 DEF EndDelete, Place
<1>3. added[r] = {} /\ updated[r] = {} /\ named # r
  BY <1>1, <1>2, ClearingAddsNothing
<1>4. /\ at'[r] = at[r] + 1 /\ at' \in [Requests -> Nat]
      /\ \A q \in Requests \ {r} : at'[q] = at[q]
      /\ body' = body /\ there' = there /\ answer' = answer /\ overlaps' = overlaps
      /\ Active(r)' /\ Size(r)' = Size(r)
  BY <1>1, <1>2, AdvanceOnly DEF EndDelete
<1>5. /\ added' = added /\ removed' = removed /\ updated' = updated /\ named' = named
      /\ todo' = [todo EXCEPT ![r] = Unset]
  BY DEF EndDelete
<1>6. OnlyOf(r) /\ StoreTypes'
  BY <1>1, <1>4, <1>5 DEF OnlyOf, StoreTypes
<1>7. todo'[r] = Unset /\ Todo(r) = {} /\ Todo(r)' = {}
  BY <1>1, <1>2, <1>5 DEF Todo, StoreTypes
<1>8. \A x : Parents(x)' = Parents(x)
  BY <1>4 DEF Parents, ProfileOf
<1>9. /\ (Edits(r)' <=> Edits(r)) /\ (Deletes(r)' <=> Deletes(r)) /\ Target(r)' = Target(r)
      /\ TablesOf(r)' = TablesOf(r) /\ Visible(r)' = Visible(r)
  BY <1>4, <1>5 DEF Edits, Deletes, Target, TablesOf, Visible
<1>10. /\ body[r].kind = "editProfile" => at'[r] = 2 /\ Size(r) = 6
       /\ body[r].kind = "editDisplay" => at'[r] = 3 /\ Size(r) = 4
       /\ body[r].kind \notin {"editProfile", "editDisplay"} => at'[r] = 2 /\ Deletes(r) /\ Size(r) = 1
  BY <1>1, <1>2, <1>4, BodyFacts DEF Clearing, Deletes
<1>11. ~NotStarted(r)' /\ AddedBy(r)' = {}
  BY <1>4, <1>10 DEF NotStarted, AddedBy, Deletes
<1>12. Place(r)'
  <2>1. PICK m \in Nat : m = Len(body[r].sources)
    BY <1>1, BodyFacts
  <2>2. at'[r] <= Size(r) + m + 1 /\ at'[r] # 0
    BY <1>10
  <2> QED BY <1>3, <1>4, <1>5, <1>7, <1>11, <2>1, <2>2 DEF Place
<1>13. Deletion(r)'
  <2>1. \A x \in removed[r] : Reason(r, x)'
    BY <1>1, <1>4, <1>5, <1>8, <1>9 DEF Deletion, Reason
  <2> QED BY <1>1, <1>4, <1>5, <1>7, <1>8, <1>9, <1>11, <2>1 DEF Deletion
<1>14. Cleared(r)'
  <2>1. RowsToClear(r)' = RowsToClear(r)
    BY <1>4 DEF RowsToClear, ServicesOf, Columns, ProfileOf
  <2>2. Unset # {}
    BY StoreAssumption DEF StoreAssumption
  <2> QED BY <1>1, <1>2, <1>4, <1>5, <1>7, <1>9, <2>1, <2>2 DEF RequestKept, Cleared, Together
<1>15. Whole(r)'
  BY <1>1, <1>4 DEF RequestKept, Whole
<1>16. ASSUME NEW q \in Requests \ {r} PROVE Apart(q, r)' /\ Apart(r, q)'
  <2>1. Apart(q, r) /\ Apart(r, q) /\ (Active(q)' <=> Active(q))
    BY <1>1, <1>4 DEF Active
  <2> QED BY <1>2, <1>4, <1>5, <1>8, <2>1 DEF Apart, Together
<1> QED BY <1>3, <1>5, <1>6, <1>12, <1>13, <1>14, <1>15, <1>16, OwnStepKeeps
        DEF RequestKept, OwnInv, ApartFromAll

LEMMA DeleteRowKeeps ==
  ASSUME StoreInv, NEW r \in Requests, DeleteRow(r)
  PROVE  StoreInv'
<1>1. /\ StoreTypes /\ RequestKept(r) /\ Place(r) /\ Deletion(r) /\ Cleared(r) /\ Written
      /\ \A q \in Requests \ {r} : Apart(q, r)
  BY DEF StoreInv, RequestKept
<1>2. todo[r] # Unset /\ Clearing(r) /\ Active(r)
  BY <1>1 DEF DeleteRow, InDelete, Place
<1>3. added[r] = {} /\ Visible(r) = there \ removed[r] /\ there \subseteq AllRows
  BY <1>1, <1>2, ClearingAddsNothing DEF Visible, StoreTypes
<1>4. todo[r] \in SUBSET AllRows /\ removed[r] \in SUBSET AllRows /\ Todo(r) = todo[r]
  BY <1>1, <1>2 DEF StoreTypes, Todo
<1>5. PICK x \in First(todo[r]) :
        /\ DeleteWaits(r, x) = {}
        /\ IF x \in Visible(r)
           THEN /\ removed' = [removed EXCEPT ![r] = @ \cup {x}]
                /\ todo' = [todo EXCEPT ![r] = (@ \ {x}) \cup Children(r, x)]
           ELSE todo' = [todo EXCEPT ![r] = @ \ {x}] /\ UNCHANGED removed
  BY DEF DeleteRow
<1>6. x \in todo[r] /\ x \in AllRows /\ \A y \in todo[r] : y = x \/ Before(x, y)
  BY <1>4, <1>5, BeforeIsOrder DEF First
<1>7. PICK gone, rows :
        /\ removed' = [removed EXCEPT ![r] = @ \cup gone]
        /\ todo' = [todo EXCEPT ![r] = (@ \ {x}) \cup rows]
        /\ gone = {x} \cap Visible(r)
        /\ rows = IF x \in Visible(r) THEN Children(r, x) ELSE {}
  <2>1. CASE x \in Visible(r)
    <3>1. {x} = {x} \cap Visible(r)
      BY <2>1
    <3> QED BY <1>5, <2>1, <3>1
  <2>2. CASE x \notin Visible(r)
    <3>1. {} = {x} \cap Visible(r) /\ removed[r] = removed[r] \cup {} /\ todo[r] \ {x} = (todo[r] \ {x}) \cup {}
      BY <2>2
    <3>2. removed' = [removed EXCEPT ![r] = @ \cup {}]
      BY <1>1, <1>5, <2>2, <3>1 DEF StoreTypes
    <3> QED BY <1>5, <2>2, <3>1, <3>2
  <2> QED BY <2>1, <2>2
<1>8. /\ body' = body /\ at' = at /\ there' = there /\ added' = added /\ updated' = updated
      /\ named' = named /\ answer' = answer /\ overlaps' = overlaps
  BY DEF DeleteRow
<1>9. rows \subseteq Visible(r) /\ rows \subseteq there /\ gone \subseteq there /\ gone \subseteq {x}
  BY <1>3, <1>7 DEF Children
<1>10. /\ removed'[r] = removed[r] \cup gone /\ todo'[r] = (todo[r] \ {x}) \cup rows
       /\ Unlinking(r) /\ removed' \in [Requests -> SUBSET AllRows]
       /\ todo' \in [Requests -> (SUBSET AllRows) \cup {Unset}]
  <2>1. removed[r] \cup gone \in SUBSET AllRows /\ (todo[r] \ {x}) \cup rows \in SUBSET AllRows
    BY <1>3, <1>4, <1>9
  <2> QED BY <1>1, <1>7, <1>8, <2>1 DEF Unlinking, StoreTypes
<1>11. Todo(r)' = (todo[r] \ {x}) \cup rows /\ todo'[r] # Unset
  <2>1. (todo[r] \ {x}) \cup rows # Unset
    BY <1>3, <1>4, <1>9, StoreAssumption DEF StoreAssumption
  <2> QED BY <1>10, <2>1 DEF Todo
<1>12. \A y : Parents(y)' = Parents(y)
  BY <1>8 DEF Parents, ProfileOf
<1>13. /\ (Edits(r)' <=> Edits(r)) /\ (Deletes(r)' <=> Deletes(r)) /\ Target(r)' = Target(r)
       /\ TablesOf(r)' = TablesOf(r) /\ Visible(r)' = Visible(r) \ gone
  BY <1>8, <1>10 DEF Edits, Deletes, Target, TablesOf, Visible
<1>14. ASSUME NEW c \in rows
       PROVE  /\ x \in gone /\ c \in AllRows /\ x \in Parents(c) /\ c[1] # "profile"
              /\ Reason(r, c)' /\ (Edits(r) => Before(x, c))
  <2>1. x \in gone /\ c \in there /\ c \in AllRows /\ x \in Parents(c) /\ c[1] # "profile"
    BY <1>3, <1>7, <1>9, <1>14 DEF Children
  <2>2. x[1] \in TablesOf(r)
    BY <1>1, <1>4, <1>6 DEF Deletion, Reason
  <2>3. c[1] \in TablesOf(r) /\ (Edits(r) => Before(x, c))
    <3>1. CASE body[r].kind = "editProfile"
      <4>1. x[1] = "service" /\ c[1] = "link"
        BY <2>1, <2>2, <3>1, ParentTables, RowShape DEF TablesOf, Profile, Display, SourceRow
      <4> QED BY <3>1, <4>1 DEF TablesOf, Before, Tables
    <3>2. CASE body[r].kind = "editDisplay"
      BY <2>1, <2>2, <3>2, ParentTables DEF TablesOf, Profile, Display, SourceRow, Service
    <3>3. CASE Deletes(r)
      BY <2>1, <3>3, RowShape DEF TablesOf, TableNames, Deletes, Edits
    <3> QED BY <1>1, <3>1, <3>2, <3>3, <2>2, BodyFacts DEF TablesOf, Deletes
  <2>4. c[2] # 0 => c[2] \in Requests /\ answer[c[2]] # Unset
    BY <1>1, <2>1, StoreAssumption DEF Written, StoreAssumption
  <2> QED BY <1>8, <1>10, <1>12, <1>13, <2>1, <2>3, <2>4 DEF Reason
<1>15. Deletion(r)'
  <2>1. removed'[r] \subseteq there
    BY <1>1, <1>9, <1>10 DEF Deletion
  <2>2. \A y \in removed'[r] \cup Todo(r)' : Reason(r, y)'
    <3>1. \A y \in removed[r] \cup todo[r] : Reason(r, y)'
      BY <1>1, <1>4, <1>8, <1>10, <1>12, <1>13 DEF Deletion, Reason
    <3> QED BY <1>6, <1>9, <1>10, <1>11, <1>14, <3>1
  <2>3. \A y \in removed'[r], c \in Visible(r)' : y \in Parents(c) /\ c[1] # "profile" => c \in Todo(r)'
    <3> SUFFICES ASSUME NEW y \in removed'[r], NEW c \in Visible(r)', y \in Parents(c), c[1] # "profile"
                 PROVE  c \in Todo(r)'
      OBVIOUS
    <3>1. c \in Visible(r) /\ c \notin gone /\ (c = x => x \notin Visible(r))
      BY <1>7, <1>13
    <3>2. CASE y \in gone
      BY <1>7, <1>9, <1>11, <3>1, <3>2 DEF Children
    <3>3. CASE y \in removed[r]
      BY <1>1, <1>4, <1>11, <3>1, <3>3 DEF Deletion
    <3> QED BY <1>10, <3>2, <3>3
  <2>4. Edits(r) => \A y \in removed'[r], z \in Todo(r)' : Before(y, z)
    <3> SUFFICES ASSUME Edits(r), NEW y \in removed'[r], NEW z \in Todo(r)' PROVE Before(y, z)
      OBVIOUS
    <3>1. y \in AllRows /\ z \in AllRows
      BY <1>3, <1>4, <1>9, <1>10, <1>11
    <3>2. y = x \/ Before(y, x)
      BY <1>1, <1>4, <1>6, <1>9, <1>10 DEF Deletion
    <3>3. Before(x, z)
      BY <1>6, <1>11, <1>14
    <3> QED BY <1>6, <3>1, <3>2, <3>3, BeforeIsOrder
  <2> QED BY <1>8, <1>11, <1>12, <1>13, <2>1, <2>2, <2>3, <2>4 DEF Deletion
<1>16. Cleared(r)'
  <2>1. RowsToClear(r)' = RowsToClear(r) /\ RowsToClear(r) \subseteq there
    BY <1>8 DEF RowsToClear, ServicesOf, Columns, ProfileOf
  <2>2. \A y \in RowsToClear(r) \ removed'[r] : y \in todo[r] => y \in Todo(r)'
    BY <1>3, <1>7, <1>10, <1>11, <2>1
  <2> QED BY <1>1, <1>2, <1>4, <1>8, <1>10, <1>11, <1>13, <2>1, <2>2 DEF Cleared, Together
<1>17. ASSUME NEW q \in Requests \ {r}
       PROVE  removed[q] \cap removed'[r] = {} /\ \A c \in added[q] : Parents(c) \cap removed'[r] = {}
  <2>1. x \notin removed[q]
    BY <1>5 DEF DeleteWaits, Deleters, Others
  <2>2. \A c \in added[q] : x \notin Parents(c)
    <3>1. CASE x = Shown
      BY <1>1, <3>1, ParentTables DEF StoreTypes, Shown, Profile, Display, SourceRow, Service
    <3>2. CASE x # Shown
      BY <1>5, <3>2 DEF DeleteWaits, Inserters, Others
    <3> QED BY <3>1, <3>2
  <2> QED BY <1>1, <1>9, <1>10, <2>1, <2>2 DEF Apart
<1> QED BY <1>2, <1>10, <1>15, <1>16, <1>17, DeletionKeeps

-------------------------------------------------------------------------------
(***************************************************************************)
(* Selections, updates and insertions.                                      *)
(***************************************************************************)
LEMMA SelectKeeps ==
  ASSUME StoreInv, NEW r \in Requests, Select(r)
  PROVE  StoreInv'
<1>1. /\ Active(r)
      /\ \/ body[r].kind = "editProfile" /\ at[r] = 2
         \/ body[r].kind = "editDisplay" /\ at[r] = 1
  BY DoingAt DEF Select, StoreInv
<1>2. CASE Rollback(r, 404) \/ Rollback(r, 400)
  BY <1>1, <1>2, RollbackKeeps
<1>3. CASE Advance(r, 1) /\ UNCHANGED held
  BY <1>1, <1>3, PassKeeps
<1> QED BY <1>2, <1>3 DEF Select

LEMMA UpdateKeeps ==
  ASSUME StoreInv, NEW r \in Requests, Update(r)
  PROVE  StoreInv'
<1>1. StoreTypes /\ Place(r)
  BY DEF StoreInv, RequestKept
<1>2. Active(r) /\ Edits(r) /\ at[r] = 3
  BY <1>1, DoingAt DEF Update
<1>3. CASE Rollback(r, 500) \/ Rollback(r, 409)
  BY <1>2, <1>3, RollbackKeeps
<1>4. CASE Advance(r, 1) /\ UNCHANGED held
  BY <1>2, <1>4, PassKeeps DEF Edits
<1>5. CASE /\ Advance(r, 1) /\ UpdateWaits(r, Target(r)) = {} /\ Target(r) \in Visible(r)
           /\ body[r].renamed
           /\ updated' = [updated EXCEPT ![r] = {Target(r)}]
           /\ UNCHANGED <<added, removed, todo, named>>
  <2>1. /\ at'[r] = at[r] + 1 /\ at' \in [Requests -> Nat]
        /\ \A q \in Requests \ {r} : at'[q] = at[q]
        /\ body' = body /\ there' = there /\ answer' = answer /\ overlaps' = overlaps
        /\ Active(r)' /\ Size(r)' = Size(r)
    BY <1>1, <1>2, <1>5, AdvanceOnly
  <2>2. added' = added /\ removed' = removed /\ todo' = todo /\ named' = named
    BY <1>5
  <2>3. {Target(r)} \in SUBSET AllRows
    BY <1>2 DEF Target, Edits, AllRows, FirstRows
  <2>4. updated'[r] = {Target(r)} /\ updated' \in [Requests -> SUBSET AllRows]
    BY <1>1, <1>5, <2>3 DEF StoreTypes
  <2>5. OnlyOf(r) /\ StoreTypes'
    BY <1>1, <1>5, <2>1, <2>2, <2>4 DEF OnlyOf, StoreTypes
  <2>6. /\ Size(r) = IF body[r].kind = "editProfile" THEN 6 ELSE 4
        /\ at'[r] = 4
    BY <1>1, <1>2, <2>1, BodyFacts DEF Edits, Deletes
  <2>7. AddedBy(r)' = AddedBy(r)
    <3>1. CASE body[r].kind = "editProfile"
      BY <1>2, <2>1, <2>6, <3>1 DEF AddedBy
    <3>2. CASE body[r].kind = "editDisplay"
      BY <1>2, <2>1, <2>6, <3>2 DEF AddedBy
    <3> QED BY <1>2, <3>1, <3>2 DEF Edits
  <2>8. ~NotStarted(r)' /\ ~NotStarted(r)
    BY <1>2, <2>1, <2>6 DEF NotStarted
  <2>9. Place(r)'
    <3>1. todo[r] = Unset /\ named # r
      BY <1>1, <1>2, <2>6 DEF Place, Clearing, Deletes, Edits
    <3>2. PICK m \in Nat : m = Len(body[r].sources)
      BY <1>1, BodyFacts
    <3>3. at'[r] <= Size(r) + m + 1 /\ at'[r] # 0 /\ at'[r] > 3
      BY <2>6
    <3>4. Target(r)' = Target(r) /\ Edits(r)'
      BY <1>2, <2>1 DEF Target, Edits
    <3>5. added[r] = AddedBy(r)
      BY <1>1 DEF Place
    <3> QED BY <1>5, <2>1, <2>2, <2>4, <2>7, <3>1, <3>2, <3>3, <3>4, <3>5 DEF Place
  <2>10. \A q \in Requests \ {r} : updated'[r] \cap updated[q] = {}
    BY <1>5, <2>4 DEF UpdateWaits, Updaters, Others
  <2> QED BY <1>2, <2>1, <2>2, <2>5, <2>8, <2>9, <2>10, MoveKeeps, added'[r] = added[r] \cup {}
<1> QED BY <1>3, <1>4, <1>5 DEF Update

LEMMA CreateTenantKeeps ==
  ASSUME StoreInv, NEW r \in Requests, CreateTenant(r)
  PROVE  StoreInv'
<1>1. Active(r) /\ body[r].kind = "createProfile" /\ at[r] = 1
  BY DoingAt DEF CreateTenant, StoreInv
<1>2. Advance(r, 1) /\ UNCHANGED held
  BY DEF CreateTenant
<1> QED BY <1>1, <1>2, PassKeeps

LEMMA FindServiceKeeps ==
  ASSUME StoreInv, NEW r \in Requests, FindService(r)
  PROVE  StoreInv'
<1>1. /\ Active(r)
      /\ \/ body[r].kind = "editProfile" /\ at[r] = 4
         \/ body[r].kind = "createProfile" /\ at[r] = 3
  BY DoingAt DEF FindService, StoreInv
<1>2. PICK n \in {1, 2} : Advance(r, n) /\ UNCHANGED held
  BY DEF FindService
<1> QED BY <1>1, <1>2, PassKeeps

LEMMA InsertNameKeeps ==
  ASSUME StoreInv, NEW r \in Requests, InsertName(r)
  PROVE  StoreInv'
<1>1. StoreTypes /\ Place(r)
  BY DEF StoreInv, RequestKept
<1>2. /\ Active(r)
      /\ \/ body[r].kind = "editProfile" /\ at[r] = 5
         \/ body[r].kind = "createProfile" /\ at[r] = 4
  BY <1>1, DoingAt DEF InsertName
<1>3. CASE Rollback(r, 500)
  BY <1>2, <1>3, RollbackKeeps
<1>4. CASE /\ named = Unset /\ Advance(r, 1) /\ named' = r
           /\ UNCHANGED <<added, removed, updated, todo>>
  <2>1. /\ at'[r] = at[r] + 1 /\ at' \in [Requests -> Nat]
        /\ \A q \in Requests \ {r} : at'[q] = at[q]
        /\ body' = body /\ there' = there /\ answer' = answer /\ overlaps' = overlaps
        /\ Active(r)' /\ Size(r)' = Size(r)
    BY <1>1, <1>2, <1>4, AdvanceOnly
  <2>2. added' = added /\ removed' = removed /\ todo' = todo /\ updated' = updated /\ named' = r
    BY <1>4
  <2>3. OnlyOf(r) /\ StoreTypes'
    BY <1>1, <2>1, <2>2 DEF OnlyOf, StoreTypes
  <2>4. /\ Size(r) = IF body[r].kind = "editProfile" THEN 6 ELSE 5
        /\ at'[r] = Size(r) /\ Size(r) \in Nat
    BY <1>1, <1>2, <2>1, BodyFacts DEF Deletes
  <2>5. AddedBy(r)' = AddedBy(r)
    <3>1. CASE body[r].kind = "editProfile"
      BY <1>2, <2>1, <2>4, <3>1 DEF AddedBy
    <3>2. CASE body[r].kind = "createProfile"
      BY <1>2, <2>1, <2>4, <3>2 DEF AddedBy
    <3> QED BY <1>2, <3>1, <3>2
  <2>6. ~NotStarted(r)' /\ ~NotStarted(r)
    BY <1>2, <2>1, <2>4 DEF NotStarted
  <2>7. Place(r)'
    <3>1. todo[r] = Unset
      BY <1>1, <1>2 DEF Place, Clearing, Deletes
    <3>2. PICK m \in Nat : m = Len(body[r].sources)
      BY <1>1, BodyFacts
    <3>3. at'[r] <= Size(r) + m + 1 /\ at'[r] # 0 /\ at'[r] > 3 /\ at'[r] >= Size(r)
      BY <2>4
    <3>4. Target(r)' = Target(r) /\ (Edits(r)' <=> Edits(r))
      BY <2>1 DEF Target, Edits
    <3>5. /\ added[r] = AddedBy(r)
          /\ updated[r] # {} => updated[r] = {Target(r)} /\ Edits(r) /\ body[r].renamed
      BY <1>1 DEF Place
    <3> QED BY <1>2, <2>1, <2>2, <2>5, <3>1, <3>2, <3>3, <3>4, <3>5 DEF Place
  <2>8. \A q \in Requests \ {r} : updated'[r] \cap updated[q] = {}
    BY <2>2 DEF StoreInv, Apart
  <2> QED BY <1>2, <2>1, <2>2, <2>3, <2>6, <2>7, <2>8, MoveKeeps, added'[r] = added[r] \cup {}
<1> QED BY <1>3, <1>4 DEF InsertName

LEMMA DeadlockAbortKeeps ==
  ASSUME StoreInv, NEW r \in Requests, DeadlockAbort(r)
  PROVE  StoreInv'
<1>1. Waits(r) # {}
  BY DEF DeadlockAbort, Deadlocked, WaitsOf
<1>2. Active(r)
  BY <1>1 DEF Waits
<1> QED BY <1>2, RollbackKeeps DEF DeadlockAbort

(* What an INSERT adds is the next of the rows of its request.              *)
LEMMA InsertedIsNext ==
  ASSUME StoreTypes, NEW r \in Requests, Inserting(r), Advance(r, 1)
  PROVE  /\ Active(r) /\ ~Deletes(r) /\ Inserted(r) \in AllRows /\ ~NotStarted(r) /\ ~NotStarted(r)'
         /\ ~Clearing(r) /\ Inserted(r)[2] = r
         /\ at[r] <= Size(r) + Len(body[r].sources)
         /\ AddedBy(r)' = AddedBy(r) \cup {Inserted(r)}
<1>1. /\ at[r] \in Nat /\ Len(body[r].sources) \in Nat
      /\ body[r].kind \in {"editProfile", "createProfile", "editDisplay", "deleteProfile",
                           "deleteDisplay", "deleteSource"}
      /\ (body[r].kind \notin {"editProfile", "createProfile"} => Len(body[r].sources) = 0)
      /\ Size(r) = (IF body[r].kind = "editProfile" THEN 6
                   ELSE IF body[r].kind = "createProfile" THEN 5 ELSE IF Deletes(r) THEN 1 ELSE 4)
      /\ body[r].sources \in Seq(StoreSources)
  BY BodyFacts
<1>2. Active(r)
  BY DEF Inserting, Doing
<1>3. /\ at'[r] = at[r] + 1
      /\ body' = body /\ there' = there /\ answer' = answer
      /\ Active(r)' /\ Size(r)' = Size(r)
  BY <1>2, AdvanceOnly
<1>4. PICK size \in Nat : size = Size(r)
  BY <1>1
<1>5. PICK last \in Nat : last = Len(body[r].sources)
  BY <1>1
<1>6. {Profile(r), Service(r), Column(r)} \cup {Link(r, s) : s \in StoreSources} \subseteq AllRows
  BY DEF AllRows, RowsOfRequest
<1>7. CASE Doing(r, "parent")
  <2>1. body[r].kind = "createProfile" /\ at[r] = 2 /\ Inserted(r) = Profile(r) /\ at'[r] = 3 /\ Size(r) = 5
    BY <1>1, <1>3, <1>7, DoingAt DEF Inserted, Deletes
  <2>2. AddedBy(r) = {} /\ AddedBy(r)' = {Profile(r)}
    BY <1>2, <1>3, <2>1 DEF AddedBy
  <2>3. at[r] <= Size(r) + Len(body[r].sources)
    BY <1>5, <2>1
  <2> QED BY <1>2, <1>3, <1>6, <2>1, <2>2, <2>3 DEF Deletes, NotStarted, Clearing, Profile
<1>8. CASE Doing(r, "row") /\ body[r].kind = "editDisplay"
  <2>1. at[r] = 4 /\ at'[r] = 5 /\ Size(r) = 4
    BY <1>1, <1>3, <1>8, DoingAt DEF Deletes
  <2>2. ~Doing(r, "parent") /\ ~Doing(r, "link")
    BY <1>8, <2>1, DoingAt
  <2>3. Inserted(r) = Column(r)
    BY <1>8, <2>2 DEF Inserted
  <2>4. AddedBy(r) = {} /\ AddedBy(r)' = {Column(r)}
    BY <1>2, <1>3, <1>8, <2>1 DEF AddedBy
  <2>5. at[r] <= Size(r) + Len(body[r].sources)
    BY <1>5, <2>1
  <2> QED BY <1>2, <1>3, <1>6, <1>8, <2>1, <2>3, <2>4, <2>5 DEF Deletes, NotStarted, Clearing, Column
<1>9. CASE Doing(r, "row") /\ body[r].kind # "editDisplay"
  <2>1. /\ body[r].kind \in {"editProfile", "createProfile"}
        /\ at[r] = Size(r) /\ at'[r] = Size(r) + 1 /\ Size(r) >= 4
    BY <1>1, <1>3, <1>9, DoingAt DEF Deletes
  <2>2. ~Doing(r, "parent") /\ ~Doing(r, "link")
    BY <1>4, <1>9, <2>1, DoingAt
  <2>3. Inserted(r) = Service(r)
    BY <1>9, <2>2 DEF Inserted
  <2>4. AddedBy(r)' = AddedBy(r) \cup {Service(r)}
    <3>1. 1 .. at'[r] - Size(r) - 1 = {} /\ ~(at[r] > Size(r)) /\ at'[r] > Size(r) /\ at[r] > 2 /\ at'[r] > 2
      BY <1>1, <1>4, <2>1
    <3> QED BY <1>2, <1>3, <2>1, <3>1 DEF AddedBy
  <2>5. at[r] <= Size(r) + Len(body[r].sources)
    BY <1>4, <1>5, <2>1
  <2>6. at[r] > 2 /\ at'[r] > 2
    BY <1>4, <2>1
  <2> QED BY <1>2, <1>3, <1>6, <2>1, <2>3, <2>4, <2>5, <2>6 DEF Deletes, NotStarted, Clearing, Service
<1>10. CASE Doing(r, "link")
  <2>1. at[r] > size /\ at[r] <= size + last
    <3>1. at[r] > Size(r) /\ ~Ended(r)
      BY <1>10, DoingAt
    <3>2. Ended(r) <=> at[r] > size + last
      BY <1>4, <1>5 DEF Ended, Size
    <3> QED BY <1>1, <1>4, <3>1, <3>2
  <2>2. body[r].kind \in {"editProfile", "createProfile"} /\ size >= 4
    <3>1. last # 0
      BY <1>1, <2>1
    <3>2. body[r].kind \in {"editProfile", "createProfile"}
      BY <1>1, <1>5, <3>1
    <3> QED BY <1>1, <1>4, <3>2 DEF Deletes
  <2>3. ~Doing(r, "parent")
    BY <1>1, <2>1, <2>2, DoingAt
  <2>4. PICK k \in 1 .. last : k = at[r] - size
    BY <1>1, <2>1
  <2>5. Inserted(r) = Link(r, body[r].sources[k]) /\ body[r].sources[k] \in StoreSources
    BY <1>1, <1>4, <1>5, <1>10, <2>3, <2>4 DEF Inserted, Linked, Size
  <2>6. AddedBy(r)' = AddedBy(r) \cup {Link(r, body[r].sources[k])}
    <3>1. at'[r] > Size(r) /\ at[r] > Size(r) /\ at[r] > 2 /\ at'[r] > 2
      BY <1>1, <1>3, <1>4, <2>1, <2>2
    <3>2. at'[r] - Size(r) - 1 = k /\ 1 .. k = (1 .. k - 1) \cup {k} /\ at[r] - Size(r) - 1 = k - 1
      BY <1>1, <1>3, <1>4, <2>4
    <3>3. {Link(r, body[r].sources[i]) : i \in 1 .. k} =
            {Link(r, body[r].sources[i]) : i \in 1 .. k - 1} \cup {Link(r, body[r].sources[k])}
      BY <3>2
    <3> QED BY <1>2, <1>3, <2>2, <3>1, <3>2, <3>3 DEF AddedBy
  <2>7. at[r] > 2 /\ at'[r] > 2
    BY <1>1, <1>3, <2>1, <2>2
  <2>8. at[r] <= Size(r) + Len(body[r].sources)
    BY <1>4, <1>5, <2>1
  <2> QED BY <1>2, <1>3, <1>6, <2>2, <2>5, <2>6, <2>7, <2>8 DEF Deletes, NotStarted, Clearing, Link
<1> QED BY <1>7, <1>8, <1>9, <1>10 DEF Inserting

LEMMA InsertKeeps ==
  ASSUME StoreInv, NEW r \in Requests, Insert(r)
  PROVE  StoreInv'
<1>1. StoreTypes /\ Place(r)
  BY DEF StoreInv, RequestKept
<1>2. Active(r) /\ Inserting(r) /\ InsertWaits(r) = {}
  BY DEF Insert, Inserting, Doing
<1>3. CASE Rollback(r, 400) \/ Rollback(r, 409) \/ Rollback(r, 500)
  BY <1>2, <1>3, RollbackKeeps
<1>4. CASE /\ Parents(Inserted(r)) \subseteq Visible(r)
           /\ added' = [added EXCEPT ![r] = @ \cup {Inserted(r)}]
           /\ Advance(r, 1)
           /\ UNCHANGED <<removed, updated, todo, named>>
  <2>1. /\ at'[r] = at[r] + 1 /\ at' \in [Requests -> Nat]
        /\ \A q \in Requests \ {r} : at'[q] = at[q]
        /\ body' = body /\ there' = there /\ answer' = answer /\ overlaps' = overlaps
        /\ Active(r)' /\ Size(r)' = Size(r)
    BY <1>1, <1>2, <1>4, AdvanceOnly
  <2>2. removed' = removed /\ updated' = updated /\ todo' = todo /\ named' = named
    BY <1>4
  <2>3. /\ ~Deletes(r) /\ Inserted(r) \in AllRows /\ ~NotStarted(r) /\ ~NotStarted(r)' /\ ~Clearing(r)
        /\ at[r] <= Size(r) + Len(body[r].sources)
        /\ AddedBy(r)' = AddedBy(r) \cup {Inserted(r)}
    BY <1>1, <1>2, <1>4, InsertedIsNext
  <2>4. added'[r] = added[r] \cup {Inserted(r)} /\ added' \in [Requests -> SUBSET AllRows]
    BY <1>1, <1>4, <2>3 DEF StoreTypes
  <2>5. OnlyOf(r) /\ StoreTypes'
    BY <1>1, <1>4, <2>1, <2>2, <2>4 DEF OnlyOf, StoreTypes
  <2>6. Place(r)'
    <3>1. todo[r] = Unset /\ added[r] = AddedBy(r)
      BY <1>1, <2>3 DEF Place
    <3>2. Size(r) \in Nat /\ at[r] \in Nat
      BY <1>1, BodyFacts
    <3>3. PICK m \in Nat : m = Len(body[r].sources)
      BY <1>1, BodyFacts
    <3>4. /\ at'[r] <= Size(r) + m + 1 /\ at'[r] # 0
          /\ (at[r] > 3 => at'[r] > 3) /\ (at[r] >= Size(r) => at'[r] >= Size(r))
      BY <2>1, <2>3, <3>2, <3>3
    <3>5. Target(r)' = Target(r) /\ (Edits(r)' <=> Edits(r))
      BY <2>1 DEF Target, Edits
    <3>6. /\ named = r => at[r] >= Size(r) /\ body[r].kind \in {"editProfile", "createProfile"}
          /\ updated[r] # {} => updated[r] = {Target(r)} /\ Edits(r) /\ body[r].renamed /\ at[r] > 3
      BY <1>1 DEF Place
    <3>7. /\ todo'[r] = Unset /\ added'[r] = AddedBy(r)' /\ Active(r)' /\ Size(r)' = Size(r)
          /\ at'[r] <= Size(r)' + Len(body[r].sources)' + 1
      BY <2>1, <2>2, <2>3, <2>4, <3>1, <3>3, <3>4
    <3>8. /\ named' = r => at'[r] >= Size(r)' /\ body[r].kind' \in {"editProfile", "createProfile"}
          /\ updated'[r] # {} => /\ updated'[r] = {Target(r)'} /\ Edits(r)' /\ body[r].renamed'
                                /\ at'[r] > 3
      BY <2>1, <2>2, <3>4, <3>5, <3>6
    <3> QED BY <3>4, <3>7, <3>8 DEF Place
  <2>7. \A q \in Requests \ {r} : updated'[r] \cap updated[q] = {}
    BY <2>2 DEF StoreInv, Apart
  <2>8. \A q \in Requests \ {r} : Parents(Inserted(r)) \cap removed[q] = {}
    <3> SUFFICES ASSUME NEW q \in Requests \ {r}, NEW p \in Parents(Inserted(r)), p \in removed[q]
                 PROVE  FALSE
      OBVIOUS
    <3>1. q \in KeyHolders(r, p)
      BY DEF KeyHolders, Deleters, Others
    <3> QED BY <1>2, <3>1 DEF InsertWaits
  <2>9. PICK N : N = {Inserted(r)}
    OBVIOUS
  <2>10. \A c \in N : /\ Parents(c) \subseteq Visible(r)
                      /\ \A q \in Requests \ {r} : Parents(c) \cap removed[q] = {}
    BY <1>4, <2>8, <2>9
  <2>11. NotStarted(r)' <=> NotStarted(r)
    BY <2>3
  <2>12. /\ removed'[r] = removed[r] /\ todo'[r] = todo[r] /\ answer'[r] = answer[r]
         /\ added'[r] = added[r] \cup N
    BY <2>1, <2>2, <2>4, <2>9
  <2> QED BY <1>2, <2>1, <2>5, <2>6, <2>7, <2>10, <2>11, <2>12, MoveKeeps
<1> QED BY <1>3, <1>4 DEF Insert

-------------------------------------------------------------------------------
(***************************************************************************)
(* A commit: what the request has written is there, whole, and what it has  *)
(* deleted is gone with all that referred to it.                            *)
(***************************************************************************)
LEMMA CommitIs ==
  ASSUME StoreInv, NEW r \in Requests, Commit(r)
  PROVE  /\ Active(r) /\ at[r] > 0 /\ todo[r] = Unset /\ added[r] = AddedBy(r) /\ ~NotStarted(r)
         /\ body' = body /\ at' = at /\ overlaps' = overlaps /\ there' = Visible(r)
         /\ answer' \in [Requests -> {Unset, 201, 204, 400, 404, 409, 500}]
         /\ answer[r] = Unset /\ answer'[r] \in {201, 204, 404} /\ answer'[r] # Unset
         /\ ~Deletes(r) => answer'[r] \in {201, 204}
         /\ answer'[r] = 404 => removed[r] = {} /\ added[r] = {}
         /\ \A q \in Requests \ {r} : answer'[q] = answer[q]
         /\ added' = [added EXCEPT ![r] = {}] /\ removed' = [removed EXCEPT ![r] = {}]
         /\ updated' = [updated EXCEPT ![r] = {}] /\ todo' = [todo EXCEPT ![r] = Unset]
         /\ named' = IF named = r THEN There ELSE named
         /\ body[r].kind \in {"editProfile", "createProfile"} =>
              /\ Service(r) \in added[r]
              /\ \A i \in DOMAIN body[r].sources : Link(r, body[r].sources[i]) \in added[r]
<1>1. StoreTypes /\ Place(r)
  BY DEF StoreInv, RequestKept
<1>2. /\ Active(r) /\ Ended(r)
      /\ body' = body /\ at' = at /\ overlaps' = overlaps /\ there' = Visible(r)
      /\ added' = [added EXCEPT ![r] = {}] /\ removed' = [removed EXCEPT ![r] = {}]
      /\ updated' = [updated EXCEPT ![r] = {}] /\ todo' = [todo EXCEPT ![r] = Unset]
      /\ named' = IF named = r THEN There ELSE named
      /\ answer' = [answer EXCEPT ![r] = CommitStatus(r)]
  BY DEF Commit, Release, Visible
<1>3. /\ at[r] \in Nat /\ Len(body[r].sources) \in Nat
      /\ body[r].kind \in {"editProfile", "createProfile", "editDisplay", "deleteProfile",
                           "deleteDisplay", "deleteSource"}
      /\ Size(r) = (IF body[r].kind = "editProfile" THEN 6
                   ELSE IF body[r].kind = "createProfile" THEN 5 ELSE IF Deletes(r) THEN 1 ELSE 4)
      /\ body[r].sources \in Seq(StoreSources)
  BY <1>1, BodyFacts
<1>4. PICK last \in Nat : last = Len(body[r].sources)
  BY <1>3
<1>5. at[r] > Size(r) + last
  BY <1>2, <1>4 DEF Ended, Size
<1>6. PICK size \in Nat : size = Size(r) /\ size > 0
  BY <1>3
<1>7. at[r] > size /\ at[r] > 1
  BY <1>3, <1>5, <1>6
<1>8. todo[r] = Unset /\ added[r] = AddedBy(r) /\ ~NotStarted(r)
  <2>1. ~Clearing(r) /\ ~NotStarted(r)
    BY <1>3, <1>6, <1>7 DEF Clearing, NotStarted, Deletes
  <2> QED BY <1>1, <2>1 DEF Place
<1>9. CommitStatus(r) \in {201, 204, 404} /\ (CommitStatus(r) = 404 => Statements(r) = Delete /\ removed[r] = {})
  BY DEF CommitStatus
<1>10. Statements(r) = Delete => Deletes(r)
  <2>1. Len(Delete) = 1
    BY DEF Delete
  <2>2. Statements(r) = Delete => Size(r) = 1
    BY <2>1 DEF Size
  <2> QED BY <1>3, <2>2
<1>11. Deletes(r) => added[r] = {}
  BY <1>1, <1>8, AddedAre DEF StoreTypes
<1>12. /\ answer' \in [Requests -> {Unset, 201, 204, 400, 404, 409, 500}]
       /\ answer'[r] = CommitStatus(r) /\ answer'[r] # Unset /\ answer[r] = Unset
  BY <1>1, <1>2, <1>9, StoreAssumption DEF StoreTypes, Active, StoreAssumption
<1>13. ASSUME body[r].kind \in {"editProfile", "createProfile"}
       PROVE  /\ Service(r) \in added[r]
              /\ \A i \in DOMAIN body[r].sources : Link(r, body[r].sources[i]) \in added[r]
  <2>1. Service(r) \in AddedBy(r)
    BY <1>2, <1>6, <1>7, <1>13 DEF AddedBy
  <2>2. ASSUME NEW i \in DOMAIN body[r].sources PROVE Link(r, body[r].sources[i]) \in AddedBy(r)
    <3>1. i \in 1 .. last
      BY <1>3, <1>4
    <3>2. i \in 1 .. at[r] - Size(r) - 1
      <4>1. at[r] > size + last /\ i <= last /\ i >= 1 /\ i \in Nat
        BY <1>5, <1>6, <3>1
      <4>2. i \in 1 .. at[r] - size - 1
        BY <1>3, <4>1
      <4> QED BY <1>6, <4>2
    <3>3. at[r] > Size(r)
      BY <1>6, <1>7
    <3> QED BY <1>2, <1>13, <3>2, <3>3 DEF AddedBy
  <2> QED BY <1>8, <2>1, <2>2
<1> QED BY <1>2, <1>7, <1>3, <1>8, <1>9, <1>10, <1>11, <1>12, <1>13

LEMMA CommitKeepsRows ==
  ASSUME StoreInv, NEW r \in Requests, Commit(r)
  PROVE  Written' /\ DuplicatesOnlyByOverlap' /\ AnEditRemains'
<1> USE DEF StoreInv, RequestKept
<1>1. /\ StoreTypes /\ Written /\ DuplicatesOnlyByOverlap /\ AnEditRemains
      /\ Place(r) /\ Deletion(r) /\ Cleared(r)
  OBVIOUS
<1>2. /\ Active(r) /\ todo[r] = Unset /\ added[r] = AddedBy(r) /\ ~NotStarted(r)
      /\ body' = body /\ overlaps' = overlaps /\ there' = Visible(r)
      /\ answer[r] = Unset /\ (~Deletes(r) => answer'[r] \in {201, 204})
      /\ \A q \in Requests \ {r} : answer'[q] = answer[q]
      /\ body[r].kind \in {"editProfile", "createProfile"} => Service(r) \in added[r]
  BY CommitIs
<1>3. /\ \A x \in Visible(r) : x \in there \/ x \in added[r]
      /\ \A x \in there : x \in removed[r] \/ x \in Visible(r)
      /\ Todo(r) = {} /\ r # 0
  BY <1>1, <1>2, BodyFacts DEF Visible, Todo
<1>4. \A x \in there : x[2] # r
  BY <1>1, <1>2, <1>3, StoreAssumption DEF Written, StoreAssumption
<1>5. \A x : Parents(x)' = Parents(x)
  BY <1>2 DEF Parents, ProfileOf
<1>6. \A x \in added[r] : x[2] = r /\ ~Deletes(r) /\ x \in Visible(r)
  BY <1>1, <1>2, <1>4, AddedAre DEF Deletion, Visible
<1>7. Written'
  <2> SUFFICES ASSUME NEW x \in Visible(r)
               PROVE  /\ x[2] # 0 => /\ x[2] \in Requests /\ answer'[x[2]] \in {201, 204}
                                     /\ x[1] = "link" => \E i \in DOMAIN body[x[2]].sources :
                                                           body[x[2]].sources[i] = x[3]
                      /\ x[1] # "profile" => Parents(x) \subseteq Visible(r)
    BY <1>2, <1>5 DEF Written
  <2>1. CASE x \in there
    <3>1. x[1] # "profile" => Parents(x) \subseteq Visible(r)
      BY <1>1, <1>3, <2>1 DEF Written, Deletion
    <3> QED BY <1>1, <1>2, <1>4, <2>1, <3>1 DEF Written
  <2>2. CASE x \in added[r]
    <3>1. x[2] = r /\ answer'[r] \in {201, 204} /\ Parents(x) \subseteq Visible(r)
      BY <1>2, <1>6, <2>2
    <3>2. x[1] = "link" => \E i \in DOMAIN body[r].sources : body[r].sources[i] = x[3]
      <4> SUFFICES ASSUME x[1] = "link" PROVE \E i \in DOMAIN body[r].sources : body[r].sources[i] = x[3]
        OBVIOUS
      <4>1. PICK i \in 1 .. at[r] - Size(r) - 1 : x = Link(r, body[r].sources[i])
        BY <1>1, <1>2, <2>2, AddedAre
      <4>2. /\ at[r] \in Nat /\ Size(r) \in Nat /\ body[r].sources \in Seq(StoreSources)
            /\ at[r] <= Size(r) + Len(body[r].sources) + 1
        BY <1>1, BodyFacts DEF Place
      <4>3. PICK last \in Nat : last = Len(body[r].sources)
        BY <4>2
      <4>4. i \in 1 .. last
        BY <4>1, <4>2, <4>3
      <4> QED BY <4>1, <4>2, <4>3, <4>4 DEF Link
    <3> QED BY <3>1, <3>2
  <2> QED BY <1>3, <2>1, <2>2
<1>8. /\ ServicesOf(Profile(0))' = {x \in Visible(r) : x[1] = "service" /\ ProfileOf(x[2]) = Profile(0)}
      /\ Columns' = {x \in Visible(r) : x[1] = "column"}
  BY <1>2 DEF ServicesOf, Columns, ProfileOf
<1>9. DuplicatesOnlyByOverlap'
  <2> SUFFICES ASSUME NEW rows \in {ServicesOf(Profile(0))', Columns'}, NEW x \in rows, NEW y \in rows,
                      x # y
               PROVE  x[2] # 0 /\ y[2] # 0 /\ Together(x[2], y[2])
    BY <1>2 DEF DuplicatesOnlyByOverlap, Together
  <2>1. x \in Visible(r) /\ y \in Visible(r) /\ x[1] = y[1] /\ x[1] \in {"service", "column"}
    BY <1>8
  <2>2. CASE x \in there /\ y \in there
    BY <1>1, <1>8, <2>2 DEF DuplicatesOnlyByOverlap, ServicesOf, Columns
  <2>3. ASSUME NEW v \in {x, y}, NEW w \in {x, y}, v # w, v \in added[r]
        PROVE  w \in there /\ w[2] # 0 /\ Together(w[2], r) /\ Together(r, w[2])
    <3>1. v = (IF v[1] = "service" THEN Service(r) ELSE Column(r)) /\ Edits(r)
          /\ (v[1] = "service" => body[r].kind = "editProfile")
          /\ (v[1] = "column" => body[r].kind = "editDisplay")
      <4>1. ProfileOf(r) = Profile(0) => body[r].kind # "createProfile"
        BY <1>3 DEF ProfileOf, Profile
      <4>2. v[1] = "service" => ProfileOf(r) = Profile(0)
        BY <1>6, <1>8, <2>3
      <4> QED BY <1>1, <1>2, <2>1, <2>3, <4>1, <4>2, AddedAre DEF Edits
    <3>2. w \notin added[r]
      <4> SUFFICES ASSUME w \in added[r] PROVE FALSE
        OBVIOUS
      <4>1. w = (IF w[1] = "service" THEN Service(r) ELSE Column(r)) /\ w[1] = v[1]
        BY <1>1, <1>2, <2>1, <2>3, AddedAre
      <4> QED BY <2>3, <3>1, <4>1
    <3>3. w \in there /\ w \notin removed[r]
      BY <1>3, <2>1, <3>2 DEF Visible
    <3>4. w \in RowsToClear(r)
      BY <1>8, <2>1, <3>1, <3>3 DEF RowsToClear, ServicesOf, Columns
    <3> QED BY <1>1, <1>2, <1>3, <3>1, <3>3, <3>4 DEF Cleared
  <2> QED BY <1>3, <1>6, <2>1, <2>2, <2>3
<1>10. AnEditRemains'
  <2> SUFFICES ASSUME Profile(0) \in Visible(r), NEW q \in Requests,
                      body[q].kind = "editProfile", answer'[q] = 204
               PROVE  ServicesOf(Profile(0))' # {}
    BY <1>2 DEF AnEditRemains, Done
  <2>1. CASE body[r].kind = "editProfile"
    <3>1. Service(r) \in Visible(r) /\ ProfileOf(r) = Profile(0)
      BY <1>2, <1>6, <2>1 DEF ProfileOf
    <3> QED BY <1>8, <3>1 DEF Service
  <2>2. CASE body[r].kind # "editProfile"
    <3>1. Profile(0) \in there /\ Profile(0) \notin removed[r]
      BY <1>3, <1>6 DEF Profile, Visible
    <3>2. answer[q] = 204
      BY <1>2, <2>2
    <3>3. PICK y \in there : y[1] = "service" /\ ProfileOf(y[2]) = Profile(0)
      BY <1>1, <3>1, <3>2 DEF AnEditRemains, Done, ServicesOf
    <3>4. y \notin removed[r]
      <4> SUFFICES ASSUME y \in removed[r] PROVE FALSE
        OBVIOUS
      <4>1. Parents(y) = {Profile(0)}
        BY <3>3 DEF Parents
      <4>2. Reason(r, y)
        BY <1>1 DEF Deletion
      <4>3. ~Edits(r)
        BY <2>2, <3>3, <4>2 DEF Reason, TablesOf, Edits
      <4>4. y # Target(r)
        BY <3>3, <4>2, <4>3 DEF Target, Reason, TablesOf, Profile, Display, SourceRow
      <4> QED BY <3>1, <4>1, <4>2, <4>3, <4>4 DEF Reason
    <3> QED BY <1>3, <1>8, <3>3, <3>4
  <2> QED BY <2>1, <2>2
<1> QED BY <1>7, <1>9, <1>10

(* Its own request holds nothing any more, and its service is whole.        *)
LEMMA CommitKeepsOwn ==
  ASSUME StoreInv, NEW r \in Requests, Commit(r)
  PROVE  RequestKept(r)'
<1>1. StoreTypes /\ Written /\ Place(r) /\ Deletion(r)
  BY DEF StoreInv, RequestKept
<1>2. /\ at[r] > 0 /\ body' = body /\ at' = at /\ overlaps' = overlaps /\ there' = Visible(r)
      /\ answer[r] = Unset /\ answer'[r] # Unset /\ added[r] = AddedBy(r)
      /\ added' = [added EXCEPT ![r] = {}] /\ removed' = [removed EXCEPT ![r] = {}]
      /\ updated' = [updated EXCEPT ![r] = {}] /\ todo' = [todo EXCEPT ![r] = Unset]
      /\ named' = (IF named = r THEN There ELSE named)
      /\ body[r].kind \in {"editProfile", "createProfile"} =>
              \A i \in DOMAIN body[r].sources : Link(r, body[r].sources[i]) \in added[r]
  BY CommitIs
<1>3. /\ added'[r] = {} /\ removed'[r] = {} /\ updated'[r] = {} /\ todo'[r] = Unset /\ named' # r
      /\ ~Active(r)'
  BY <1>1, <1>2, BodyFacts DEF StoreTypes, Active
<1>4. AddedBy(r)' = {} /\ Todo(r)' = {} /\ Size(r)' = Size(r)
  BY <1>2, <1>3 DEF AddedBy, Todo, Size, Statements
<1>5. Place(r)'
  BY <1>1, <1>2, <1>3, <1>4 DEF Place
<1>6. Deletion(r)'
  BY <1>3, <1>4 DEF Deletion
<1>7. Cleared(r)'
  BY <1>3 DEF Cleared
<1>8. Whole(r)'
  <2> SUFFICES ASSUME Service(r) \in Visible(r), NEW i \in DOMAIN body[r].sources
               PROVE  Link(r, body[r].sources[i]) \in Visible(r)
    BY <1>2 DEF Whole
  <2>1. \A x \in there : x[2] # r
    BY <1>1, <1>2, BodyFacts, StoreAssumption DEF Written, StoreAssumption
  <2>2. Service(r) \in added[r]
    BY <2>1 DEF Visible, Service
  <2>3. body[r].kind \in {"editProfile", "createProfile"}
    BY <1>1, <1>2, <2>2, AddedAre DEF Service
  <2>4. Link(r, body[r].sources[i]) \in added[r]
    BY <1>2, <2>3
  <2>5. Link(r, body[r].sources[i]) \notin removed[r]
    BY <1>1, <2>1 DEF Deletion, Link
  <2> QED BY <2>4, <2>5 DEF Visible
<1> QED BY <1>3, <1>5, <1>6, <1>7, <1>8 DEF RequestKept

(* The others' locks and rows are as before, and what they have read holds. *)
LEMMA CommitKeepsOthers ==
  ASSUME StoreInv, NEW r \in Requests, Commit(r), NEW q \in Requests \ {r}
  PROVE  RequestKept(q)'
<1> USE DEF RequestKept
<1>1. /\ StoreTypes /\ Written /\ Place(r) /\ Deletion(r) /\ RequestKept(q)
      /\ Apart(q, r) /\ Apart(r, q)
  BY DEF StoreInv
<1>2. /\ Active(r) /\ body' = body /\ at' = at /\ overlaps' = overlaps /\ there' = Visible(r)
      /\ answer[r] = Unset /\ answer'[r] # Unset /\ added[r] = AddedBy(r)
      /\ \A p \in Requests \ {r} : answer'[p] = answer[p]
      /\ added' = [added EXCEPT ![r] = {}] /\ removed' = [removed EXCEPT ![r] = {}]
      /\ updated' = [updated EXCEPT ![r] = {}] /\ todo' = [todo EXCEPT ![r] = Unset]
      /\ named' = (IF named = r THEN There ELSE named)
  BY CommitIs
<1>3. /\ at'[q] = at[q] /\ answer'[q] = answer[q] /\ added'[q] = added[q]
      /\ removed'[q] = removed[q] /\ updated'[q] = updated[q] /\ todo'[q] = todo[q]
      /\ named' = q => named = q
  BY <1>1, <1>2, BodyFacts DEF StoreTypes
<1>4. \A p \in Requests : answer[p] # Unset => answer'[p] # Unset
  BY <1>2
<1>5. /\ Active(q)' <=> Active(q)
      /\ AddedBy(q)' = AddedBy(q) /\ Statements(q)' = Statements(q) /\ Target(q)' = Target(q)
      /\ (Edits(q)' <=> Edits(q)) /\ (Deletes(q)' <=> Deletes(q)) /\ (Clearing(q)' <=> Clearing(q))
      /\ Todo(q)' = Todo(q) /\ TablesOf(q)' = TablesOf(q) /\ (NotStarted(q)' <=> NotStarted(q))
  BY <1>2, <1>3 DEF Active, AddedBy, Statements, Size, Target, Edits, Deletes, Clearing, Todo,
                    TablesOf, NotStarted
<1>6. \A x : Parents(x)' = Parents(x)
  BY <1>2 DEF Parents, ProfileOf
<1>7. /\ \A x \in added[r] : x[2] = r /\ x[1] # "source"
      /\ r # 0 /\ q # r /\ r \in Nat /\ q \in Nat /\ q # 0
  BY <1>1, <1>2, AddedAre, BodyFacts
<1>8. Visible(q)' = (Visible(r) \cup added[q]) \ removed[q]
  BY <1>2, <1>3 DEF Visible
<1>9. Place(q)'
  BY <1>1, <1>2, <1>3, <1>5 DEF Place, Size
<1>10. Deletion(q)'
  <2>1. removed[q] \subseteq Visible(r)
    BY <1>1 DEF Deletion, Apart, Visible
  <2>2. \A x \in removed[q] \cup Todo(q) : Reason(q, x)'
    BY <1>1, <1>3, <1>4, <1>5, <1>6 DEF Deletion, Reason, Edits, Deletes
  <2>3. \A x \in removed[q], c \in Visible(q)' : x \in Parents(c) /\ c[1] # "profile" => c \in Todo(q)
    <3> SUFFICES ASSUME NEW x \in removed[q], NEW c \in Visible(q)', x \in Parents(c), c[1] # "profile"
                 PROVE  c \in Todo(q)
      OBVIOUS
    <3>1. c \notin added[r]
      BY <1>1 DEF Apart
    <3>2. c \in Visible(q)
      BY <1>8, <3>1 DEF Visible
    <3> QED BY <1>1, <3>2 DEF Deletion
  <2> QED BY <1>1, <1>2, <1>3, <1>5, <1>6, <2>1, <2>2, <2>3 DEF Deletion
<1>11. Cleared(q)'
  <2> SUFFICES ASSUME Active(q), Edits(q), todo[q] # Unset \/ ~NotStarted(q),
                      NEW x \in RowsToClear(q)', x \notin removed[q]
               PROVE  x \in Todo(q) \/ (x[2] # 0 /\ Together(x[2], q) /\ Together(q, x[2]))
    BY <1>2, <1>3, <1>5 DEF Cleared, Together
  <2>1. /\ x \in Visible(r)
        /\ x \in there => x \in RowsToClear(q)
    BY <1>2 DEF RowsToClear, ServicesOf, Columns, ProfileOf
  <2>2. CASE x \in there
    BY <1>1, <2>1, <2>2 DEF Cleared
  <2>3. CASE x \in added[r]
    BY <1>1, <1>2, <1>7, <2>3 DEF Apart
  <2> QED BY <2>1, <2>2, <2>3 DEF Visible
<1>12. Whole(q)'
  <2> SUFFICES ASSUME Service(q) \in Visible(r), NEW i \in DOMAIN body[q].sources,
                      SourceRow(body[q].sources[i]) \in Visible(r)
               PROVE  Link(q, body[q].sources[i]) \in Visible(r)
    BY <1>2 DEF Whole
  <2> DEFINE s == body[q].sources[i]
  <2>1. /\ Service(q) \in there /\ Service(q) \notin removed[r]
        /\ SourceRow(s) \in there /\ SourceRow(s) \notin removed[r]
    BY <1>7 DEF Visible, Service, SourceRow
  <2>2. Link(q, s) \in there
    BY <1>1, <2>1 DEF Whole
  <2>3. Parents(Link(q, s)) = {Service(q), SourceRow(s)} /\ Link(q, s)[1] = "link"
    BY ParentsAre DEF Link
  <2>4. Link(q, s) \notin removed[r]
    <3> SUFFICES ASSUME Link(q, s) \in removed[r] PROVE FALSE
      OBVIOUS
    <3>1. Reason(r, Link(q, s))
      BY <1>1 DEF Deletion
    <3>2. Target(r) \notin Parents(Link(q, s)) \/ ~Edits(r)
      BY <2>3 DEF Target, Edits, Service, SourceRow, Profile, Display
    <3>3. Link(q, s) # Target(r) \/ ~Deletes(r)
      BY <2>3 DEF Target, Deletes, Profile, Display, SourceRow, Link
    <3> QED BY <2>1, <2>3, <3>1, <3>2, <3>3 DEF Reason
  <2> QED BY <2>2, <2>4 DEF Visible
<1>13. \A c \in added'[q] : Parents(c)' \subseteq Visible(q)'
  <2> SUFFICES ASSUME NEW c \in added[q], NEW p \in Parents(c) PROVE p \in Visible(q)'
    BY <1>3, <1>6
  <2>1. p \in Visible(q) /\ p \notin removed[r]
    BY <1>1 DEF Apart
  <2> QED BY <1>8, <2>1 DEF Visible
<1> QED BY <1>9, <1>10, <1>11, <1>12, <1>13

LEMMA CommitKeeps ==
  ASSUME StoreInv, NEW r \in Requests, Commit(r)
  PROVE  StoreInv'
<1>1. StoreTypes
  BY DEF StoreInv
<1>2. /\ body' = body /\ at' = at /\ overlaps' = overlaps /\ there' = Visible(r)
      /\ answer' \in [Requests -> {Unset, 201, 204, 400, 404, 409, 500}]
      /\ answer'[r] # Unset /\ \A q \in Requests \ {r} : answer'[q] = answer[q]
      /\ added' = [added EXCEPT ![r] = {}] /\ removed' = [removed EXCEPT ![r] = {}]
      /\ updated' = [updated EXCEPT ![r] = {}] /\ todo' = [todo EXCEPT ![r] = Unset]
      /\ named' = IF named = r THEN There ELSE named
  BY CommitIs
<1>3. StoreTypes'
  <2>1. Visible(r) \subseteq AllRows
    BY <1>1 DEF StoreTypes, Visible
  <2> QED BY <1>1, <1>2, <2>1 DEF StoreTypes
<1>4. Written' /\ DuplicatesOnlyByOverlap' /\ AnEditRemains'
  BY CommitKeepsRows
<1>5. \A q \in Requests : RequestKept(q)'
  BY CommitKeepsOwn, CommitKeepsOthers
<1>6. ASSUME NEW q \in Requests, NEW p \in Requests, q # p PROVE Apart(q, p)'
  <2>1. /\ Apart(q, p)
        /\ \A x : Parents(x)' = Parents(x)
    BY <1>2, <1>6 DEF StoreInv, Parents, ProfileOf
  <2>2. ASSUME NEW o \in {p, q}
        PROVE  /\ added'[o] \subseteq added[o] /\ removed'[o] \subseteq removed[o]
               /\ updated'[o] \subseteq updated[o] /\ (Active(o)' => Active(o))
    BY <1>1, <1>2 DEF StoreTypes, Active
  <2> QED BY <1>2, <2>1, <2>2 DEF Apart, Together
<1> QED BY <1>3, <1>4, <1>5, <1>6 DEF StoreInv

-------------------------------------------------------------------------------
LEMMA StoreInitInv == StoreInit => StoreInv
<1> SUFFICES ASSUME StoreInit PROVE StoreInv
  OBVIOUS
<1> USE DEF StoreInit
<1>1. there = FirstRows \/ there = FirstRows \cup ServiceRows
  OBVIOUS
<1>2. StoreTypes
  BY <1>1 DEF StoreTypes, AllRows
<1>3. \A x \in there : x[2] = 0
  BY <1>1 DEF FirstRows, ServiceRows, Profile, Display, SourceRow, Shown, Service, Link, Column
<1>4. Written
  <2>1. ASSUME NEW x \in there, x[1] # "profile" PROVE Parents(x) \subseteq there
    <3>1. ProfileOf(0) = Profile(0)
      BY DEF ProfileOf
    <3>2. /\ x \in {Display, Shown, Column(0), Service(0)}
             \/ \E s \in StoreSources : x = SourceRow(s) \/ x = Link(0, s)
      BY <1>1, <2>1 DEF FirstRows, ServiceRows, Profile
    <3>3. /\ x = Service(0) => ServiceRows \subseteq there
          /\ \A s : x = Link(0, s) => ServiceRows \subseteq there
      BY <1>1 DEF FirstRows, Profile, Display, SourceRow, Shown, Service, Link, Column
    <3> QED BY <1>1, <3>1, <3>2, <3>3, ParentsAre DEF FirstRows, ServiceRows
  <2> QED BY <1>3, <2>1 DEF Written
<1>5. DuplicatesOnlyByOverlap
  <2>1. \A x \in there : x[1] = "service" => x = Service(0)
    BY <1>2, <1>3, RowShape DEF StoreTypes
  <2>2. \A x \in there : x[1] = "column" => x = Column(0)
    BY <1>2, <1>3, RowShape DEF StoreTypes
  <2> QED BY <2>1, <2>2 DEF DuplicatesOnlyByOverlap, ServicesOf, Columns
<1>6. AnEditRemains
  BY StoreAssumption DEF AnEditRemains, Done, StoreAssumption
<1>7. ASSUME NEW r \in Requests PROVE RequestKept(r)
  <2>1. /\ at[r] = 0 /\ added[r] = {} /\ removed[r] = {} /\ updated[r] = {} /\ todo[r] = Unset
        /\ answer[r] = Unset /\ overlaps[r] = {} /\ named # r /\ ~Active(r)
    BY <1>2, BodyFacts DEF Active
  <2>2. AddedBy(r) = {} /\ Todo(r) = {}
    BY <2>1 DEF AddedBy, Todo
  <2>3. Place(r)
    <3>1. Size(r) \in Nat
      BY <1>2, BodyFacts
    <3>2. PICK m \in Nat : m = Len(body[r].sources)
      BY <1>2, BodyFacts
    <3>3. at[r] <= Size(r) + m + 1
      BY <2>1, <3>1
    <3> QED BY <2>1, <2>2, <3>2, <3>3 DEF Place
  <2>4. Deletion(r) /\ Cleared(r)
    BY <2>1, <2>2 DEF Deletion, Cleared
  <2>5. Whole(r)
    BY <1>2, <1>3, BodyFacts DEF Whole, Service
  <2> QED BY <2>1, <2>3, <2>4, <2>5 DEF RequestKept
<1>8. ASSUME NEW q \in Requests, NEW r \in Requests PROVE Apart(q, r)
  BY DEF Apart, Active
<1> QED BY <1>2, <1>4, <1>5, <1>6, <1>7, <1>8 DEF StoreInv

LEMMA StoreKeepsInv == StoreInv /\ StoreNext => StoreInv'
<1> SUFFICES ASSUME StoreInv, NEW r \in Requests, Begin(r) \/ Step(r) \/ DeadlockAbort(r)
             PROVE  StoreInv'
  BY DEF StoreNext
<1>1. CASE Begin(r)
  BY <1>1, BeginKeeps
<1>2. CASE StartDelete(r)
  BY <1>2, StartDeleteKeeps
<1>3. CASE DeleteRow(r)
  BY <1>3, DeleteRowKeeps
<1>4. CASE EndDelete(r)
  BY <1>4, EndDeleteKeeps
<1>5. CASE Select(r)
  BY <1>5, SelectKeeps
<1>6. CASE Update(r)
  BY <1>6, UpdateKeeps
<1>7. CASE FindService(r)
  BY <1>7, FindServiceKeeps
<1>8. CASE InsertName(r)
  BY <1>8, InsertNameKeeps
<1>9. CASE Insert(r)
  BY <1>9, InsertKeeps
<1>10. CASE Commit(r)
  BY <1>10, CommitKeeps
<1>11. CASE DeadlockAbort(r)
  BY <1>11, DeadlockAbortKeeps
<1>12. CASE CreateTenant(r)
  BY <1>12, CreateTenantKeeps
<1> QED BY <1>1, <1>2, <1>3, <1>4, <1>5, <1>6, <1>7, <1>8, <1>9, <1>10, <1>11, <1>12 DEF Step

LEMMA StoreStutter == StoreInv /\ UNCHANGED storeVars => StoreInv'
<1> SUFFICES ASSUME StoreInv, UNCHANGED storeVars PROVE StoreInv'
  OBVIOUS
<1> USE DEF StoreInv
<1>1. /\ body' = body /\ at' = at /\ there' = there /\ added' = added /\ removed' = removed
      /\ updated' = updated /\ todo' = todo /\ named' = named /\ answer' = answer /\ overlaps' = overlaps
  BY DEF storeVars
<1>2. StoreTypes'
  BY <1>1 DEF StoreTypes
<1>3. \A x : Parents(x)' = Parents(x)
  BY <1>1 DEF Parents, ProfileOf
<1>4. Written'
  BY <1>1, <1>3 DEF Written
<1>5. ServicesOf(Profile(0))' = ServicesOf(Profile(0)) /\ Columns' = Columns
  BY <1>1 DEF ServicesOf, Columns, ProfileOf
<1>6. DuplicatesOnlyByOverlap' /\ AnEditRemains'
  BY <1>1, <1>5 DEF DuplicatesOnlyByOverlap, AnEditRemains, Done, Together
<1>7. ASSUME NEW r \in Requests PROVE RequestKept(r)'
  <2>1. RequestKept(r)
    OBVIOUS
  <2>2. /\ Active(r)' <=> Active(r)
        /\ AddedBy(r)' = AddedBy(r) /\ Statements(r)' = Statements(r) /\ Target(r)' = Target(r)
        /\ (Edits(r)' <=> Edits(r)) /\ (Deletes(r)' <=> Deletes(r)) /\ (Clearing(r)' <=> Clearing(r))
        /\ Todo(r)' = Todo(r) /\ TablesOf(r)' = TablesOf(r) /\ (NotStarted(r)' <=> NotStarted(r))
        /\ Visible(r)' = Visible(r) /\ RowsToClear(r)' = RowsToClear(r)
    BY <1>1, <1>5 DEF Active, AddedBy, Statements, Size, Target, Edits, Deletes, Clearing, Todo,
                      TablesOf, NotStarted, Visible, RowsToClear
  <2>3. Place(r)'
    BY <1>1, <2>1, <2>2 DEF RequestKept, Place, Size
  <2>4. Deletion(r)'
    <3>1. \A x \in removed[r] \cup Todo(r) : Reason(r, x)'
      BY <1>1, <1>3, <2>1, <2>2 DEF RequestKept, Deletion, Reason
    <3> QED BY <1>1, <1>3, <2>1, <2>2, <3>1 DEF RequestKept, Deletion
  <2>5. Cleared(r)' /\ Whole(r)'
    BY <1>1, <2>1, <2>2 DEF RequestKept, Cleared, Whole, Together
  <2> QED BY <1>1, <1>3, <2>1, <2>2, <2>3, <2>4, <2>5 DEF RequestKept
<1>8. ASSUME NEW q \in Requests, NEW r \in Requests, q # r PROVE Apart(q, r)'
  BY <1>1, <1>3, <1>8 DEF Apart, Active, Together
<1> QED BY <1>2, <1>4, <1>6, <1>7, <1>8

(* The invariant of the requests on profiles, displays and sources.         *)
THEOREM SpecStoreInv == Spec => []StoreInv
<1>1. Init => StoreInv
  BY StoreInitInv DEF Init
<1>2. StoreInv /\ [Next]_vars => StoreInv'
  BY StoreKeepsInv, StoreStutter DEF Next, AnswerView, ChangeProfiles, ChangeFavorites, vars
<1> QED BY <1>1, <1>2, PTL DEF Spec

(* A refused request changes no committed row, wherever its statements have *)
(* come to: what it has deleted and inserted is rolled back, and a DELETE   *)
(* that commits and answers 404 has deleted nothing.                        *)
THEOREM SpecRefusedChangesNothing == Spec => RefusedChangesNothing
<1>1. StoreInv /\ [Next]_vars =>
        [\A r \in Requests : answer'[r] \notin {answer[r], 201, 204} => there' = there]_storeVars
  <2> SUFFICES ASSUME StoreInv, StoreNext,
                      NEW q \in Requests, answer'[q] \notin {answer[q], 201, 204}
               PROVE  there' = there
    BY DEF Next, AnswerView, ChangeProfiles, ChangeFavorites, vars
  <2>1. PICK r \in Requests : Begin(r) \/ Step(r) \/ DeadlockAbort(r)
    BY DEF StoreNext
  <2>2. CASE Commit(r)
    <3>1. /\ there' = Visible(r) /\ answer'[r] \in {201, 204, 404}
          /\ \A p \in Requests \ {r} : answer'[p] = answer[p]
          /\ answer'[r] = 404 => removed[r] = {} /\ added[r] = {}
      BY <2>2, CommitIs
    <3>2. answer'[r] = 404
      BY <3>1
    <3> QED BY <3>1, <3>2 DEF Visible
  <2>3. CASE ~Commit(r)
    <3>1. CASE Begin(r)
      BY <3>1 DEF Begin
    <3>2. CASE StartDelete(r) \/ DeleteRow(r) \/ EndDelete(r)
      BY <3>2 DEF StartDelete, DeleteRow, EndDelete, Advance
    <3>3. CASE Select(r) \/ Update(r)
      BY <3>3 DEF Select, Update, Advance, Rollback
    <3>4. CASE CreateTenant(r) \/ FindService(r) \/ InsertName(r) \/ Insert(r)
      BY <3>4 DEF CreateTenant, FindService, InsertName, Insert, Advance, Rollback
    <3>5. CASE DeadlockAbort(r)
      BY <3>5 DEF DeadlockAbort, Rollback
    <3> QED BY <2>1, <2>3, <3>1, <3>2, <3>3, <3>4, <3>5 DEF Step
  <2> QED BY <2>2, <2>3
<1> QED BY <1>1, SpecStoreInv, PTL DEF Spec, RefusedChangesNothing

-------------------------------------------------------------------------------
(***************************************************************************)
(* Deadlocks, while nobody deletes: requests wait for a row that another    *)
(* edit has cleared, for the name of the service, or for who has renamed.   *)
(***************************************************************************)
NobodyDeletes == \A r \in Requests : Active(r) => Statements(r) # Delete
Awaits(r, q) == q \in Waits(r)
ClearsAfter(r, q) == InDelete(r) /\ \E x \in First(todo[r]) : x \in removed[q]
Renames(q) == body[q].kind = "editProfile" /\ body[q].renamed

LEMMA EditsRemove ==
  ASSUME StoreInv, NobodyDeletes, NEW q \in Requests, NEW x \in removed[q] \cup Todo(q)
  PROVE  /\ Active(q) /\ Edits(q) /\ x \in AllRows /\ x[1] \in {"service", "link", "column"}
         /\ x[2] # 0 => x[2] \in Requests /\ ~Active(x[2])
<1>1. StoreTypes /\ Place(q) /\ Reason(q, x)
  BY DEF StoreInv, RequestKept, Deletion
<1>2. Active(q)
  BY <1>1 DEF Place, Todo
<1>3. ~Deletes(q)
  BY <1>2 DEF NobodyDeletes, Statements, Deletes
<1>4. Edits(q)
  BY <1>1, <1>3, BodyFacts DEF Reason, TablesOf, Edits, Deletes
<1>5. x[1] \in {"service", "link", "column"}
  BY <1>1, <1>4 DEF Reason, TablesOf, Edits
<1>6. x[2] # 0 => x[2] \in Requests /\ ~Active(x[2])
  BY <1>1 DEF Reason, Active
<1>7. x \in AllRows
  BY <1>1 DEF StoreTypes, Todo
<1> QED BY <1>2, <1>4, <1>5, <1>6, <1>7

LEMMA UpdatedAre ==
  ASSUME StoreInv, NEW q \in Requests, NEW x \in updated[q]
  PROVE  /\ Active(q) /\ Edits(q) /\ body[q].renamed /\ at[q] > 3 /\ updated[q] = {x}
         /\ \/ x = Profile(0) /\ Renames(q)
            \/ x = Display /\ body[q].kind = "editDisplay"
BY DEF StoreInv, RequestKept, Place, Target, Edits, Renames

(* Only the service of a renamed profile is inserted after others.          *)
LEMMA InsertAwaits ==
  ASSUME StoreInv, NobodyDeletes, NEW r \in Requests, Inserting(r), NEW q \in InsertWaits(r)
  PROVE  /\ q \in Requests /\ q # r /\ updated[q] = {Profile(0)}
         /\ Doing(r, "row") /\ body[r].kind = "editProfile"
<1>1. StoreTypes /\ Active(r) /\ r # 0
  BY BodyFacts DEF StoreInv, Inserting, Doing
<1>2. PICK p \in Parents(Inserted(r)) : q \in KeyHolders(r, p)
  BY DEF InsertWaits
<1>3. q \in Requests /\ q # r
  BY <1>2 DEF KeyHolders, Deleters, Updaters, Others
<1>4. \/ p = Display
      \/ \E s : p = SourceRow(s)
      \/ p = Service(r)
      \/ p = ProfileOf(r) /\ ~Doing(r, "parent") /\ ~Doing(r, "link")
  BY <1>2, ParentsAre DEF Inserted
<1>5. p \notin removed[q]
  <2> SUFFICES ASSUME p \in removed[q] PROVE FALSE
    OBVIOUS
  <2>1. p[1] \in {"service", "link", "column"} /\ (p[2] # 0 => ~Active(p[2]))
    BY <1>3, EditsRemove
  <2>2. p = Service(r)
    BY <1>4, <2>1 DEF Display, SourceRow, ProfileOf, Profile
  <2> QED BY <1>1, <2>1, <2>2 DEF Service
<1>6. p[1] = "profile" /\ p \in updated[q]
  BY <1>2, <1>5 DEF KeyHolders, Deleters, Updaters
<1>7. p = Profile(0) /\ updated[q] = {Profile(0)}
  BY <1>3, <1>6, UpdatedAre DEF Display
<1>8. ProfileOf(r) = Profile(0) /\ Doing(r, "row")
  BY <1>4, <1>7 DEF Display, SourceRow, Service, Profile, Inserting
<1>9. body[r].kind = "editProfile"
  <2>1. body[r].kind # "createProfile"
    BY <1>1, <1>8 DEF ProfileOf, Profile
  <2>2. body[r].kind # "editDisplay"
    <3>1. body[r].kind = "editDisplay" => Inserted(r) = Column(r)
      BY <1>4, <1>7 DEF Inserted, Display, SourceRow, Service, Profile
    <3> QED BY <1>2, <1>7, <3>1, ParentsAre DEF Display, Profile
  <2>3. ~Deletes(r)
    BY <1>1 DEF NobodyDeletes, Statements, Deletes
  <2> QED BY <1>1, <2>1, <2>2, <2>3, BodyFacts DEF Deletes
<1> QED BY <1>3, <1>7, <1>8, <1>9

(* Who is waited for.                                                       *)
LEMMA AwaitsFor ==
  ASSUME StoreInv, NobodyDeletes, NEW r \in Requests, NEW q, Awaits(r, q)
  PROVE  /\ q \in Requests /\ q # r /\ Active(r)
         /\ \/ ClearsAfter(r, q)
            \/ Doing(r, "name") /\ q = named
            \/ updated[q] # {}
            \/ at[q] > Size(q)
<1>1. StoreTypes /\ Active(r) /\ q \in Waits(r)
  BY DEF StoreInv, Awaits, Waits
<1>2. CASE InDelete(r)
  <2>1. PICK x \in First(todo[r]) : q \in DeleteWaits(r, x)
    BY <1>1, <1>2 DEF Waits
  <2>2. x \in Todo(r)
    BY <1>2, <2>1 DEF First, InDelete, Todo
  <2>3. x[1] \in {"service", "link", "column"} /\ x \in AllRows /\ (x[2] # 0 => ~Active(x[2]))
    BY <2>2, EditsRemove
  <2>4. q \in Requests /\ q # r
    BY <2>1 DEF DeleteWaits, Deleters, Updaters, Inserters, Others
  <2>5. x # Shown /\ x # Profile(0) /\ x # Display
    BY <2>3 DEF Shown, Profile, Display
  <2>6. x \notin updated[q]
    BY <2>4, <2>5, UpdatedAre
  <2>7. \A c \in added[q] : x \notin Parents(c)
    <3> SUFFICES ASSUME NEW c \in added[q], x \in Parents(c) PROVE FALSE
      OBVIOUS
    <3>1. c \in AddedBy(q) /\ c \in AllRows
      BY <1>1, <2>4 DEF StoreInv, RequestKept, Place, StoreTypes
    <3>2. Active(q) /\ c[2] = q
      BY <1>1, <2>4, <3>1, AddedAre
    <3>3. x = Service(q)
      BY <2>3, <3>1, <3>2, ParentTables DEF ProfileOf, Profile, Display, SourceRow
    <3> QED BY <1>1, <2>3, <2>4, <3>2, <3>3, BodyFacts DEF Service
  <2>8. x \in removed[q]
    BY <2>1, <2>4, <2>5, <2>6, <2>7 DEF DeleteWaits, Deleters, Updaters, Inserters
  <2> QED BY <1>1, <1>2, <2>1, <2>4, <2>8 DEF ClearsAfter
<1>3. CASE ~InDelete(r) /\ Doing(r, "update") /\ body[r].renamed
  <2>1. q \in UpdateWaits(r, Target(r))
    BY <1>1, <1>3 DEF Waits
  <2>2. q \in Requests /\ q # r
    BY <2>1 DEF UpdateWaits, Deleters, Updaters, Inserters, Others
  <2>3. Target(r) = Profile(0) \/ Target(r) = Display
    BY <1>1, <1>3, DoingAt DEF Target, Edits
  <2>4. Target(r) \notin removed[q] /\ Shown \notin removed[q]
    BY <2>2, <2>3, EditsRemove DEF Profile, Display, Shown
  <2>5. CASE Target(r) \in updated[q]
    BY <1>1, <2>2, <2>5
  <2>6. CASE Target(r) = Profile(0) /\ \E c \in added[q] : Target(r) \in Parents(c)
    <3>1. PICK c \in added[q] : Profile(0) \in Parents(c)
      BY <2>6
    <3>2. c \in AddedBy(q) /\ c \in AllRows
      BY <1>1, <2>2 DEF StoreInv, RequestKept, Place, StoreTypes
    <3>3. c[1] = "service"
      BY <1>1, <2>2, <3>1, <3>2, AddedAre, ParentTables DEF Profile, Display, Service, SourceRow
    <3>4. at[q] > Size(q)
      BY <3>2, <3>3 DEF AddedBy, Profile, Column
    <3> QED BY <1>1, <2>2, <3>4
  <2> QED BY <2>1, <2>2, <2>3, <2>4, <2>5, <2>6
          DEF UpdateWaits, Deleters, Updaters, Inserters, Display, Profile
<1>4. CASE Doing(r, "name") /\ q \in {named} \cap Others(r)
  BY <1>1, <1>4 DEF Others
<1>5. CASE Inserting(r) /\ q \in InsertWaits(r)
  BY <1>1, <1>5, InsertAwaits
<1> QED BY <1>1, <1>2, <1>3, <1>4, <1>5 DEF Waits

(* Who has renamed waits for nobody but who inserts the name.               *)
LEMMA HolderAwaits ==
  ASSUME StoreInv, NobodyDeletes, NEW q \in Requests, NEW p, Awaits(q, p),
         updated[q] # {} \/ at[q] > Size(q)
  PROVE  Renames(q) /\ named \in Requests
<1>1. StoreTypes /\ Place(q) /\ Active(q) /\ p \in Waits(q)
  BY DEF StoreInv, RequestKept, Awaits, Waits
<1>2. /\ Size(q) = (IF body[q].kind = "editProfile" THEN 6
                 ELSE IF body[q].kind = "createProfile" THEN 5 ELSE IF Deletes(q) THEN 1 ELSE 4)
      /\ at[q] \in Nat
      /\ ~Deletes(q)
  BY <1>1, BodyFacts DEF NobodyDeletes, Statements, Deletes
<1>3. at[q] > 3
  BY <1>2, UpdatedAre
<1>4. ~InDelete(q)
  BY <1>1, <1>2, <1>3 DEF InDelete, Place, Clearing
<1>5. ~Doing(q, "update")
  BY <1>1, <1>3, DoingAt
<1>6. ~(Inserting(q) /\ p \in InsertWaits(q))
  <2> SUFFICES ASSUME Inserting(q), p \in InsertWaits(q) PROVE FALSE
    OBVIOUS
  <2>1. p \in Requests /\ p # q /\ updated[p] = {Profile(0)} /\ Doing(q, "row") /\ body[q].kind = "editProfile"
    BY InsertAwaits
  <2>2. at[q] = 6 /\ ~(at[q] > Size(q))
    BY <1>1, <1>2, <2>1, DoingAt
  <2>3. updated[q] = {Profile(0)}
    BY <2>1, <2>2, UpdatedAre
  <2> QED BY <2>1, <2>3 DEF StoreInv, Apart
<1>7. Doing(q, "name") /\ p \in {named} \cap Others(q)
  BY <1>1, <1>4, <1>5, <1>6 DEF Waits
<1>8. at[q] <= Size(q)
  BY <1>1, <1>2, <1>7, DoingAt
<1> QED BY <1>2, <1>7, <1>8, UpdatedAre, DoingAt, <1>1 DEF Others, Edits, Renames

(* Along what requests wait for: a row, or somebody who renames.            *)
LEMMA WaitingLeadsToRenames ==
  ASSUME StoreInv, NobodyDeletes, NEW o \in Requests, NEW p, NEW q, NEW s,
         Awaits(o, p), Awaits(p, q), Awaits(q, s)
  PROVE  \/ ClearsAfter(o, p)
         \/ named \in Requests /\ (Renames(p) \/ Renames(q))
<1>1. /\ p \in Requests
      /\ ClearsAfter(o, p) \/ (Doing(o, "name") /\ p = named) \/ updated[p] # {} \/ at[p] > Size(p)
  BY AwaitsFor
<1>2. CASE updated[p] # {} \/ at[p] > Size(p)
  BY <1>1, <1>2, HolderAwaits
<1>3. CASE p = named
  <2>1. StoreTypes /\ Place(p)
    BY <1>1 DEF StoreInv, RequestKept
  <2>2. Active(p) /\ body[p].kind \in {"editProfile", "createProfile"} /\ at[p] >= Size(p) /\ at[p] \in Nat
    BY <1>3, <2>1, <1>1, BodyFacts DEF Place
  <2>3. Size(p) = (IF body[p].kind = "editProfile" THEN 6 ELSE 5) /\ Size(p) \in Nat
    BY <1>1, <2>1, <2>2, BodyFacts DEF Deletes
  <2>4. ~Clearing(p) /\ ~Doing(p, "name")
    BY <1>1, <2>1, <2>2, <2>3, DoingAt DEF Clearing, Deletes
  <2>5. ~ClearsAfter(p, q)
    BY <2>1, <2>4 DEF ClearsAfter, InDelete, Place
  <2>6. q \in Requests /\ (updated[q] # {} \/ at[q] > Size(q))
    BY <1>1, <2>4, <2>5, AwaitsFor
  <2> QED BY <1>1, <1>3, <2>6, HolderAwaits
<1> QED BY <1>1, <1>2, <1>3

(* The rows of an edit's DELETE come in one order.                          *)
LEMMA ClearingIsOrdered ==
  ASSUME StoreInv, NobodyDeletes, NEW o \in Requests, NEW p \in Requests,
         NEW x \in First(todo[o]), NEW y \in First(todo[p]), InDelete(p), InDelete(o), x \in removed[p]
  PROVE  x \in AllRows /\ y \in AllRows /\ Before(x, y)
<1>1. x \in Todo(o) /\ y \in Todo(p)
  BY DEF First, Todo, InDelete
<1>2. x \in AllRows /\ y \in AllRows /\ Edits(p)
  BY <1>1, EditsRemove
<1> QED BY <1>1, <1>2 DEF StoreInv, RequestKept, Deletion

LEMMA DeadlocksKnown == StoreInv => DeadlocksAreKnown
<1> SUFFICES ASSUME StoreInv, NEW o \in Requests, Deadlocked(o), NobodyDeletes
             PROVE  named \in Requests /\ \E r \in Requests : Deadlocked(r) /\ Renames(r)
  BY DEF DeadlocksAreKnown, NobodyDeletes, Renames
<1>1. PICK p, q : Awaits(o, p) /\ Awaits(p, q) /\ (q = o \/ Awaits(q, o))
  BY DEF Deadlocked, WaitsOf, Awaits
<1>2. p \in Requests /\ q \in Requests
  BY <1>1, AwaitsFor
<1>3. Deadlocked(p) /\ Deadlocked(q)
  BY <1>1 DEF Deadlocked, WaitsOf, Awaits
<1>4. CASE named \in Requests /\ (Renames(o) \/ Renames(p) \/ Renames(q))
  BY <1>2, <1>3, <1>4
<1>5. CASE ~(named \in Requests /\ (Renames(o) \/ Renames(p) \/ Renames(q)))
  <2>1. ClearsAfter(o, p)
    BY <1>1, <1>2, <1>5, WaitingLeadsToRenames
  <2>2. ClearsAfter(p, q)
    BY <1>1, <1>2, <1>5, WaitingLeadsToRenames
  <2>3. q # o => ClearsAfter(q, o)
    BY <1>1, <1>2, <1>5, WaitingLeadsToRenames
  <2>4. PICK x \in First(todo[o]) : x \in removed[p] /\ InDelete(o)
    BY <2>1 DEF ClearsAfter
  <2>5. PICK y \in First(todo[p]) : y \in removed[q] /\ InDelete(p)
    BY <2>2 DEF ClearsAfter
  <2>6. x \in AllRows /\ y \in AllRows /\ Before(x, y)
    BY <1>2, <2>4, <2>5, ClearingIsOrdered
  <2>7. CASE q = o
    <3>1. Before(y, x)
      BY <1>2, <2>4, <2>5, <2>7, ClearingIsOrdered
    <3> QED BY <2>6, <3>1, BeforeIsStrict
  <2>8. CASE q # o
    <3>1. PICK z \in First(todo[q]) : z \in removed[o] /\ InDelete(q)
      BY <2>3, <2>8 DEF ClearsAfter
    <3>2. z \in AllRows /\ Before(y, z) /\ Before(z, x)
      BY <1>2, <2>4, <2>5, <3>1, ClearingIsOrdered
    <3>3. Before(x, z)
      BY <2>6, <3>2, BeforeIsOrder
    <3> QED BY <2>6, <3>2, <3>3, BeforeIsStrict
  <2> QED BY <2>7, <2>8
<1> QED BY <1>4, <1>5

(* Edits that overlap leave whole services and columns behind, whatever is  *)
(* deleted meanwhile, and a deadlock takes a deletion or a new name.        *)
THEOREM SpecEditsAreKept == Spec => []EditsAreKept
<1>1. StoreInv => EditsAreKept
  <2> SUFFICES ASSUME StoreInv PROVE EditsAreKept
    OBVIOUS
  <2>1. StoreTypes /\ Written /\ DuplicatesOnlyByOverlap /\ AnEditRemains
    BY DEF StoreInv
  <2>2. StoreTypeOK
    <3>1. ASSUME NEW r \in Requests
          PROVE  /\ at[r] \in 0 .. Len(Statements(r)) + Len(body[r].sources) + 1
                 /\ answer[r] \in {Unset, 201, 204, 400, 404, 409, 500}
                 /\ todo[r] # Unset => Doing(r, "clear") \/ Doing(r, "remove")
      <4>1. Place(r)
        BY DEF StoreInv, RequestKept
      <4>2. todo[r] # Unset => Active(r) /\ Clearing(r)
        BY <4>1 DEF Place
      <4>3. todo[r] # Unset => Doing(r, "clear") \/ Doing(r, "remove")
        BY <2>1, <4>2, DoingAt DEF Clearing
      <4>4. at[r] \in Nat /\ Size(r) \in Nat /\ Len(body[r].sources) \in Nat
            /\ at[r] <= Size(r) + Len(body[r].sources) + 1
        BY <2>1, <4>1, BodyFacts DEF Place
      <4>5. PICK m \in Nat, size \in Nat : m = Len(body[r].sources) /\ size = Size(r)
        BY <4>4
      <4>6. at[r] \in 0 .. size + m + 1
        BY <4>4, <4>5
      <4> QED BY <2>1, <4>3, <4>5, <4>6 DEF StoreTypes, Size
    <3> QED BY <2>1, <3>1 DEF StoreTypes, StoreTypeOK
  <2>3. EditIsWhole
    <3> SUFFICES ASSUME NEW r \in Requests, Service(r) \in there
                 PROVE  {x[3] : x \in {y \in there : y[1] = "link" /\ y[2] = r}} =
                          {s \in StoreSources : /\ SourceRow(s) \in there
                                                /\ \E i \in DOMAIN body[r].sources : body[r].sources[i] = s}
      BY DEF EditIsWhole
    <3>1. ASSUME NEW x \in there, x[1] = "link", x[2] = r
          PROVE  /\ x[3] \in StoreSources /\ SourceRow(x[3]) \in there
                 /\ \E i \in DOMAIN body[r].sources : body[r].sources[i] = x[3]
      <4>1. x = Link(r, x[3]) /\ r # 0 /\ body[r].sources \in Seq(StoreSources)
        BY <2>1, <3>1, RowShape, BodyFacts DEF StoreTypes
      <4>2. SourceRow(x[3]) \in Parents(x)
        BY <4>1, ParentsAre
      <4>3. SourceRow(x[3]) \in there /\ \E i \in DOMAIN body[r].sources : body[r].sources[i] = x[3]
        BY <2>1, <3>1, <4>1, <4>2 DEF Written
      <4>4. PICK i \in DOMAIN body[r].sources : body[r].sources[i] = x[3]
        BY <4>3
      <4>5. x[3] \in StoreSources
        BY <4>1, <4>4
      <4> QED BY <4>3, <4>5
    <3>2. ASSUME NEW i \in DOMAIN body[r].sources, SourceRow(body[r].sources[i]) \in there
          PROVE  \E x \in there : x[1] = "link" /\ x[2] = r /\ x[3] = body[r].sources[i]
      <4>1. Link(r, body[r].sources[i]) \in there
        BY <3>2 DEF StoreInv, RequestKept, Whole
      <4> QED BY <4>1 DEF Link
    <3> QED BY <3>1, <3>2
  <2> QED BY <2>1, <2>2, <2>3, DeadlocksKnown DEF EditsAreKept
<1> QED BY <1>1, SpecStoreInv, PTL
===============================================================================
