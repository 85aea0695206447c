----------------------------- MODULE MCElectors -----------------------------
(***************************************************************************)
(* The electors of Redis, MongoDB, DynamoDB and etcd, each on its own:      *)
(* "which" picks the one a behaviour is about, and the variables of the     *)
(* others stay as they are.                                                 *)
(***************************************************************************)
EXTENDS DynamoLeader, Sequences, TLC

CONSTANTS e1, e2, c1, c2, c3, r1, r2

\* The DynamoDB elector has the variables of its module; the others have these.
VARIABLES
  which, time,
  owned, handle, cancelled, granted, renewals, at,
  key, campaigning, cleanup, generation, callGeneration, callDone,
  slots, active, started, joined, gaveUp,
  drift, document, told, elector,
  keys, older, lease, deleted, monitor, rpc, campaigns,
  cand, index, step

\* Two goroutines may resign e1, none e2.
TwoResign == e1 :> {r1, r2} @@ e2 :> {}

Redis == INSTANCE RedisLeader WITH
  now <- time, loop <- renewals, pc <- at,
  Callers <- {c1, c3}, Uses <- c1 :> e1 @@ c3 :> e2, Lease <- 2, MaxNow <- 3, MaxGeneration <- 2
\* Two goroutines of one process call the elector e1.
RedisCalls == INSTANCE RedisLeader WITH
  now <- time, loop <- renewals, pc <- at,
  Callers <- {c1, c2, c3}, Uses <- c1 :> e1 @@ c2 :> e1 @@ c3 :> e2, Lease <- 2, MaxNow <- 4, MaxGeneration <- 2
RedisGroup == INSTANCE RedisGroupLeader WITH
  now <- time, loop <- renewals, pc <- at,
  MaxLeaders <- 1, Lease <- 1, MaxNow <- 3, MaxLoops <- e1 :> 2 @@ e2 :> 1
Mongo == INSTANCE MongoElectors WITH
  now <- time, skew <- drift, record <- document, known <- told, el <- elector,
  Members <- Electors, MaxLeaders <- 2, SlotStart <- e1 :> 0 @@ e2 :> 0,
  Lease <- 2, MaxSkew <- 1, MaxDelay <- 1, MaxNow <- 3
Etcd == INSTANCE EtcdLeader WITH el <- elector, pc <- at, MaxCampaigns <- 3
RedisCandidates == INSTANCE Strategic WITH
  now <- time,
  Nodes <- {1, 2}, Indexed <- TRUE, TTLs <- {2}, Buffer <- 1, Scores <- {1, 2}, MaxTime <- 3, MaxResults <- 1
MongoCandidates == INSTANCE Strategic WITH
  now <- time,
  Nodes <- {1, 2}, Indexed <- FALSE, TTLs <- {1, 2}, Buffer <- 1, Scores <- {1, 2}, MaxTime <- 2, MaxResults <- 1

redisShared == <<owned, handle, cancelled, granted, renewals>>
redisOnly == <<key, campaigning, cleanup, generation, callGeneration, callDone>>
groupOnly == <<slots, active, started, joined, gaveUp>>
mongoOnly == <<drift, document, told>>
etcdOnly == <<keys, older, lease, deleted, monitor, rpc, campaigns>>
candOnly == <<cand, index, step>>
others == <<time, at, elector, redisShared, redisOnly, groupOnly, mongoOnly, etcdOnly, candOnly>>
allVars == <<which, vars, others>>

Unused(x) == x = 0
NoShared == Unused(owned) /\ Unused(handle) /\ Unused(cancelled) /\ Unused(granted) /\ Unused(renewals)
NoRedis ==
  /\ Unused(key) /\ Unused(campaigning) /\ Unused(cleanup)
  /\ Unused(generation) /\ Unused(callGeneration) /\ Unused(callDone)
NoGroup == Unused(slots) /\ Unused(active) /\ Unused(started) /\ Unused(joined) /\ Unused(gaveUp)
NoMongo == Unused(drift) /\ Unused(document) /\ Unused(told)
NoEtcd ==
  /\ Unused(keys) /\ Unused(older) /\ Unused(lease) /\ Unused(deleted)
  /\ Unused(monitor) /\ Unused(rpc) /\ Unused(campaigns)
NoCand == Unused(cand) /\ Unused(index) /\ Unused(step)

\* The DynamoDB elector while a behaviour is about another one.
NoDynamo == Init /\ skew = [e \in Electors |-> 0]

CallsInit ==
  which = "calls" /\ NoDynamo /\ RedisCalls!Init /\ NoGroup /\ NoMongo /\ NoEtcd /\ NoCand /\ Unused(elector)
GroupInit ==
  which = "redisgroup" /\ NoDynamo /\ RedisGroup!Init /\ NoRedis /\ NoMongo /\ NoEtcd /\ NoCand /\ Unused(elector)

AllInit ==
  \/ which = "redis" /\ NoDynamo /\ Redis!Init /\ NoGroup /\ NoMongo /\ NoEtcd /\ NoCand /\ Unused(elector)
  \/ GroupInit
  \/ /\ NoShared /\ NoRedis /\ NoGroup
     /\ \/ /\ which = "dynamo" /\ Init
           /\ NoMongo /\ NoEtcd /\ NoCand /\ Unused(time) /\ Unused(at) /\ Unused(elector)
        \/ /\ NoDynamo
           /\ \/ which = "mongo" /\ Mongo!InitLeader /\ NoEtcd /\ NoCand /\ Unused(at)
              \/ which = "mongogroup" /\ Mongo!InitGroup /\ NoEtcd /\ NoCand /\ Unused(at)
              \/ which = "etcd" /\ Etcd!Init /\ NoMongo /\ NoCand /\ Unused(time)
              \/ /\ which \in {"rediscand", "mongocand"} /\ RedisCandidates!Init
                 /\ NoMongo /\ NoEtcd /\ Unused(elector) /\ Unused(at)

GroupNext == RedisGroup!Next /\ UNCHANGED <<which, vars, redisOnly, mongoOnly, etcdOnly, candOnly, elector>>

AllNext ==
  \/ which = "dynamo" /\ Next /\ UNCHANGED <<which, others>>
  \/ which = "redis" /\ Redis!Next /\ UNCHANGED <<which, vars, groupOnly, mongoOnly, etcdOnly, candOnly, elector>>
  \/ which = "redisgroup" /\ GroupNext
  \/ /\ \/ which = "mongo" /\ Mongo!NextLeader
        \/ which = "mongogroup" /\ Mongo!NextGroup
     /\ UNCHANGED <<which, vars, redisShared, redisOnly, groupOnly, etcdOnly, candOnly, at>>
  \/ /\ which = "etcd" /\ Etcd!Next
     /\ UNCHANGED <<which, vars, redisShared, redisOnly, groupOnly, mongoOnly, candOnly, time>>
  \/ /\ \/ which = "rediscand" /\ RedisCandidates!Next
        \/ which = "mongocand" /\ MongoCandidates!Next
     /\ UNCHANGED <<which, vars, redisShared, redisOnly, groupOnly, mongoOnly, etcdOnly, elector, at>>

AllSpec == AllInit /\ [][AllNext]_allVars

\* The elector of Redis called by two goroutines, and the group elector of Redis, each for a run of its own.
CallsNext == RedisCalls!Next /\ UNCHANGED <<which, vars, groupOnly, mongoOnly, etcdOnly, candOnly, elector>>
CallsSpec == CallsInit /\ [][CallsNext]_allVars
GroupSpec == GroupInit /\ [][GroupNext]_allVars

\* The state of each elector keeps its types.
TypesOK ==
  /\ TypeOK
  /\ which = "redis" => Redis!TypeOK
  /\ which = "redisgroup" => RedisGroup!TypeOK
  /\ which = "mongo" => Mongo!TypeOKLeader
  /\ which = "mongogroup" => Mongo!TypeOKGroup
  /\ which = "etcd" => Etcd!TypeOK
  /\ which \in {"rediscand", "mongocand"} => RedisCandidates!TypeOK

\* A leader keeps what makes it the leader while the lease it was told of runs: its key (Redis), its slot among at most
\* MaxLeaders (Redis and MongoDB groups) or its document (MongoDB), up to the skew of the clocks.  A strategic elector
\* lists every candidate that has not expired (Redis: if all register with one TTL), and acts only if the strategy
\* prefers it to all it listed.
LeaderBacked ==
  /\ which = "redis" => Redis!LeaderHoldsKey
  /\ which = "redisgroup" => RedisGroup!SlotsBounded /\ RedisGroup!LeaderHoldsSlot
  /\ which = "mongo" => Mongo!LeaderHoldsDocument
  /\ which = "mongogroup" => Mongo!LeaderHoldsSlot
  /\ which = "rediscand" => RedisCandidates!LiveCandidatesListed
  /\ which = "mongocand" => MongoCandidates!LiveCandidatesListed
  /\ which \in {"rediscand", "mongocand"} => RedisCandidates!ElectedIsBest

\* Whatever answers are lost or calls time out, an elector never forgets a live key or document that is its own, and
\* etcd's generation stays current until its key is proved gone: a later Campaign or Resign deals with it.
KeysRemembered ==
  /\ which = "redis" => Redis!NothingForgotten
  /\ which = "mongo" => Mongo!NothingForgotten
  /\ which = "etcd" => Etcd!KeyNotForgotten

\* IsLeader is true only while something watches over it: the renewal loop of the current generation (Redis), the loop
\* of a group member whose Resign calls all joined (Redis groups), the monitor that is about to see the loss of the key
\* (etcd); and DynamoDB's counter of resignations counts the calls under way.
WatchedWhileLeader ==
  /\ which = "redis" => Redis!OwnedIsRenewed
  /\ which = "redisgroup" => RedisGroup!RenewedIffJoined
  /\ which = "etcd" => Etcd!LossIsSeen
  /\ ResigningCounted

\* What a step may do: MongoDB's document moves only like the record of the conformance suite (leadertest), and only a
\* registration prolongs a candidate: a result stored late never brings one back (UpdateResult).
StepsAllowed ==
  /\ (which = "mongo" => Mongo!Record!Init) /\ [][which = "mongo" => Mongo!RecordStep]_allVars
  /\ [][(which \in {"rediscand", "mongocand"}) => RedisCandidates!NeverRevived]_allVars

\* leader/redis with two goroutines on one elector: Resign releases the ownership it was called for, never a later one.
ResignReleasesOwn == RedisCalls!ResignReleasesOwn

\* leader/redis, GroupElector: exactly the slot of an owner is renewed, by the loop of its own acquisition.
RenewedIffOwned == RedisGroup!RenewedIffOwned

=============================================================================
