------------------------------ MODULE EtcdLeader ------------------------------
(***************************************************************************)
(* leader/etcd: electors that queue up keys in etcd's order of creation.    *)
(* Each elector is shared by a goroutine that campaigns and one that        *)
(* resigns, and has the monitor of its generation.  There is at most one    *)
(* generation at a time: it is cleared once its key is proved gone.         *)
(***************************************************************************)
EXTENDS Integers

CONSTANTS Electors, MaxCampaigns

VARIABLES
  keys,         \* the electors with a key in etcd
  older,        \* per elector: those whose keys were created before its own
  lease,        \* the electors whose generation has a lease it knows of
  deleted,      \* the electors with a deletion of the key after the watch's start
  el,           \* per elector: the generation's and the elector's flags
  monitor,      \* per elector: the monitor
  pc,           \* per elector: where the Campaign is
  rpc,          \* per elector: where the Resign is
  campaigns

vars == <<keys, older, lease, deleted, el, monitor, pc, rpc, campaigns>>

Cleanup == {"stop", "revoke", "get"}

TypeOK ==
  /\ keys \subseteq Electors /\ older \in [Electors -> SUBSET Electors]
  /\ lease \subseteq Electors /\ deleted \subseteq Electors
  /\ el \in [Electors -> [current : BOOLEAN, campaigning : BOOLEAN, published : BOOLEAN, cancelled : BOOLEAN, elected : BOOLEAN]]
  /\ monitor \in [Electors -> {"none", "starting", "created", "terminal", "done"}]
  /\ pc \in [Electors -> {"idle", "grant", "campaign", "wait", "proclaim", "watch", "created", "end"} \cup Cleanup]
  /\ rpc \in [Electors -> {"idle", "resign"} \cup Cleanup]
  /\ campaigns \in 0..MaxCampaigns

Init ==
  /\ keys = {} /\ older = [e \in Electors |-> {}] /\ lease = {} /\ deleted = {}
  /\ el = [e \in Electors |-> [current |-> FALSE, campaigning |-> FALSE, published |-> FALSE, cancelled |-> FALSE, elected |-> FALSE]]
  /\ monitor = [e \in Electors |-> "none"]
  /\ pc = [e \in Electors |-> "idle"] /\ rpc = [e \in Electors |-> "idle"]
  /\ campaigns = 0

HasKey(e) == e \in keys
First(e) == older[e] = {}
At(e, next) == pc' = [pc EXCEPT ![e] = next]
ResignAt(e, next) == rpc' = [rpc EXCEPT ![e] = next]

\* Creation revisions order the keys.
PutKey(e) == keys' = keys \cup {e} /\ older' = [older EXCEPT ![e] = keys]

\* Removing a key is an event for a watch whose start revision is not later:
\* it starts after the revision of the proclamation.
RemoveKey(e) ==
  /\ keys' = keys \ {e}
  /\ older' = [f \in Electors |-> IF f = e THEN {} ELSE older[f] \ {e}]
  /\ deleted' = IF HasKey(e) /\ el[e].elected THEN deleted \cup {e} ELSE deleted

\* The lease expires at the server.
LeaseExpires(e) ==
  /\ HasKey(e) /\ RemoveKey(e)
  /\ UNCHANGED <<lease, el, monitor, pc, rpc, campaigns>>

beginCampaign(e) ==
  /\ pc[e] = "idle" /\ ~el[e].current /\ campaigns < MaxCampaigns
  /\ el' = [el EXCEPT ![e] = [current |-> TRUE, campaigning |-> TRUE, published |-> FALSE, cancelled |-> FALSE, elected |-> FALSE]]
  /\ monitor' = [monitor EXCEPT ![e] = "none"]
  /\ deleted' = deleted \ {e} /\ lease' = lease \ {e}
  /\ At(e, "grant") /\ campaigns' = campaigns + 1
  /\ UNCHANGED <<keys, older, rpc>>

\* The caller's context ends before the caller is detached.
callerCancelled(e) ==
  /\ pc[e] \in {"grant", "campaign", "wait", "proclaim", "watch", "created"} /\ ~el[e].cancelled
  /\ el' = [el EXCEPT ![e].cancelled = TRUE]
  /\ UNCHANGED <<keys, older, lease, deleted, monitor, pc, rpc, campaigns>>

\* Grant and NewSession: an error before the lease is known, after, or none.
grant(e) ==
  /\ pc[e] = "grant"
  /\ \/ At(e, "stop") /\ lease' \in {lease, lease \cup {e}}
     \/ ~el[e].cancelled /\ At(e, "campaign") /\ lease' = lease \cup {e}
  /\ UNCHANGED <<keys, older, deleted, el, monitor, rpc, campaigns>>

\* Election.Campaign puts the key, waits for the older ones to go, or fails.
campaign(e) ==
  /\ pc[e] = "campaign"
  /\ \/ At(e, "wait") /\ PutKey(e)
     \/ At(e, "stop") /\ (PutKey(e) \/ UNCHANGED <<keys, older>>)
  /\ UNCHANGED <<lease, deleted, el, monitor, rpc, campaigns>>

waitDeletes(e) ==
  /\ pc[e] = "wait"
  /\ \/ At(e, "stop")
     \/ (HasKey(e) => First(e)) /\ At(e, "proclaim")
  /\ UNCHANGED <<keys, older, lease, deleted, el, monitor, rpc, campaigns>>

\* Proclaim compares the key's creation; the snapshot and the revision after
\* it are where the watch starts.
proclaim(e) ==
  /\ pc[e] = "proclaim"
  /\ \/ At(e, "stop") /\ UNCHANGED el
     \/ HasKey(e) /\ ~el[e].cancelled /\ At(e, "watch") /\ el' = [el EXCEPT ![e].elected = TRUE]
  /\ UNCHANGED <<keys, older, lease, deleted, monitor, rpc, campaigns>>

\* A watch that starts at the revision of the day.
watchFromNow(e) ==
  /\ pc[e] = "watch" /\ At(e, "created")
  /\ deleted' = deleted \ {e}
  /\ monitor' = [monitor EXCEPT ![e] = "starting"]
  /\ UNCHANGED <<keys, older, lease, el, rpc, campaigns>>

watch(e) ==
  /\ pc[e] = "watch" /\ At(e, "created")
  /\ monitor' = [monitor EXCEPT ![e] = "starting"]
  /\ UNCHANGED <<keys, older, lease, deleted, el, rpc, campaigns>>

\* The monitor gets the watch's creation, and drains what is ready: a
\* deletion that is not there yet comes later.
watchCreated(e) ==
  /\ monitor[e] = "starting" /\ monitor' = [monitor EXCEPT ![e] = "created"]
  /\ UNCHANGED <<keys, older, lease, deleted, el, pc, rpc, campaigns>>

\* fail: the context, the session, a proclamation or the watch ended, or the
\* candidate was deleted.
monitorFails(e) ==
  /\ monitor[e] \in {"starting", "created"} /\ monitor' = [monitor EXCEPT ![e] = "terminal"]
  /\ UNCHANGED <<keys, older, lease, deleted, el, pc, rpc, campaigns>>

loseGeneration(e) ==
  /\ monitor[e] = "terminal" /\ monitor' = [monitor EXCEPT ![e] = "done"]
  /\ el' = [el EXCEPT ![e].published = FALSE, ![e].cancelled = TRUE]
  /\ UNCHANGED <<keys, older, lease, deleted, pc, rpc, campaigns>>

\* waitCreated, publicationErrorLocked, detach and the publication.
publish(e) ==
  /\ pc[e] = "created" /\ (monitor[e] # "starting" \/ el[e].cancelled)
  /\ \/ monitor[e] = "created" /\ ~el[e].cancelled /\ el' = [el EXCEPT ![e].published = TRUE] /\ At(e, "end")
     \/ (monitor[e] # "created" \/ el[e].cancelled) /\ At(e, "stop") /\ UNCHANGED el
  /\ UNCHANGED <<keys, older, lease, deleted, monitor, rpc, campaigns>>

endCampaign(e) ==
  /\ pc[e] = "end" /\ At(e, "idle")
  /\ el' = [el EXCEPT ![e].campaigning = FALSE]
  /\ UNCHANGED <<keys, older, lease, deleted, monitor, rpc, campaigns>>

\* Resign takes the generation, unless its Campaign has not published it.
ResignBegin(e) ==
  /\ rpc[e] = "idle" /\ el[e].current /\ (el[e].campaigning => el[e].published)
  /\ el' = [el EXCEPT ![e].published = FALSE]
  /\ ResignAt(e, "stop")
  /\ UNCHANGED <<keys, older, lease, deleted, monitor, pc, campaigns>>

\* shutdown and waitForMonitor, in failCampaign and in Resign.
Stopped(e) == monitor[e] \in {"none", "done"}
shutdown(e) ==
  /\ (pc[e] = "stop" \/ rpc[e] = "stop") /\ ~el[e].cancelled
  /\ el' = [el EXCEPT ![e].cancelled = TRUE]
  /\ UNCHANGED <<keys, older, lease, deleted, monitor, pc, rpc, campaigns>>
waitForMonitor(e) ==
  /\ el[e].cancelled /\ Stopped(e)
  /\ \/ pc[e] = "stop" /\ At(e, "revoke") /\ UNCHANGED rpc
     \/ rpc[e] = "stop" /\ ResignAt(e, IF el[e].elected THEN "resign" ELSE "revoke") /\ UNCHANGED pc
  /\ UNCHANGED <<keys, older, lease, deleted, el, monitor, campaigns>>

\* Election.Resign deletes the key, or fails; the lease is revoked either way.
resign(e) ==
  /\ rpc[e] = "resign" /\ ResignAt(e, "revoke")
  /\ RemoveKey(e) \/ UNCHANGED <<keys, older, deleted>>
  /\ UNCHANGED <<lease, el, monitor, pc, campaigns>>

\* What the caller of cleanupFailedGeneration does with its answer.
Proved(e, proved) ==
  /\ \/ pc[e] \in Cleanup /\ pc' = [pc EXCEPT ![e] = "end"] /\ UNCHANGED rpc
     \/ pc[e] \notin Cleanup /\ rpc' = [rpc EXCEPT ![e] = "idle"] /\ UNCHANGED pc
  /\ el' = [el EXCEPT ![e].current = @ /\ ~proved]

\* A cleanup that takes a failed revocation for a success.
revokeAnyway(e) ==
  /\ (pc[e] = "revoke" \/ rpc[e] = "revoke")
  /\ RemoveKey(e) \/ UNCHANGED <<keys, older, deleted>>
  /\ Proved(e, TRUE)
  /\ UNCHANGED <<lease, monitor, campaigns>>

\* cleanupFailedGeneration: the lease is revoked, or there is none (and no
\* key), or the revocation fails, applied or not, and the key is read.
revoke(e) ==
  /\ (pc[e] = "revoke" \/ rpc[e] = "revoke")
  /\ \/ RemoveKey(e) /\ Proved(e, TRUE)
     \/ /\ e \in lease /\ (RemoveKey(e) \/ UNCHANGED <<keys, older, deleted>>)
        /\ \/ pc[e] = "revoke" /\ At(e, "get") /\ UNCHANGED <<rpc, el>>
           \/ pc[e] # "revoke" /\ ResignAt(e, "get") /\ UNCHANGED <<pc, el>>
  /\ UNCHANGED <<lease, monitor, campaigns>>

\* generationAbsentOrReplaced, or the read fails.
get(e) ==
  /\ (pc[e] = "get" \/ rpc[e] = "get")
  /\ \/ Proved(e, ~HasKey(e))
     \/ Proved(e, FALSE)
  /\ UNCHANGED <<keys, older, lease, deleted, monitor, campaigns>>

Step(e) ==
  \/ LeaseExpires(e) \/ beginCampaign(e) \/ callerCancelled(e) \/ grant(e) \/ campaign(e) \/ waitDeletes(e)
  \/ proclaim(e) \/ watch(e) \/ watchCreated(e) \/ monitorFails(e) \/ loseGeneration(e) \/ publish(e) \/ endCampaign(e)
  \/ ResignBegin(e) \/ shutdown(e) \/ waitForMonitor(e) \/ resign(e) \/ revoke(e) \/ get(e)

Next == \E e \in Electors : Step(e)

Spec == Init /\ [][Next]_vars

-----------------------------------------------------------------------------

\* A leader whose key is gone is about to learn it: the deletion is in its
\* monitor's watch, and the monitor is there to act on it.
LossIsSeen ==
  \A e \in Electors : el[e].published =>
    /\ monitor[e] \in {"created", "terminal"}
    /\ HasKey(e) => First(e)
    /\ ~HasKey(e) => e \in deleted

\* A key is never forgotten: its generation stays current, and refuses the
\* next Campaign, until the key is proved gone.
KeyNotForgotten == \A e \in Electors : HasKey(e) => el[e].current

=============================================================================
