--------------------------- MODULE Subscriptions ---------------------------
(***************************************************************************)
(* The life of channel subscriptions (src/voteit/messaging): a client asks *)
(* its consumer for a channel, the consumer queues a job, a worker checks  *)
(* the permission, joins the channel-layer group, runs the collectors one  *)
(* after the other and streams the result back to the consumer, while      *)
(* other requests commit changes, publish them to the group and take roles *)
(* away from the user.                                                     *)
(*                                                                         *)
(* All sockets belong to one user.  The database, the channel layer and    *)
(* the worker queue are shared; a consumer handles the messages of its own *)
(* channel one at a time and in order.                                     *)
(***************************************************************************)
EXTENDS Integers, Sequences, FiniteSets, FiniteSetsExt, SequencesExt

CONSTANTS
    Sockets,        \* consumers, named by their channel-layer address
    Channels,       \* context channels
    Organisation,   \* the channel every socket joins while it connects
    Jobs,           \* slots of the worker queue (bounds the jobs at one time)
    NumCollectors,  \* collectors registered for a channel
    MaxVersion,     \* commits end when a channel has had so many
    MaxAsks         \* bound on the subscribe requests of one socket

ASSUME ChannelsAssumption == Organisation \in Channels
ASSUME BoundsAssumption == /\ NumCollectors \in Nat \ {0}
                           /\ MaxVersion \in Nat
                           /\ MaxAsks \in Nat

VARIABLES
    patient,   \* per socket: does its client wait for an answer before it leaves
    version,   \* per channel, the committed version of the objects it is about
    unsent,    \* per channel, the versions whose on_commit hook has not run yet
    roles,     \* has the user, in the database, the role the other channels ask for
    removal,   \* remove_roles: "none", "open" (asked the sockets, not committed), "done"
    phase,     \* of each socket
    group,     \* channel-layer group of each channel
    subs,      \* channel_subs of each consumer
    inbox,     \* channel-layer messages waiting for each consumer
    jobs,      \* the queue and the jobs that are running
    asks,      \* subscribe requests made by each socket
    seen,      \* per socket and channel: newest version the client has been told
    asked,     \* per socket: channels asked for and not answered
    dropped,   \* per socket: has a job of it expired or been killed
    tooEarly   \* per socket: was a check made that a removal of roles overtook

vars == <<patient, version, unsent, roles, removal, phase, group, subs, inbox, jobs,
          asks, seen, asked, dropped, tooEarly>>

Phases == {"new", "connecting", "open", "gone"}
Versions == 0..MaxVersion
NoJob == [kind |-> "none"]
Nothing == -1
Collectors == 1..NumCollectors

Messages ==
    [type : {"subscribed", "error", "left"}, chan : Channels]
    \cup [type : {"state"}, chan : Channels, snap : Seq(Versions)]
    \cup [type : {"update"}, chan : Channels, version : Versions]
    \cup [type : {"recheck"}]

\* A subscribe job, queued or at one of the steps of build_subscription and
\* subscribe_job.  "inline" is the same work done by the consumer itself.
SubscribeJobs ==
    [kind : {"subscribe", "inline"}, sock : Sockets, chan : Channels,
     step : {"queued", "allowed", "collect", "told"}, snap : Seq(Versions)]

\* A recheck job: the channels it has still to look at.
RecheckJobs == [kind : {"recheck"}, sock : Sockets, refs : SUBSET Channels]

TypeOK ==
    /\ patient \in [Sockets -> BOOLEAN]
    /\ version \in [Channels -> Versions]
    /\ unsent \in [Channels -> SUBSET Versions]
    /\ roles \in BOOLEAN
    /\ removal \in {"none", "open", "done"}
    /\ phase \in [Sockets -> Phases]
    /\ group \in [Channels -> SUBSET Sockets]
    /\ subs \in [Sockets -> SUBSET Channels]
    /\ inbox \in [Sockets -> Seq(Messages)]
    /\ jobs \in [Jobs -> SubscribeJobs \cup RecheckJobs \cup {NoJob}]
    /\ asks \in [Sockets -> 0..MaxAsks]
    /\ seen \in [Sockets -> [Channels -> Versions \cup {Nothing}]]
    /\ asked \in [Sockets -> SUBSET Channels]
    /\ dropped \in [Sockets -> BOOLEAN]
    /\ tooEarly \in [Sockets -> BOOLEAN]

Init ==
    /\ patient \in [Sockets -> BOOLEAN]
    /\ version = [c \in Channels |-> 0]
    /\ unsent = [c \in Channels |-> {}]
    /\ roles = TRUE
    /\ removal = "none"
    /\ phase = [s \in Sockets |-> "new"]
    /\ group = [c \in Channels |-> {}]
    /\ subs = [s \in Sockets |-> {}]
    /\ inbox = [s \in Sockets |-> <<>>]
    /\ jobs = [j \in Jobs |-> NoJob]
    /\ asks = [s \in Sockets |-> 0]
    /\ seen = [s \in Sockets |-> [c \in Channels |-> Nothing]]
    /\ asked = [s \in Sockets |-> {}]
    /\ dropped = [s \in Sockets |-> FALSE]
    /\ tooEarly = [s \in Sockets |-> FALSE]

-----------------------------------------------------------------------------
(* Helpers *)

\* Mutant of AllowSubscribe: every channel is open, as if its permission were None.
AllowAnyone(c) == TRUE

\* allow_subscribe, evaluated on the committed rows.  The organisation channel
\* has no permission; the others need the role.
AllowSubscribe(c) == c = Organisation \/ roles

\* Put a message on a consumer's channel.  A socket that is gone has no reader.
Send(s, msg) ==
    inbox' = IF phase[s] = "gone" THEN inbox ELSE [inbox EXCEPT ![s] = Append(@, msg)]

SubscribeJobsOf(s, c) ==
    {j \in Jobs : jobs[j].kind \in {"subscribe", "inline"}
                  /\ jobs[j].sock = s /\ jobs[j].chan = c}

\* Messages of one type about a channel that a consumer has not handled yet.
Waiting(s, type, c) ==
    \E i \in DOMAIN inbox[s] : inbox[s][i].type = type /\ inbox[s][i].chan = c

\* A subscription of this socket is being built, or built and not yet tracked.
Arriving(s, c) == SubscribeJobsOf(s, c) # {} \/ Waiting(s, "subscribed", c)

\* A request for this channel may still be answered.
Unanswered(s, c) == Arriving(s, c) \/ Waiting(s, "state", c)

\* Put a job on the worker queue.
Enqueue(job) ==
    /\ \E j \in Jobs : jobs[j] = NoJob
    /\ jobs' = [jobs EXCEPT ![CHOOSE j \in Jobs : jobs[j] = NoJob] = job]

Free(j) == jobs' = [jobs EXCEPT ![j] = NoJob]

Newest(a, b) == IF a > b THEN a ELSE b

-----------------------------------------------------------------------------
(* The socket *)

\* post_authentication: the consumer sets up its own state and starts the
\* subscription to the organisation itself, before it handles anything else.
Connect(s) ==
    /\ phase[s] = "new"
    /\ Enqueue([kind |-> "inline", sock |-> s, chan |-> Organisation,
                step |-> "queued", snap |-> <<>>])
    /\ phase' = [phase EXCEPT ![s] = "connecting"]
    /\ subs' = [subs EXCEPT ![s] = {}]
    /\ UNCHANGED <<patient, version, unsent, roles, removal, group, inbox, asks, seen,
                   asked, dropped, tooEarly>>

\* channel.subscribe: the consumer only queues the job.  Clients do not ask for
\* the organisation: they are subscribed to it while they connect.
Subscribe(s, c) ==
    /\ phase[s] = "open" /\ asks[s] < MaxAsks
    /\ c # Organisation /\ c \notin asked[s]
    /\ Enqueue([kind |-> "subscribe", sock |-> s, chan |-> c,
                step |-> "queued", snap |-> <<>>])
    /\ asks' = [asks EXCEPT ![s] = @ + 1]
    /\ asked' = [asked EXCEPT ![s] = @ \cup {c}]
    /\ UNCHANGED <<patient, version, unsent, roles, removal, phase, group, subs, inbox,
                   seen, dropped, tooEarly>>

\* Mutant of Leave: the group keeps the consumer.
LeaveKeepsGroup(s, c) ==
    /\ phase[s] = "open" /\ (c \in subs[s] \/ c \in asked[s])
    /\ patient[s] => ~Unanswered(s, c)
    /\ subs' = [subs EXCEPT ![s] = @ \ {c}]
    /\ seen' = [seen EXCEPT ![s][c] = Nothing]
    /\ asked' = [asked EXCEPT ![s] = @ \ {c}]
    /\ UNCHANGED <<patient, version, unsent, roles, removal, phase, group, inbox,
                   jobs, asks, dropped, tooEarly>>

\* channel.leave.  A patient client has waited until no request of its own for
\* this channel can still be answered.
Leave(s, c) ==
    /\ phase[s] = "open" /\ (c \in subs[s] \/ c \in asked[s])
    /\ patient[s] => ~Unanswered(s, c)
    /\ group' = [group EXCEPT ![c] = @ \ {s}]
    /\ subs' = [subs EXCEPT ![s] = @ \ {c}]
    /\ seen' = [seen EXCEPT ![s][c] = Nothing]
    /\ asked' = [asked EXCEPT ![s] = @ \ {c}]
    /\ UNCHANGED <<patient, version, unsent, roles, removal, phase, inbox, jobs, asks, dropped, tooEarly>>

\* websocket.disconnect reaches the consumer: it leaves the groups it tracks.
Disconnect(s) ==
    /\ phase[s] = "open"
    /\ phase' = [phase EXCEPT ![s] = "gone"]
    /\ group' = [c \in Channels |-> IF c \in subs[s] THEN group[c] \ {s} ELSE group[c]]
    /\ inbox' = [inbox EXCEPT ![s] = <<>>]
    /\ asked' = [asked EXCEPT ![s] = {}]
    /\ UNCHANGED <<patient, version, unsent, roles, removal, subs, jobs, asks, seen, dropped, tooEarly>>

\* The process dies with the socket: nothing is left, no group is left.
Crash(s) ==
    /\ phase[s] \in {"connecting", "open"}
    /\ phase' = [phase EXCEPT ![s] = "gone"]
    /\ inbox' = [inbox EXCEPT ![s] = <<>>]
    /\ asked' = [asked EXCEPT ![s] = {}]
    /\ jobs' = [j \in Jobs |-> IF jobs[j].kind = "inline" /\ jobs[j].sock = s
                               THEN NoJob ELSE jobs[j]]
    /\ UNCHANGED <<patient, version, unsent, roles, removal, group, subs, asks, seen, dropped, tooEarly>>

\* group_expiry of the channel layer.
GroupExpiry(s) ==
    /\ phase[s] = "gone" /\ \E c \in Channels : s \in group[c]
    /\ group' = [c \in Channels |-> group[c] \ {s}]
    /\ UNCHANGED <<patient, version, unsent, roles, removal, phase, subs, inbox, jobs,
                   asks, seen, asked, dropped, tooEarly>>

-----------------------------------------------------------------------------
(* The consumer handles the next message of its channel *)

OnSubscribed(s, m) ==
    /\ m.type = "subscribed"
    /\ subs' = [subs EXCEPT ![s] = @ \cup {m.chan}]
    /\ UNCHANGED <<jobs, seen, asked, tooEarly>>

\* channel.state and channel.state_complete: the client has its initial state.
\* A part of the state is as old as the collector that read it.
OnState(s, m) ==
    /\ m.type = "state"
    /\ seen' = [seen EXCEPT ![s][m.chan] = Newest(@, Min(Range(m.snap)))]
    /\ asked' = [asked EXCEPT ![s] = @ \ {m.chan}]
    /\ UNCHANGED <<subs, jobs, tooEarly>>

OnSubscribeError(s, m) ==
    /\ m.type = "error"
    /\ asked' = [asked EXCEPT ![s] = @ \ {m.chan}]
    /\ UNCHANGED <<subs, jobs, seen, tooEarly>>

OnLeft(s, m) ==
    /\ m.type = "left"
    /\ subs' = [subs EXCEPT ![s] = @ \ {m.chan}]
    /\ seen' = [seen EXCEPT ![s][m.chan] = Nothing]
    /\ UNCHANGED <<jobs, asked, tooEarly>>

\* A published change is forwarded to the client as it is.
OnUpdate(s, m) ==
    /\ m.type = "update"
    /\ seen' = [seen EXCEPT ![s][m.chan] = Newest(@, m.version)]
    /\ UNCHANGED <<subs, jobs, asked, tooEarly>>

\* recheck: queue a job for the subscriptions tracked right now.
Recheck(s, m) ==
    /\ m.type = "recheck"
    /\ IF subs[s] = {}
       THEN UNCHANGED jobs
       ELSE Enqueue([kind |-> "recheck", sock |-> s, refs |-> subs[s]])
    /\ tooEarly' = [tooEarly EXCEPT ![s] = @ \/ \E c \in Channels : Arriving(s, c)]
    /\ UNCHANGED <<subs, seen, asked>>

Deliver(s) ==
    /\ phase[s] = "open" /\ inbox[s] # <<>>
    /\ inbox' = [inbox EXCEPT ![s] = Tail(@)]
    /\ LET m == Head(inbox[s])
       IN  \/ OnSubscribed(s, m) \/ OnState(s, m) \/ OnSubscribeError(s, m)
           \/ OnLeft(s, m) \/ OnUpdate(s, m) \/ Recheck(s, m)
    /\ UNCHANGED <<patient, version, unsent, roles, removal, phase, group, asks, dropped>>

-----------------------------------------------------------------------------
(* The worker *)

\* A queued job is older than its time to live when a worker gets to it.
JobExpires(j) ==
    /\ \/ jobs[j].kind = "subscribe" /\ jobs[j].step = "queued"
       \/ jobs[j].kind = "recheck"
    /\ dropped' = [dropped EXCEPT ![jobs[j].sock] = TRUE]
    /\ Free(j)
    /\ UNCHANGED <<patient, version, unsent, roles, removal, phase, group, subs, inbox,
                   asks, seen, asked, tooEarly>>

\* job_timeout kills a subscribe job while it collects: its transaction is
\* rolled back, the membership of the group is not.
JobDies(j) ==
    /\ jobs[j].kind = "subscribe" /\ jobs[j].step \in {"allowed", "collect"}
    /\ dropped' = [dropped EXCEPT ![jobs[j].sock] = TRUE]
    /\ Free(j)
    /\ UNCHANGED <<patient, version, unsent, roles, removal, phase, group, subs, inbox,
                   asks, seen, asked, tooEarly>>

\* Mutant of JobCheck: the state is collected before the group is joined.
JobCheckCollects(j) ==
    /\ jobs[j].kind \in {"subscribe", "inline"} /\ jobs[j].step = "queued"
    /\ AllowSubscribe(jobs[j].chan)
    /\ jobs' = [jobs EXCEPT ![j].step = "allowed",
                ![j].snap = [i \in Collectors |-> version[jobs[j].chan]]]
    /\ UNCHANGED <<patient, version, unsent, roles, removal, phase, group, subs,
                   inbox, asks, seen, asked, dropped, tooEarly>>

\* Mutant of JobCheck: a refusal is not sent.
JobCheckSilent(j) ==
    /\ jobs[j].kind \in {"subscribe", "inline"} /\ jobs[j].step = "queued"
    /\ \/ /\ AllowSubscribe(jobs[j].chan)
          /\ jobs' = [jobs EXCEPT ![j].step = "allowed"]
       \/ ~AllowSubscribe(jobs[j].chan) /\ Free(j)
    /\ tooEarly' = [tooEarly EXCEPT ![jobs[j].sock] = @ \/ removal = "open"]
    /\ UNCHANGED <<patient, version, unsent, roles, removal, phase, group, subs,
                   inbox, asks, seen, asked, dropped>>

\* build_subscription: the check of the permission, and the refusal.
JobCheck(j) ==
    /\ jobs[j].kind \in {"subscribe", "inline"} /\ jobs[j].step = "queued"
    /\ LET s == jobs[j].sock
           c == jobs[j].chan
       IN  /\ tooEarly' = [tooEarly EXCEPT ![s] = @ \/ removal = "open"]
           /\ \/ /\ AllowSubscribe(c)
                 /\ jobs' = [jobs EXCEPT ![j].step = "allowed"]
                 /\ UNCHANGED inbox
              \/ /\ ~AllowSubscribe(c)
                 /\ Send(s, [type |-> "error", chan |-> c])
                 /\ Free(j)
    /\ UNCHANGED <<patient, version, unsent, roles, removal, phase, group, subs, asks,
                   seen, asked, dropped>>

\* channel.subscribe(): join the group, before anything is collected.
JobJoin(j) ==
    /\ jobs[j].kind \in {"subscribe", "inline"} /\ jobs[j].step = "allowed"
    /\ group' = [group EXCEPT ![jobs[j].chan] = @ \cup {jobs[j].sock}]
    /\ jobs' = [jobs EXCEPT ![j].step = "collect"]
    /\ UNCHANGED <<patient, version, unsent, roles, removal, phase, subs, inbox, asks,
                   seen, asked, dropped, tooEarly>>

\* One collector reads the committed rows: each statement sees its own snapshot.
JobCollect(j) ==
    /\ jobs[j].kind \in {"subscribe", "inline"} /\ jobs[j].step = "collect"
    /\ Len(jobs[j].snap) < NumCollectors
    /\ jobs' = [jobs EXCEPT ![j].snap = Append(@, version[jobs[j].chan])]
    /\ UNCHANGED <<patient, version, unsent, roles, removal, phase, group, subs, inbox,
                   asks, seen, asked, dropped, tooEarly>>

Collected(j) == jobs[j].step = "collect" /\ Len(jobs[j].snap) = NumCollectors

\* subscribe_job: channel.subscribed, then the state and its end.
JobTell(j) ==
    /\ jobs[j].kind = "subscribe" /\ Collected(j)
    /\ Send(jobs[j].sock, [type |-> "subscribed", chan |-> jobs[j].chan])
    /\ jobs' = [jobs EXCEPT ![j].step = "told"]
    /\ UNCHANGED <<patient, version, unsent, roles, removal, phase, group, subs, asks,
                   seen, asked, dropped, tooEarly>>

JobState(j) ==
    /\ jobs[j].kind = "subscribe" /\ jobs[j].step = "told"
    /\ Send(jobs[j].sock, [type |-> "state", chan |-> jobs[j].chan, snap |-> jobs[j].snap])
    /\ Free(j)
    /\ UNCHANGED <<patient, version, unsent, roles, removal, phase, group, subs, asks,
                   seen, asked, dropped, tooEarly>>

\* subscribe_to_organisation: the consumer tracks and sends what it built itself,
\* and only then turns to the messages on its channel.
InlineDone(j) ==
    /\ jobs[j].kind = "inline" /\ Collected(j)
    /\ LET s == jobs[j].sock
           c == jobs[j].chan
       IN  /\ subs' = [subs EXCEPT ![s] = @ \cup {c}]
           /\ seen' = [seen EXCEPT ![s][c] = Newest(@, Min(Range(jobs[j].snap)))]
           /\ phase' = [phase EXCEPT ![s] = "open"]
    /\ Free(j)
    /\ UNCHANGED <<patient, version, unsent, roles, removal, group, inbox, asks, asked,
                   dropped, tooEarly>>

\* recheck_job, one subscription: leave the group and tell the consumer.
RecheckRef(j) ==
    /\ jobs[j].kind = "recheck"
    /\ \E c \in jobs[j].refs :
         LET s == jobs[j].sock
             rest == jobs[j].refs \ {c}
         IN  /\ tooEarly' = [tooEarly EXCEPT ![s] = @ \/ removal = "open"]
             /\ \/ AllowSubscribe(c) /\ UNCHANGED <<group, inbox>>
                \/ /\ ~AllowSubscribe(c)
                   /\ group' = [group EXCEPT ![c] = @ \ {s}]
                   /\ Send(s, [type |-> "left", chan |-> c])
             /\ jobs' = [jobs EXCEPT ![j] =
                           IF rest = {} THEN NoJob ELSE [@ EXCEPT !.refs = rest]]
    /\ UNCHANGED <<patient, version, unsent, roles, removal, phase, subs, asks, seen,
                   asked, dropped>>

-----------------------------------------------------------------------------
(* Other requests *)

\* A transaction that changes the objects of a channel commits.
Commit(c) ==
    /\ \A d \in Channels : version[d] < MaxVersion
    /\ version' = [version EXCEPT ![c] = @ + 1]
    /\ unsent' = [unsent EXCEPT ![c] = @ \cup {version[c] + 1}]
    /\ UNCHANGED <<patient, roles, removal, phase, group, subs, inbox, jobs, asks, seen,
                   asked, dropped, tooEarly>>

\* Its on_commit hook sends to whoever is in the group now.  Two requests may
\* run their hooks in either order.
Publish(c, v) ==
    /\ v \in unsent[c]
    /\ unsent' = [unsent EXCEPT ![c] = @ \ {v}]
    /\ inbox' = [s \in Sockets |->
                   IF s \in group[c] /\ phase[s] # "gone"
                   THEN Append(inbox[s], [type |-> "update", chan |-> c, version |-> v])
                   ELSE inbox[s]]
    /\ UNCHANGED <<patient, version, roles, removal, phase, group, subs, jobs, asks, seen,
                   asked, dropped, tooEarly>>

\* remove_roles asks every socket of the user to check its subscriptions from
\* inside the transaction ...
RemoveRoles ==
    /\ removal = "none"
    /\ removal' = "open"
    /\ inbox' = [s \in Sockets |->
                   IF phase[s] \in {"connecting", "open"}
                   THEN Append(inbox[s], [type |-> "recheck"])
                   ELSE inbox[s]]
    /\ UNCHANGED <<patient, version, unsent, roles, phase, group, subs, jobs, asks, seen,
                   asked, dropped, tooEarly>>

\* ... and commits later.
RemoveRolesCommits ==
    /\ removal = "open"
    /\ removal' = "done"
    /\ roles' = FALSE
    /\ UNCHANGED <<patient, version, unsent, phase, group, subs, inbox, jobs, asks, seen,
                   asked, dropped, tooEarly>>

AddRoles ==
    /\ ~roles
    /\ roles' = TRUE
    /\ UNCHANGED <<patient, version, unsent, removal, phase, group, subs, inbox, jobs,
                   asks, seen, asked, dropped, tooEarly>>

-----------------------------------------------------------------------------
JobStep(j) ==
    \/ JobCheck(j) \/ JobJoin(j) \/ JobCollect(j) \/ JobTell(j) \/ JobState(j)
    \/ InlineDone(j) \/ RecheckRef(j)

Next ==
    \/ \E s \in Sockets :
         \/ Connect(s) \/ Disconnect(s) \/ Crash(s) \/ GroupExpiry(s) \/ Deliver(s)
         \/ \E c \in Channels : Subscribe(s, c) \/ Leave(s, c)
    \/ \E j \in Jobs : JobStep(j) \/ JobExpires(j) \/ JobDies(j)
    \/ \E c \in Channels : Commit(c) \/ \E v \in Versions : Publish(c, v)
    \/ RemoveRoles \/ RemoveRolesCommits \/ AddRoles

Spec == Init /\ [][Next]_vars

\* Workers take jobs and consumers read their channel as long as they run.
FairSpec ==
    /\ Spec
    /\ \A j \in Jobs : WF_vars(JobStep(j))
    /\ \A s \in Sockets : WF_vars(Deliver(s))

-----------------------------------------------------------------------------
(* Properties *)

\* No committed change passes a subscriber by.  build_subscription joins the
\* group before it collects, so for a client that waits for its answers, every
\* change it has not been told of is still on its way, however the collectors,
\* the commits and the on_commit hooks interleave.
NoUpdateLost ==
    \A s \in Sockets, c \in Channels :
        patient[s] /\ phase[s] = "open" /\ removal = "none" /\ c \in subs[s] \ asked[s]
            => \/ seen[s][c] = version[c]
               \/ version[c] \in unsent[c]
               \/ \E i \in DOMAIN inbox[s] :
                     inbox[s][i] = [type |-> "update", chan |-> c, version |-> version[c]]

\* What channel.list_subscriptions answers is true: a patient client whose roles
\* stay is in the group of every channel its consumer tracks.
TrackedIsJoined ==
    \A s \in Sockets, c \in Channels :
        patient[s] /\ phase[s] = "open" /\ removal = "none" /\ c \in subs[s] => s \in group[c]

\* The other direction, for every client: an open consumer is in no group that it
\* neither tracks nor is about to be told of, unless a job was killed half way.
JoinedIsTracked ==
    \A s \in Sockets, c \in Channels :
        phase[s] = "open" /\ s \in group[c] /\ ~dropped[s]
            => c \in subs[s] \/ Arriving(s, c)

\* What a consumer tracks and the groups its socket is in are the same, as far as
\* the two properties above promise it.
SubscriptionsAreTracked == TypeOK /\ TrackedIsJoined /\ JoinedIsTracked

\* When a user without the role has no job and no message left, none of its
\* sockets is in a group that needs the role, unless a check ran before the
\* removal was committed or a job was dropped.
RevokedSubscriptionEnds ==
    \A s \in Sockets, c \in Channels \ {Organisation} :
        /\ phase[s] = "open" /\ ~roles /\ ~tooEarly[s] /\ ~dropped[s]
        /\ inbox[s] = <<>>
        /\ \A j \in Jobs : jobs[j] = NoJob \/ jobs[j].sock # s
        => s \notin group[c] /\ c \notin subs[s]

\* A subscribe request is answered with the state or an error, unless its job was
\* dropped or the client went away.
AskedIsAnswered ==
    \A s \in Sockets : \A c \in Channels \ {Organisation} :
        c \in asked[s] ~> c \notin asked[s] \/ dropped[s]
=============================================================================
