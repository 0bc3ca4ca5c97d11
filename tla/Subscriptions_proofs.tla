------------------------ MODULE Subscriptions_proofs ------------------------
(***************************************************************************)
(* Proof, for any numbers of sockets, channels, jobs, collectors and       *)
(* changes, of the three invariants of channel subscriptions.              *)
(*                                                                         *)
(* Each goes by where a subscription is between the worker and the         *)
(* consumer.  A patient client has one request for a channel at a time,    *)
(* and what it has not seen is in a snapshot, unsent, or in its inbox.  A  *)
(* group is joined by a job that will tell, or has told, its consumer      *)
(* after anything that takes the channel away again.  A recheck that is on *)
(* its way finds everything that was allowed before it.                    *)
(***************************************************************************)
EXTENDS Subscriptions, WellFoundedInduction, TLAPS

\* A job that is done for a socket.
WorksFor(j, s) == jobs[j] # NoJob /\ jobs[j].sock = s

Builds(j) == jobs[j].kind \in {"subscribe", "inline"}

\* What the queued and the running jobs look like.
JobSound(j) ==
    /\ jobs[j].kind = "inline" =>
          /\ phase[jobs[j].sock] = "connecting"
          /\ jobs[j].chan = Organisation
          /\ jobs[j].step # "told"
          /\ \A i \in Jobs : jobs[i].kind = "inline" /\ jobs[i].sock = jobs[j].sock => i = j
    /\ jobs[j].kind = "subscribe" =>
          phase[jobs[j].sock] \in {"open", "gone"} /\ jobs[j].chan # Organisation
    /\ jobs[j].kind = "recheck" =>
          phase[jobs[j].sock] \in {"open", "gone"} /\ removal # "none"
    /\ Builds(j) =>
          /\ jobs[j].step \in {"queued", "allowed"} => jobs[j].snap = <<>>
          /\ jobs[j].step = "told" => jobs[j].snap # <<>>
          /\ \A v \in Range(jobs[j].snap) : v =< version[jobs[j].chan]

\* What a message to an open consumer may be.
MessageSound(s, m) ==
    /\ m.type \in {"subscribed", "state", "error", "left"} =>
          m.chan # Organisation /\ phase[s] = "open"
    /\ m.type \in {"error", "left", "recheck"} => removal # "none"
    /\ m.type = "state" => m.snap # <<>> /\ \A v \in Range(m.snap) : v =< version[m.chan]
    /\ m.type = "update" => m.version =< version[m.chan]

\* What a socket that is not open can have.
SocketSound(s) ==
    /\ phase[s] # "open" => asked[s] = {}
    /\ phase[s] \in {"new", "connecting"} =>
          /\ subs[s] = {}
          /\ \A c \in Channels \ {Organisation} : s \notin group[c]
    /\ phase[s] = "new" =>
          /\ s \notin group[Organisation]
          /\ \A j \in Jobs : ~WorksFor(j, s)
    /\ phase[s] \in {"new", "gone"} => inbox[s] = <<>>
    /\ \A m \in Range(inbox[s]) : MessageSound(s, m)

VersionsSound ==
    /\ \A c \in Channels : \A v \in unsent[c] : v =< version[c]
    /\ \A s \in Sockets, c \in Channels : seen[s][c] =< version[c]
    /\ ~roles => removal = "done"

ShapeInv ==
    /\ TypeOK /\ VersionsSound
    /\ \A j \in Jobs : JobSound(j)
    /\ \A s \in Sockets : SocketSound(s)

\* A patient client of a user whose roles stay, while it is being served.
Served(s) == patient[s] /\ removal = "none" /\ phase[s] \in {"connecting", "open"}

\* The client knows the newest version, or is going to be told of it.
Fresh(s, c) ==
    \/ seen[s][c] = version[c]
    \/ version[c] \in unsent[c]
    \/ [type |-> "update", chan |-> c, version |-> version[c]] \in Range(inbox[s])

\* A snapshot that has the newest version, or a client that need not rely on it.
SnapFresh(s, c, snap) == \A v \in Range(snap) : v = version[c] \/ Fresh(s, c)

IsAt(s, i, type, c) ==
    i \in DOMAIN inbox[s] /\ inbox[s][i].type = type /\ inbox[s][i].chan = c

\* There is one request for a channel at a time; its job, the news of the
\* subscription and the state come one after the other.
OneRequest(s, c) ==
    /\ \A j \in SubscribeJobsOf(s, c) : jobs[j].kind = "subscribe" =>
          /\ c \in asked[s]
          /\ SubscribeJobsOf(s, c) = {j}
          /\ ~Waiting(s, "state", c)
          /\ Waiting(s, "subscribed", c) => jobs[j].step = "told"
    /\ \A i \in DOMAIN inbox[s] : IsAt(s, i, "state", c) =>
          /\ c \in asked[s]
          /\ \A k \in DOMAIN inbox[s] : IsAt(s, k, "state", c) => k = i
          /\ \A k \in DOMAIN inbox[s] : IsAt(s, k, "subscribed", c) => k < i
    /\ Waiting(s, "subscribed", c) => c \in asked[s]

\* Whoever relies on updates is in the group, and misses none.
Served1(s, c) ==
    /\ \A j \in SubscribeJobsOf(s, c) : jobs[j].step \in {"collect", "told"} =>
          s \in group[c] /\ SnapFresh(s, c, jobs[j].snap)
    /\ \A m \in Range(inbox[s]) : m.type = "state" /\ m.chan = c =>
          s \in group[c] /\ SnapFresh(s, c, m.snap)
    /\ Waiting(s, "subscribed", c) => s \in group[c]
    /\ c \in subs[s] => s \in group[c] /\ (c \in asked[s] \/ Fresh(s, c))

ServedInv == \A s \in Sockets, c \in Channels : Served(s) => OneRequest(s, c) /\ Served1(s, c)

\* A job will tell the consumer of the group it has joined, or the consumer has
\* been told, and nothing that is waiting takes the channel away again.
Secured(s, c) ==
    \/ \E j \in SubscribeJobsOf(s, c) : jobs[j].step = "collect"
    \/ \E i \in DOMAIN inbox[s] : /\ IsAt(s, i, "subscribed", c)
                                  /\ \A k \in DOMAIN inbox[s] : IsAt(s, k, "left", c) => k < i
    \/ c \in subs[s] /\ ~Waiting(s, "left", c)

JoinedInv ==
    \A s \in Sockets, c \in Channels :
        phase[s] \in {"connecting", "open"} /\ s \in group[c] /\ ~dropped[s] => Secured(s, c)

\* From the request to check the subscriptions on, as long as the user has no role.
Revoking(s) ==
    /\ removal = "open" \/ (removal = "done" /\ ~roles)
    /\ phase[s] \in {"connecting", "open"} /\ ~tooEarly[s] /\ ~dropped[s]

\* A recheck job will look at the channel.
Rechecked(s, c) == \E j \in Jobs : jobs[j].kind = "recheck" /\ jobs[j].sock = s /\ c \in jobs[j].refs

\* The check is still to be made, or it covers everything that was allowed.
Covered(s) ==
    \/ \E m \in Range(inbox[s]) : m.type = "recheck"
    \/ \A c \in Channels \ {Organisation} :
          /\ \A j \in SubscribeJobsOf(s, c) : jobs[j].step = "queued"
          /\ ~Waiting(s, "subscribed", c)
          /\ c \in subs[s] => Waiting(s, "left", c) \/ Rechecked(s, c)
          /\ s \in group[c] => Rechecked(s, c)

RevokedInv == \A s \in Sockets : Revoking(s) => Covered(s)

-----------------------------------------------------------------------------
(* Sequences and jobs *)

\* What is in a sequence to which something is appended.
LEMMA RangeOfAppend ==
    ASSUME NEW T, NEW q \in Seq(T), NEW e \in T
    PROVE  Range(Append(q, e)) = Range(q) \cup {e}
<1> DEFINE r == Append(q, e)
<1>1. /\ Len(q) \in Nat /\ DOMAIN q = 1..Len(q) /\ DOMAIN r = 1..(Len(q) + 1)
      /\ r[Len(q) + 1] = e
      /\ \A i \in 1..Len(q) : r[i] = q[i]
    OBVIOUS
<1> HIDE DEF r
<1>2. ASSUME NEW x \in Range(r) PROVE x \in Range(q) \cup {e}
  <2>1. PICK i \in 1..(Len(q) + 1) : x = r[i]
    BY <1>1 DEF Range
  <2>2. CASE i = Len(q) + 1
    BY <1>1, <2>1, <2>2
  <2>3. CASE i \in 1..Len(q)
    BY <1>1, <2>1, <2>3 DEF Range
  <2> QED
    BY <1>1, <2>1, <2>2, <2>3
<1>3. ASSUME NEW x \in Range(q) PROVE x \in Range(r)
  <2>1. PICK i \in 1..Len(q) : x = q[i]
    BY <1>1 DEF Range
  <2>2. i \in DOMAIN r /\ x = r[i]
    BY <1>1, <2>1
  <2> QED
    BY <2>2 DEF Range
<1>4. e \in Range(r)
  <2>1. Len(q) + 1 \in DOMAIN r
    BY <1>1
  <2> QED
    BY <1>1, <2>1 DEF Range
<1> QED
    BY <1>2, <1>3, <1>4 DEF r

\* The messages of an inbox, with one more.
LEMMA Appended ==
    ASSUME NEW T, NEW q \in Seq(T), NEW e \in T
    PROVE  /\ Append(q, e) \in Seq(T)
           /\ Len(q) \in Nat
           /\ DOMAIN q = 1..Len(q)
           /\ DOMAIN Append(q, e) = 1..(Len(q) + 1)
           /\ Append(q, e)[Len(q) + 1] = e
           /\ \A i \in 1..Len(q) : Append(q, e)[i] = q[i]
    OBVIOUS

\* The messages of an inbox, without the first.
LEMMA Dropped ==
    ASSUME NEW T, NEW q \in Seq(T), q # <<>>
    PROVE  /\ Tail(q) \in Seq(T) /\ Head(q) \in T
           /\ Len(q) \in Nat \ {0}
           /\ DOMAIN q = 1..Len(q)
           /\ Head(q) = q[1]
           /\ DOMAIN Tail(q) = 1..(Len(q) - 1)
           /\ \A i \in 1..(Len(q) - 1) : Tail(q)[i] = q[i + 1]
           /\ Range(q) = {Head(q)} \cup Range(Tail(q))
<1> DEFINE r == Tail(q)
           N == Len(q)
<1>1. /\ r \in Seq(T) /\ Head(q) \in T
      /\ N \in Nat \ {0}
      /\ DOMAIN q = 1..N
      /\ Head(q) = q[1]
      /\ DOMAIN r = 1..(N - 1)
      /\ \A i \in 1..(N - 1) : r[i] = q[i + 1]
    OBVIOUS
<1> HIDE DEF r, N
<1>2. ASSUME NEW x \in Range(q) PROVE x \in {q[1]} \cup Range(r)
  <2>1. PICK i \in 1..N : x = q[i]
    BY <1>1 DEF Range
  <2>2. CASE i = 1
    BY <2>1, <2>2
  <2>3. CASE i # 1
    <3>1. i - 1 \in 1..(N - 1) /\ (i - 1) + 1 = i
        BY <1>1, <2>1, <2>3
    <3>2. i - 1 \in DOMAIN r /\ x = r[i - 1]
        BY <1>1, <2>1, <3>1
    <3> QED
        BY <3>2 DEF Range
  <2> QED
    BY <2>2, <2>3
<1>3. ASSUME NEW x \in Range(r) PROVE x \in Range(q)
  <2>1. PICK i \in 1..(N - 1) : x = r[i]
    BY <1>1 DEF Range
  <2>2. i + 1 \in DOMAIN q /\ x = q[i + 1]
    BY <1>1, <2>1
  <2> QED
    BY <2>2 DEF Range
<1>4. q[1] \in Range(q)
  <2>1. 1 \in DOMAIN q
    BY <1>1
  <2> QED
    BY <2>1 DEF Range
<1> QED
    BY <1>1, <1>2, <1>3, <1>4 DEF r, N

\* The message a consumer takes and the inbox it leaves.
LEMMA InboxHead ==
    ASSUME NEW s, inbox[s] \in Seq(Messages), inbox[s] # <<>>, inbox'[s] = Tail(inbox[s])
    PROVE  /\ Len(inbox[s]) \in Nat \ {0} /\ DOMAIN inbox[s] = 1..Len(inbox[s])
           /\ Head(inbox[s]) = inbox[s][1] /\ Head(inbox[s]) \in Messages
           /\ DOMAIN inbox'[s] = 1..(Len(inbox[s]) - 1)
           /\ \A i \in 1..(Len(inbox[s]) - 1) : inbox'[s][i] = inbox[s][i + 1]
           /\ Range(inbox[s]) = {Head(inbox[s])} \cup Range(inbox'[s])
<1>1. PICK q \in Seq(Messages) : q = inbox[s]
    OBVIOUS
<1>2. PICK r : r = inbox'[s]
    OBVIOUS
<1>3. q # <<>> /\ r = Tail(q)
    BY <1>1, <1>2
<1>4. /\ Len(q) \in Nat \ {0} /\ DOMAIN q = 1..Len(q) /\ Head(q) = q[1] /\ Head(q) \in Messages
      /\ DOMAIN r = 1..(Len(q) - 1) /\ \A i \in 1..(Len(q) - 1) : r[i] = q[i + 1]
      /\ Range(q) = {Head(q)} \cup Range(r)
    BY <1>3, Dropped
<1> QED
    BY <1>1, <1>2, <1>4

\* A set of numbers has a least one.
LEMMA LeastNumber ==
    ASSUME NEW S \in SUBSET Nat, S # {}
    PROVE  \E n \in S : \A m \in S : n <= m
<1> DEFINE R == {ss \in Nat \X Nat : ss[1] < ss[2]}
<1>1. IsWellFoundedOn(R, Nat)
    BY NatLessThanWellFounded DEF OpToRel
<1>2. \A m, n \in Nat : m < n => <<m, n>> \in R
    OBVIOUS
<1> HIDE DEF R
<1>3. PICK n \in S : \A m \in S : <<m, n>> \notin R
    BY <1>1, WFMin
<1>4. ASSUME NEW m \in S PROVE n <= m
  <2>1. m \in Nat /\ n \in Nat
    OBVIOUS
  <2>2. ~(m < n)
    BY <1>2, <1>3, <2>1
  <2> QED
    BY <2>1, <2>2
<1> QED
    BY <1>4

\* A part of a state is as old as the collector that read it.
LEMMA OldestPart ==
    ASSUME NEW snap \in Seq(Versions), snap # <<>>
    PROVE  Min(Range(snap)) \in Range(snap) /\ Range(snap) \subseteq Versions
<1>1. Range(snap) \subseteq Versions
    BY DEF Range
<1>2. Versions \subseteq Nat
    BY BoundsAssumption DEF Versions
<1>3. snap[1] \in Range(snap)
  <2>1. Len(snap) \in Nat \ {0} /\ DOMAIN snap = 1..Len(snap)
    OBVIOUS
  <2>2. 1 \in DOMAIN snap
    BY <2>1
  <2> QED
    BY <2>2 DEF Range
<1>4. \E v \in Range(snap) : \A w \in Range(snap) : v <= w
    BY <1>1, <1>2, <1>3, LeastNumber
<1> QED
    BY <1>1, <1>4 DEF Min

\* The kind of a job tells what it is.
LEMMA JobTypes ==
    ASSUME TypeOK, NEW j \in Jobs
    PROVE  /\ Builds(j) => jobs[j] \in SubscribeJobs
           /\ jobs[j].kind = "recheck" => jobs[j] \in RecheckJobs
           /\ jobs[j].kind = "none" <=> jobs[j] = NoJob
           /\ jobs[j].kind \in {"none", "recheck", "subscribe", "inline"}
           /\ jobs[j] # NoJob => jobs[j].sock \in Sockets
<1>1. jobs[j] \in SubscribeJobs \cup RecheckJobs \cup {NoJob}
    BY DEF TypeOK
<1>2. CASE jobs[j] \in SubscribeJobs
    BY <1>2 DEF SubscribeJobs, NoJob, Builds
<1>3. CASE jobs[j] \in RecheckJobs
    BY <1>3 DEF RecheckJobs, NoJob, Builds
<1>4. CASE jobs[j] = NoJob
    BY <1>4 DEF NoJob, Builds
<1> QED
    BY <1>1, <1>2, <1>3, <1>4

\* The messages that are sent.
LEMMA MessageTypes ==
    ASSUME NEW c \in Channels
    PROVE  /\ \A type \in {"subscribed", "error", "left"} :
                  [type |-> type, chan |-> c] \in Messages
           /\ \A snap \in Seq(Versions) : [type |-> "state", chan |-> c, snap |-> snap] \in Messages
           /\ \A v \in Versions : [type |-> "update", chan |-> c, version |-> v] \in Messages
           /\ [type |-> "recheck"] \in Messages
    BY DEF Messages

\* What a message has goes by its type.
LEMMA MessageParts ==
    ASSUME NEW m \in Messages
    PROVE  /\ m.type \in {"subscribed", "error", "left", "state", "update", "recheck"}
           /\ m.type # "recheck" => m.chan \in Channels
           /\ m.type = "state" => m.snap \in Seq(Versions)
           /\ m.type = "update" => m.version \in Versions
                    /\ m = [type |-> "update", chan |-> m.chan, version |-> m.version]
<1>1. CASE m \in [type : {"subscribed", "error", "left"}, chan : Channels]
    BY <1>1
<1>2. CASE m \in [type : {"state"}, chan : Channels, snap : Seq(Versions)]
    BY <1>2
<1>3. CASE m \in [type : {"update"}, chan : Channels, version : Versions]
    BY <1>3
<1>4. CASE m \in [type : {"recheck"}]
    BY <1>4
<1> QED
    BY <1>1, <1>2, <1>3, <1>4 DEF Messages

\* A job takes a place that was free, and nothing else changes place.
LEMMA Enqueued ==
    ASSUME TypeOK, NEW job, Enqueue(job)
    PROVE  \E j \in Jobs : jobs[j] = NoJob /\ jobs' = [jobs EXCEPT ![j] = job]
    BY DEF Enqueue

-----------------------------------------------------------------------------
(* The type invariant *)

\* Every step of a socket keeps the type.
LEMMA SocketTypeKept ==
    ASSUME TypeOK, NEW s \in Sockets,
           \/ Connect(s) \/ Disconnect(s) \/ Crash(s) \/ GroupExpiry(s)
           \/ \E c \in Channels : Subscribe(s, c) \/ Leave(s, c)
    PROVE  TypeOK'
<1> USE DEF TypeOK
<1>1. ASSUME Connect(s) PROVE TypeOK'
  <2>1. [kind |-> "inline", sock |-> s, chan |-> Organisation, step |-> "queued", snap |-> <<>>]
            \in SubscribeJobs
    BY ChannelsAssumption DEF SubscribeJobs
  <2>2. jobs' \in [Jobs -> SubscribeJobs \cup RecheckJobs \cup {NoJob}]
    BY <1>1, <2>1 DEF Connect, Enqueue
  <2> QED
    BY <1>1, <2>2 DEF Connect, Phases
<1>2. ASSUME NEW c \in Channels, Subscribe(s, c) PROVE TypeOK'
  <2>1. [kind |-> "subscribe", sock |-> s, chan |-> c, step |-> "queued", snap |-> <<>>]
            \in SubscribeJobs
    BY DEF SubscribeJobs
  <2>2. jobs' \in [Jobs -> SubscribeJobs \cup RecheckJobs \cup {NoJob}]
    BY <1>2, <2>1 DEF Subscribe, Enqueue
  <2>3. asks' \in [Sockets -> 0..MaxAsks]
    BY <1>2, BoundsAssumption DEF Subscribe
  <2> QED
    BY <1>2, <2>2, <2>3 DEF Subscribe
<1>3. ASSUME NEW c \in Channels, Leave(s, c) PROVE TypeOK'
    BY <1>3 DEF Leave
<1>4. ASSUME Disconnect(s) PROVE TypeOK'
  <2>1. group' \in [Channels -> SUBSET Sockets]
    <3>1. \A c \in Channels : (IF c \in subs[s] THEN group[c] \ {s} ELSE group[c]) \in SUBSET Sockets
        OBVIOUS
    <3> QED
        BY <1>4, <3>1 DEF Disconnect
  <2>2. inbox' \in [Sockets -> Seq(Messages)]
    <3>1. <<>> \in Seq(Messages)
        OBVIOUS
    <3> QED
        BY <1>4, <3>1 DEF Disconnect
  <2> QED
    BY <1>4, <2>1, <2>2 DEF Disconnect, Phases
<1>6. ASSUME Crash(s) PROVE TypeOK'
  <2>1. inbox' \in [Sockets -> Seq(Messages)]
    <3>1. <<>> \in Seq(Messages)
        OBVIOUS
    <3> QED
        BY <1>6, <3>1 DEF Crash
  <2>2. jobs' \in [Jobs -> SubscribeJobs \cup RecheckJobs \cup {NoJob}]
    BY <1>6 DEF Crash
  <2> QED
    BY <1>6, <2>1, <2>2 DEF Crash, Phases
<1>5. ASSUME GroupExpiry(s) PROVE TypeOK'
    BY <1>5 DEF GroupExpiry
<1> QED
    BY <1>1, <1>2, <1>3, <1>4, <1>5, <1>6

\* So does every message a consumer handles.
LEMMA DeliverTypeKept ==
    ASSUME ShapeInv, NEW s \in Sockets, Deliver(s)
    PROVE  TypeOK'
<1> USE DEF ShapeInv, TypeOK
<1> DEFINE m == Head(inbox[s])
<1>1. inbox[s] \in Seq(Messages) /\ inbox[s] # <<>>
    BY DEF Deliver
<1>2. m \in Messages /\ Tail(inbox[s]) \in Seq(Messages) /\ m \in Range(inbox[s])
    BY <1>1, Dropped
<1>13. MessageSound(s, m)
    BY <1>2 DEF SocketSound
<1>3. inbox' = [inbox EXCEPT ![s] = Tail(@)]
    BY DEF Deliver
<1>4. inbox' \in [Sockets -> Seq(Messages)]
    BY <1>2, <1>3
<1>5. UNCHANGED <<patient, version, unsent, roles, removal, phase, group, asks, dropped>>
    BY DEF Deliver
<1>6. \/ OnSubscribed(s, m) \/ OnState(s, m) \/ OnSubscribeError(s, m)
      \/ OnLeft(s, m) \/ OnUpdate(s, m) \/ Recheck(s, m)
    BY DEF Deliver
<1> HIDE DEF m
<1>7. CASE OnSubscribed(s, m)
    BY <1>2, <1>4, <1>5, <1>7, MessageParts DEF OnSubscribed
<1>8. CASE OnState(s, m)
  <2>1. m.chan \in Channels
    BY <1>2, <1>8, MessageParts DEF OnState
  <2>2. m.snap \in Seq(Versions) /\ m.snap # <<>>
    BY <1>2, <1>8, <1>13, MessageParts DEF OnState, MessageSound
  <2>3. Min(Range(m.snap)) \in Versions
    BY <2>2, OldestPart
  <2>4. Newest(seen[s][m.chan], Min(Range(m.snap))) \in Versions \cup {Nothing}
    BY <2>1, <2>3 DEF Newest
  <2> QED
    BY <1>4, <1>5, <1>8, <2>1, <2>4 DEF OnState
<1>9. CASE OnSubscribeError(s, m)
    BY <1>2, <1>4, <1>5, <1>9, MessageParts DEF OnSubscribeError
<1>10. CASE OnLeft(s, m)
    BY <1>2, <1>4, <1>5, <1>10, MessageParts DEF OnLeft
<1>11. CASE OnUpdate(s, m)
  <2>1. m.chan \in Channels /\ m.version \in Versions
    BY <1>2, <1>11, MessageParts DEF OnUpdate
  <2>2. Newest(seen[s][m.chan], m.version) \in Versions \cup {Nothing}
    BY <2>1 DEF Newest
  <2> QED
    BY <1>4, <1>5, <1>11, <2>1, <2>2 DEF OnUpdate
<1>12. CASE Recheck(s, m)
  <2>1. [kind |-> "recheck", sock |-> s, refs |-> subs[s]] \in RecheckJobs
    BY DEF RecheckJobs
  <2>2. jobs' \in [Jobs -> SubscribeJobs \cup RecheckJobs \cup {NoJob}]
    BY <1>12, <2>1 DEF Recheck, Enqueue
  <2>3. tooEarly' \in [Sockets -> BOOLEAN]
    BY <1>12 DEF Recheck
  <2> QED
    BY <1>4, <1>5, <1>12, <2>2, <2>3 DEF Recheck
<1> QED
    BY <1>6, <1>7, <1>8, <1>9, <1>10, <1>11, <1>12

\* A message that is sent is in the inbox of one socket, unless it is gone.
LEMMA Sent ==
    ASSUME TypeOK, NEW s \in Sockets, NEW m \in Messages, Send(s, m)
    PROVE  /\ inbox' \in [Sockets -> Seq(Messages)]
           /\ \A t \in Sockets \ {s} : inbox'[t] = inbox[t]
           /\ phase[s] = "gone" => inbox'[s] = inbox[s]
           /\ phase[s] # "gone" => inbox'[s] = Append(inbox[s], m)
<1>1. inbox[s] \in Seq(Messages) /\ inbox \in [Sockets -> Seq(Messages)]
    BY DEF TypeOK
<1>2. Append(inbox[s], m) \in Seq(Messages)
    BY <1>1, Appended
<1> QED
    BY <1>1, <1>2 DEF Send

\* A recheck job looks at one channel.
LooksAt(j, c) ==
    /\ tooEarly' = [tooEarly EXCEPT ![jobs[j].sock] = @ \/ removal = "open"]
    /\ \/ AllowSubscribe(c) /\ UNCHANGED <<group, inbox>>
       \/ /\ ~AllowSubscribe(c)
          /\ group' = [group EXCEPT ![c] = @ \ {jobs[j].sock}]
          /\ Send(jobs[j].sock, [type |-> "left", chan |-> c])
    /\ jobs' = [jobs EXCEPT ![j] = IF jobs[j].refs \ {c} = {} THEN NoJob
                                   ELSE [@ EXCEPT !.refs = jobs[j].refs \ {c}]]

\* Every step of a job keeps the type.
LEMMA JobTypeKept ==
    ASSUME TypeOK, NEW j \in Jobs, JobStep(j) \/ JobExpires(j) \/ JobDies(j)
    PROVE  TypeOK'
<1> USE DEF TypeOK
<1> DEFINE Slots == [Jobs -> SubscribeJobs \cup RecheckJobs \cup {NoJob}]
<1>1. Free(j) => jobs' \in Slots
    BY DEF Free
<1>2. Builds(j) => /\ jobs[j] \in SubscribeJobs
                   /\ jobs[j].sock \in Sockets /\ jobs[j].chan \in Channels
                   /\ jobs[j].snap \in Seq(Versions)
    BY JobTypes DEF SubscribeJobs
<1>3. ASSUME JobCheck(j) PROVE TypeOK'
  <2>1. Builds(j)
    BY <1>3 DEF JobCheck, Builds
  <2>2. /\ tooEarly' \in [Sockets -> BOOLEAN]
        /\ UNCHANGED <<patient, version, unsent, roles, removal, phase, group, subs, asks,
                       seen, asked, dropped>>
    BY <1>2, <1>3, <2>1 DEF JobCheck
  <2>3. CASE jobs' = [jobs EXCEPT ![j].step = "allowed"] /\ UNCHANGED inbox
    <3>1. [jobs[j] EXCEPT !.step = "allowed"] \in SubscribeJobs
        BY <1>2, <2>1 DEF SubscribeJobs
    <3>2. jobs' \in Slots
        BY <2>3, <3>1
    <3> QED
        BY <2>2, <2>3, <3>2
  <2>4. CASE Send(jobs[j].sock, [type |-> "error", chan |-> jobs[j].chan]) /\ Free(j)
    <3>1. [type |-> "error", chan |-> jobs[j].chan] \in Messages
        BY <1>2, <2>1, MessageTypes
    <3>2. inbox' \in [Sockets -> Seq(Messages)]
        BY <1>2, <2>1, <2>4, <3>1, Sent
    <3> QED
        BY <1>1, <2>2, <2>4, <3>2
  <2> QED
    BY <1>3, <2>3, <2>4 DEF JobCheck
<1>4. ASSUME JobJoin(j) PROVE TypeOK'
  <2>1. Builds(j)
    BY <1>4 DEF JobJoin, Builds
  <2>2. [jobs[j] EXCEPT !.step = "collect"] \in SubscribeJobs
    BY <1>2, <2>1 DEF SubscribeJobs
  <2>3. jobs' \in Slots
    BY <1>4, <2>2 DEF JobJoin
  <2>4. group' \in [Channels -> SUBSET Sockets]
    BY <1>2, <1>4, <2>1 DEF JobJoin
  <2> QED
    BY <1>4, <2>3, <2>4 DEF JobJoin
<1>5. ASSUME JobCollect(j) PROVE TypeOK'
  <2>1. Builds(j)
    BY <1>5 DEF JobCollect, Builds
  <2>2. version[jobs[j].chan] \in Versions
    BY <1>2, <2>1
  <2>3. Append(jobs[j].snap, version[jobs[j].chan]) \in Seq(Versions)
    BY <1>2, <2>1, <2>2
  <2>4. [jobs[j] EXCEPT !.snap = Append(@, version[jobs[j].chan])] \in SubscribeJobs
    BY <1>2, <2>1, <2>3 DEF SubscribeJobs
  <2>5. jobs' \in Slots
    BY <1>5, <2>4 DEF JobCollect
  <2> QED
    BY <1>5, <2>5 DEF JobCollect
<1>6. ASSUME JobTell(j) PROVE TypeOK'
  <2>1. Builds(j)
    BY <1>6 DEF JobTell, Builds
  <2>2. [jobs[j] EXCEPT !.step = "told"] \in SubscribeJobs
    BY <1>2, <2>1 DEF SubscribeJobs
  <2>3. jobs' \in Slots
    BY <1>6, <2>2 DEF JobTell
  <2>4. [type |-> "subscribed", chan |-> jobs[j].chan] \in Messages
    BY <1>2, <2>1, MessageTypes
  <2>5. inbox' \in [Sockets -> Seq(Messages)]
    BY <1>2, <1>6, <2>1, <2>4, Sent DEF JobTell
  <2> QED
    BY <1>6, <2>3, <2>5 DEF JobTell
<1>7. ASSUME JobState(j) PROVE TypeOK'
  <2>1. Builds(j)
    BY <1>7 DEF JobState, Builds
  <2>2. [type |-> "state", chan |-> jobs[j].chan, snap |-> jobs[j].snap] \in Messages
    BY <1>2, <2>1, MessageTypes
  <2>3. inbox' \in [Sockets -> Seq(Messages)]
    BY <1>2, <1>7, <2>1, <2>2, Sent DEF JobState
  <2> QED
    BY <1>1, <1>7, <2>3 DEF JobState
<1>8. ASSUME InlineDone(j) PROVE TypeOK'
  <2>1. Builds(j) /\ Len(jobs[j].snap) = NumCollectors
    BY <1>8 DEF InlineDone, Builds, Collected
  <2>2. jobs[j].snap # <<>>
    BY <2>1, BoundsAssumption
  <2>3. Min(Range(jobs[j].snap)) \in Versions
    BY <1>2, <2>1, <2>2, OldestPart
  <2>4. Newest(seen[jobs[j].sock][jobs[j].chan], Min(Range(jobs[j].snap))) \in Versions \cup {Nothing}
    BY <1>2, <2>1, <2>3 DEF Newest
  <2>5. /\ seen' \in [Sockets -> [Channels -> Versions \cup {Nothing}]]
        /\ subs' \in [Sockets -> SUBSET Channels]
        /\ phase' \in [Sockets -> Phases]
    BY <1>2, <1>8, <2>1, <2>4 DEF InlineDone, Phases
  <2> QED
    BY <1>1, <1>8, <2>5 DEF InlineDone
<1>9. ASSUME RecheckRef(j) PROVE TypeOK'
  <2>1. jobs[j] \in RecheckJobs
    BY <1>9, JobTypes DEF RecheckRef
  <2>2. PICK c \in jobs[j].refs : LooksAt(j, c)
    BY <1>9 DEF RecheckRef, LooksAt
  <2>3. c \in Channels /\ jobs[j].sock \in Sockets
    BY <2>1 DEF RecheckJobs
  <2>4. [jobs[j] EXCEPT !.refs = jobs[j].refs \ {c}] \in RecheckJobs
    BY <2>1 DEF RecheckJobs
  <2>5. jobs' \in Slots
    BY <2>2, <2>4 DEF LooksAt
  <2>6. inbox' \in [Sockets -> Seq(Messages)]
    <3>1. [type |-> "left", chan |-> c] \in Messages
        BY <2>3, MessageTypes
    <3>2. CASE Send(jobs[j].sock, [type |-> "left", chan |-> c])
        BY <2>3, <3>1, <3>2, Sent
    <3>3. CASE UNCHANGED inbox
        BY <3>3
    <3> QED
        BY <2>2, <3>2, <3>3 DEF LooksAt
  <2>7. tooEarly' \in [Sockets -> BOOLEAN]
    BY <2>2, <2>3 DEF LooksAt
  <2>8. group' \in [Channels -> SUBSET Sockets]
    <3>1. [group EXCEPT ![c] = @ \ {jobs[j].sock}] \in [Channels -> SUBSET Sockets]
        BY <2>3
    <3> QED
        BY <2>2, <3>1 DEF LooksAt
  <2> QED
    BY <1>9, <2>5, <2>6, <2>7, <2>8 DEF RecheckRef
<1>10. ASSUME JobExpires(j) \/ JobDies(j) PROVE TypeOK'
  <2>1. dropped' \in [Sockets -> BOOLEAN]
    BY <1>10 DEF JobExpires, JobDies
  <2> QED
    BY <1>1, <1>10, <2>1 DEF JobExpires, JobDies
<1> QED
    BY <1>3, <1>4, <1>5, <1>6, <1>7, <1>8, <1>9, <1>10 DEF JobStep

\* What is published goes to the members of the group.
LEMMA Published ==
    ASSUME TypeOK, NEW c \in Channels, NEW v \in Versions, Publish(c, v)
    PROVE  /\ inbox' \in [Sockets -> Seq(Messages)]
           /\ \A s \in Sockets :
                inbox'[s] = IF s \in group[c] /\ phase[s] # "gone"
                            THEN Append(inbox[s], [type |-> "update", chan |-> c, version |-> v])
                            ELSE inbox[s]
<1>1. [type |-> "update", chan |-> c, version |-> v] \in Messages
    BY MessageTypes
<1>2. \A s \in Sockets :
          Append(inbox[s], [type |-> "update", chan |-> c, version |-> v]) \in Seq(Messages)
    BY <1>1, Appended DEF TypeOK
<1> QED
    BY <1>2 DEF Publish, TypeOK

\* Every step keeps the type.
LEMMA TypeKept ==
    ASSUME ShapeInv, [Next]_vars
    PROVE  TypeOK'
<1>1. TypeOK
    BY DEF ShapeInv
<1>2. ASSUME NEW c \in Channels, Commit(c) PROVE TypeOK'
  <2>1. version[c] + 1 \in Versions
    BY <1>1, <1>2, BoundsAssumption DEF Commit, Versions, TypeOK
  <2> QED
    BY <1>1, <1>2, <2>1 DEF Commit, TypeOK
<1>3. ASSUME NEW c \in Channels, NEW v \in Versions, Publish(c, v) PROVE TypeOK'
  <2>1. inbox' \in [Sockets -> Seq(Messages)]
    BY <1>1, <1>3, Published
  <2> QED
    BY <1>1, <1>3, <2>1 DEF Publish, TypeOK
<1>4. ASSUME RemoveRoles PROVE TypeOK'
  <2>1. \A s \in Sockets : Append(inbox[s], [type |-> "recheck"]) \in Seq(Messages)
    <3>1. [type |-> "recheck"] \in Messages
        BY ChannelsAssumption, MessageTypes
    <3> QED
        BY <1>1, <3>1, Appended DEF TypeOK
  <2>2. inbox' \in [Sockets -> Seq(Messages)]
    BY <1>1, <1>4, <2>1 DEF RemoveRoles, TypeOK
  <2> QED
    BY <1>1, <1>4, <2>2 DEF RemoveRoles, TypeOK
<1>5. ASSUME RemoveRolesCommits \/ AddRoles \/ UNCHANGED vars PROVE TypeOK'
    BY <1>1, <1>5 DEF RemoveRolesCommits, AddRoles, vars, TypeOK
<1> QED
    BY <1>1, <1>2, <1>3, <1>4, <1>5, SocketTypeKept, DeliverTypeKept, JobTypeKept DEF Next

-----------------------------------------------------------------------------
(* What jobs, messages and sockets look like *)

\* Versions only grow and a removal is not undone, so what is said of a job or
\* of a message stays true of it while its socket stays as it is.
LEMMA SoundStays ==
    ASSUME ShapeInv, TypeOK',
           \A c \in Channels : version[c] =< version'[c],
           removal # "none" => removal' # "none"
    PROVE  /\ \A j \in Jobs : jobs'[j] = NoJob => JobSound(j)'
           /\ \A j \in Jobs :
                 /\ jobs'[j] = jobs[j]
                 /\ jobs[j] # NoJob => phase'[jobs[j].sock] = phase[jobs[j].sock]
                 /\ \A i \in Jobs : jobs'[i].kind = "inline" /\ jobs[j] # NoJob
                                        /\ jobs'[i].sock = jobs[j].sock =>
                          jobs[i].kind = "inline" /\ jobs[i].sock = jobs'[i].sock
                 => JobSound(j)'
           /\ \A s \in Sockets : \A m \in Messages :
                 MessageSound(s, m) /\ phase'[s] = phase[s] => MessageSound(s, m)'
<1>1. TypeOK /\ \A j \in Jobs : JobSound(j)
    BY DEF ShapeInv
<1>2. ASSUME NEW c \in Channels, NEW v \in Versions, v =< version[c] PROVE v =< version'[c]
  <2>1. v \in Nat /\ version[c] \in Nat /\ version'[c] \in Nat
    BY <1>1, BoundsAssumption DEF TypeOK, Versions
  <2> QED
    BY <1>2, <2>1
<1>3. ASSUME NEW j \in Jobs, jobs'[j] = NoJob PROVE JobSound(j)'
    BY <1>3 DEF JobSound, Builds, NoJob
<1>4. ASSUME NEW j \in Jobs,
             jobs'[j] = jobs[j],
             jobs[j] # NoJob => phase'[jobs[j].sock] = phase[jobs[j].sock],
             \A i \in Jobs : jobs'[i].kind = "inline" /\ jobs[j] # NoJob
                                 /\ jobs'[i].sock = jobs[j].sock =>
                   jobs[i].kind = "inline" /\ jobs[i].sock = jobs'[i].sock
      PROVE  JobSound(j)'
  <2>1. CASE jobs[j] = NoJob
    BY <1>3, <1>4, <2>1
  <2>2. CASE jobs[j] # NoJob
    <3>1. JobSound(j) /\ phase'[jobs[j].sock] = phase[jobs[j].sock]
        BY <1>1, <1>4, <2>2
    <3>2. ASSUME Builds(j) PROVE \A v \in Range(jobs[j].snap) : v =< version'[jobs[j].chan]
      <4>1. jobs[j].chan \in Channels /\ jobs[j].snap \in Seq(Versions)
        BY <1>1, <3>2, JobTypes DEF SubscribeJobs
      <4>2. Range(jobs[j].snap) \subseteq Versions
        BY <4>1 DEF Range
      <4> QED
        BY <1>2, <3>1, <3>2, <4>1, <4>2 DEF JobSound
    <3> QED
        BY <1>4, <2>2, <3>1, <3>2 DEF JobSound, Builds
  <2> QED
    BY <2>1, <2>2
<1>5. ASSUME NEW s \in Sockets, NEW m \in Messages, MessageSound(s, m), phase'[s] = phase[s]
      PROVE  MessageSound(s, m)'
  <2>1. m.type = "update" => m.version =< version'[m.chan]
    BY <1>2, <1>5, MessageParts DEF MessageSound
  <2>2. m.type = "state" => \A v \in Range(m.snap) : v =< version'[m.chan]
    <3>1. SUFFICES ASSUME m.type = "state" PROVE \A v \in Range(m.snap) : v =< version'[m.chan]
        OBVIOUS
    <3>2. Range(m.snap) \subseteq Versions /\ m.chan \in Channels
        BY <3>1, MessageParts DEF Range
    <3> QED
        BY <1>2, <1>5, <3>1, <3>2 DEF MessageSound
  <2> QED
    BY <1>5, <2>1, <2>2 DEF MessageSound
<1> QED
    BY <1>3, <1>4, <1>5

\* A step that changes no phase, puts no job, and sends no message that is not
\* sound.
LEMMA ShapeStays ==
    ASSUME ShapeInv, TypeOK', VersionsSound',
           \A c \in Channels : version[c] =< version'[c],
           removal # "none" => removal' # "none",
           UNCHANGED phase,
           \A j \in Jobs : jobs'[j] = jobs[j] \/ jobs'[j] = NoJob,
           \A s \in Sockets : asked'[s] \subseteq asked[s],
           \A s \in Sockets : phase[s] # "open" => subs'[s] = subs[s],
           \A s \in Sockets, c \in Channels : s \in group'[c] => s \in group[c],
           \A s \in Sockets : phase[s] \in {"new", "gone"} => inbox'[s] = inbox[s],
           \A s \in Sockets : \A m \in Range(inbox'[s]) : m \in Range(inbox[s]) \/ MessageSound(s, m)'
    PROVE  ShapeInv'
<1>1. TypeOK /\ \A s \in Sockets : SocketSound(s)
    BY DEF ShapeInv
<1>2. ASSUME NEW j \in Jobs PROVE JobSound(j)'
  <2>1. CASE jobs'[j] = NoJob
    BY <2>1, SoundStays
  <2>2. CASE jobs'[j] # NoJob
    <3>1. jobs'[j] = jobs[j]
        BY <2>2
    <3>2. \A i \in Jobs : jobs'[i].kind = "inline" =>
                jobs[i].kind = "inline" /\ jobs[i].sock = jobs'[i].sock
        BY DEF NoJob
    <3> QED
        BY <3>1, <3>2, SoundStays
  <2> QED
    BY <2>1, <2>2
<1>3. ASSUME NEW s \in Sockets PROVE SocketSound(s)'
  <2>1. SocketSound(s)
    BY <1>1
  <2>2. ASSUME NEW m \in Range(inbox'[s]) PROVE MessageSound(s, m)'
    <3>1. m \in Messages
        BY <2>2 DEF TypeOK, Range
    <3>2. CASE m \in Range(inbox[s])
        BY <2>1, <3>1, <3>2, SoundStays DEF SocketSound
    <3> QED
        BY <2>2, <3>2
  <2>3. phase[s] = "new" => \A j \in Jobs : ~WorksFor(j, s)'
    BY <2>1 DEF SocketSound, WorksFor
  <2> QED
    BY <2>1, <2>2, <2>3, ChannelsAssumption DEF SocketSound
<1> QED
    BY <1>2, <1>3 DEF ShapeInv

\* A step that changes the versions as a commit does, or not at all, and tells
\* nobody of a version that is not there.
LEMMA VersionsStay ==
    ASSUME ShapeInv, TypeOK', UNCHANGED version,
           \A c \in Channels : unsent'[c] \subseteq unsent[c],
           \A s \in Sockets, c \in Channels :
               seen'[s][c] = seen[s][c] \/ seen'[s][c] =< version[c],
           ~roles' => removal' = "done"
    PROVE  VersionsSound'
    BY DEF ShapeInv, VersionsSound

\* The messages that are left were there before.
LEMMA TailSound ==
    ASSUME TypeOK, NEW s \in Sockets, inbox[s] # <<>>, inbox' = [inbox EXCEPT ![s] = Tail(@)]
    PROVE  /\ Head(inbox[s]) \in Messages /\ Head(inbox[s]) \in Range(inbox[s])
           /\ \A t \in Sockets : Range(inbox'[t]) \subseteq Range(inbox[t])
           /\ \A t \in Sockets \ {s} : inbox'[t] = inbox[t]
<1>1. inbox[s] \in Seq(Messages)
    BY DEF TypeOK
<1>2. Head(inbox[s]) \in Messages /\ Range(inbox[s]) = {Head(inbox[s])} \cup Range(Tail(inbox[s]))
    BY <1>1, Dropped
<1>3. \A t \in Sockets \ {s} : inbox'[t] = inbox[t]
    BY DEF TypeOK
<1>4. inbox'[s] = Tail(inbox[s])
    BY DEF TypeOK
<1> QED
    BY <1>2, <1>3, <1>4

\* One message of a socket is added to what was there.
LEMMA SentSound ==
    ASSUME TypeOK, NEW s \in Sockets, NEW m \in Messages, Send(s, m)
    PROVE  /\ \A t \in Sockets \ {s} : inbox'[t] = inbox[t]
           /\ phase[s] = "gone" => inbox'[s] = inbox[s]
           /\ Range(inbox'[s]) \subseteq Range(inbox[s]) \cup {m}
<1>1. inbox[s] \in Seq(Messages)
    BY DEF TypeOK
<1>2. Range(Append(inbox[s], m)) = Range(inbox[s]) \cup {m}
    BY <1>1, RangeOfAppend
<1> QED
    BY <1>2, Sent

\* A connection puts the job that is inline.
LEMMA ConnectShape ==
    ASSUME ShapeInv, TypeOK', NEW s \in Sockets, Connect(s)
    PROVE  ShapeInv'
<1>1. TypeOK /\ VersionsSound /\ (\A j \in Jobs : JobSound(j)) /\ \A t \in Sockets : SocketSound(t)
    BY DEF ShapeInv
<1> DEFINE job == [kind |-> "inline", sock |-> s, chan |-> Organisation,
                   step |-> "queued", snap |-> <<>>]
<1>2. /\ phase[s] = "new"
      /\ phase' = [phase EXCEPT ![s] = "connecting"]
      /\ subs' = [subs EXCEPT ![s] = {}]
      /\ UNCHANGED <<patient, version, unsent, roles, removal, group, inbox, asks, seen,
                     asked, dropped, tooEarly>>
    BY DEF Connect
<1>3. PICK j \in Jobs : jobs[j] = NoJob /\ jobs' = [jobs EXCEPT ![j] = job]
    BY <1>1, Enqueued DEF Connect
<1>4. jobs'[j] = job /\ \A i \in Jobs \ {j} : jobs'[i] = jobs[i]
    BY <1>1, <1>3 DEF TypeOK
<1>5. /\ job # NoJob /\ job.kind = "inline" /\ job.sock = s /\ job.chan = Organisation
      /\ job.step = "queued" /\ job.snap = <<>>
    BY DEF NoJob
<1> HIDE DEF job
<1>6. \A i \in Jobs : ~WorksFor(i, s)
    BY <1>1, <1>2 DEF SocketSound
<1>7. VersionsSound'
    BY <1>1, <1>2 DEF VersionsSound
<1>8. ASSUME NEW i \in Jobs PROVE JobSound(i)'
  <2>1. CASE i = j
    <3>1. \A k \in Jobs : jobs'[k].kind = "inline" /\ jobs'[k].sock = s => k = j
        BY <1>4, <1>6 DEF WorksFor, NoJob
    <3>2. phase'[s] = "connecting"
        BY <1>1, <1>2 DEF TypeOK
    <3>3. Range(<<>>) = {}
        BY DEF Range
    <3> QED
        BY <1>4, <1>5, <2>1, <3>1, <3>2, <3>3 DEF JobSound, Builds
  <2>2. CASE i # j /\ jobs[i] = NoJob
    BY <1>2, <1>4, <2>2, SoundStays DEF ShapeInv, VersionsSound, TypeOK, Versions
  <2>3. CASE i # j /\ jobs[i] # NoJob
    <3>1. jobs[i].sock # s /\ jobs[i].sock \in Sockets
        BY <1>1, <1>6, <2>3, JobTypes DEF WorksFor
    <3>2. phase'[jobs[i].sock] = phase[jobs[i].sock]
        BY <1>1, <1>2, <3>1 DEF TypeOK
    <3>3. \A c \in Channels : version[c] =< version'[c]
        BY <1>1, <1>2, BoundsAssumption DEF TypeOK, Versions
    <3>4. jobs'[i] = jobs[i]
        BY <1>4, <2>3
    <3>5. \A k \in Jobs : jobs'[k].kind = "inline" /\ jobs'[k].sock = jobs[i].sock =>
              jobs[k].kind = "inline" /\ jobs[k].sock = jobs'[k].sock
        BY <1>4, <1>5, <3>1
    <3> QED
        BY <1>2, <3>2, <3>3, <3>4, <3>5, SoundStays
  <2> QED
    BY <2>1, <2>2, <2>3
<1>9. ASSUME NEW t \in Sockets PROVE SocketSound(t)'
  <2>1. SocketSound(t)
    BY <1>1
  <2>2. CASE t = s
    <3>1. phase'[s] = "connecting" /\ subs'[s] = {}
        BY <1>1, <1>2 DEF TypeOK
    <3>2. inbox[s] = <<>> /\ Range(<<>>) = {}
        BY <1>2, <2>1, <2>2 DEF SocketSound, Range
    <3> QED
        BY <1>2, <2>1, <2>2, <3>1, <3>2 DEF SocketSound
  <2>3. CASE t # s
    <3>1. phase'[t] = phase[t] /\ subs'[t] = subs[t]
        BY <1>1, <1>2, <2>3 DEF TypeOK
    <3>2. phase[t] = "new" => \A i \in Jobs : ~WorksFor(i, t)'
        BY <1>4, <1>5, <2>1, <2>3 DEF SocketSound, WorksFor
    <3>3. \A m : MessageSound(t, m) => MessageSound(t, m)'
        BY <1>2, <3>1 DEF MessageSound
    <3> QED
        BY <1>2, <2>1, <3>1, <3>2, <3>3 DEF SocketSound
  <2> QED
    BY <2>2, <2>3
<1> QED
    BY <1>7, <1>8, <1>9 DEF ShapeInv

\* A request of a client puts a job for an open socket.
LEMMA EnqueueShape ==
    ASSUME ShapeInv, TypeOK', VersionsSound', NEW s \in Sockets, phase[s] = "open",
           NEW job, Enqueue(job), job # NoJob, job.sock = s,
           \/ job.kind = "subscribe" /\ job.chan # Organisation
                /\ job.step = "queued" /\ job.snap = <<>>
           \/ job.kind = "recheck" /\ removal # "none",
           UNCHANGED <<version, removal, phase, group>>,
           \A t \in Sockets \ {s} : subs'[t] = subs[t] /\ asked'[t] = asked[t] /\ inbox'[t] = inbox[t],
           \A m \in Range(inbox'[s]) : MessageSound(s, m)
    PROVE  ShapeInv'
<1>1. TypeOK /\ (\A j \in Jobs : JobSound(j)) /\ \A t \in Sockets : SocketSound(t)
    BY DEF ShapeInv
<1>2. PICK j \in Jobs : jobs[j] = NoJob /\ jobs' = [jobs EXCEPT ![j] = job]
    BY <1>1, Enqueued
<1>3. jobs'[j] = job /\ \A i \in Jobs \ {j} : jobs'[i] = jobs[i]
    BY <1>1, <1>2 DEF TypeOK
<1>4. \A c \in Channels : version[c] =< version'[c]
    BY <1>1, BoundsAssumption DEF TypeOK, Versions
<1>5. ASSUME NEW i \in Jobs PROVE JobSound(i)'
  <2>1. CASE i = j
    <3>1. Range(<<>>) = {}
        BY DEF Range
    <3> QED
        BY <1>3, <2>1, <3>1 DEF JobSound, Builds
  <2>2. CASE i # j
    BY <1>3, <1>4, <2>2, SoundStays
  <2> QED
    BY <2>1, <2>2
<1>6. ASSUME NEW t \in Sockets PROVE SocketSound(t)'
  <2>1. SocketSound(t)
    BY <1>1
  <2>2. \A m : MessageSound(t, m) => MessageSound(t, m)'
    BY DEF MessageSound
  <2>3. CASE t = s
    BY <2>1, <2>2, <2>3 DEF SocketSound
  <2>4. CASE t # s
    <3>1. \A i \in Jobs : WorksFor(i, t)' => WorksFor(i, t)
        BY <1>3, <2>4 DEF WorksFor
    <3> QED
        BY <2>1, <2>2, <2>4, <3>1 DEF SocketSound
  <2> QED
    BY <2>3, <2>4
<1> QED
    BY <1>5, <1>6 DEF ShapeInv

\* A socket that goes away takes its inline job with it.
LEMMA GoneShape ==
    ASSUME ShapeInv, TypeOK', NEW s \in Sockets, Disconnect(s) \/ Crash(s)
    PROVE  ShapeInv'
<1>1. TypeOK /\ VersionsSound /\ (\A j \in Jobs : JobSound(j)) /\ \A t \in Sockets : SocketSound(t)
    BY DEF ShapeInv
<1>2. /\ phase[s] \in {"connecting", "open"}
      /\ phase' = [phase EXCEPT ![s] = "gone"]
      /\ inbox' = [inbox EXCEPT ![s] = <<>>]
      /\ asked' = [asked EXCEPT ![s] = {}]
      /\ UNCHANGED <<version, unsent, roles, removal, subs, seen>>
    BY DEF Disconnect, Crash
<1>3. \A t \in Sockets, c \in Channels : t \in group'[c] => t \in group[c]
  <2>1. CASE Disconnect(s)
    <3>1. \A c \in Channels : group'[c] = IF c \in subs[s] THEN group[c] \ {s} ELSE group[c]
        BY <2>1 DEF Disconnect
    <3> QED
        BY <3>1
  <2>2. CASE Crash(s)
    BY <2>2 DEF Crash
  <2> QED
    BY <2>1, <2>2
<1>4. \A j \in Jobs :
          jobs'[j] = IF jobs[j].kind = "inline" /\ jobs[j].sock = s THEN NoJob ELSE jobs[j]
  <2>1. CASE Disconnect(s)
    <3>1. ASSUME NEW j \in Jobs, jobs[j].kind = "inline", jobs[j].sock = s PROVE FALSE
        BY <1>1, <2>1, <3>1 DEF JobSound, Disconnect
    <3> QED
        BY <2>1, <3>1 DEF Disconnect
  <2>2. CASE Crash(s)
    BY <2>2 DEF Crash
  <2> QED
    BY <2>1, <2>2
<1>5. VersionsSound'
    BY <1>1, <1>2 DEF VersionsSound
<1>6. \A c \in Channels : version[c] =< version'[c]
    BY <1>1, <1>2, BoundsAssumption DEF TypeOK, Versions
<1>7. \A t \in Sockets \ {s} : phase'[t] = phase[t] /\ inbox'[t] = inbox[t] /\ asked'[t] = asked[t]
    BY <1>1, <1>2 DEF TypeOK
<1>8. phase'[s] = "gone" /\ inbox'[s] = <<>> /\ asked'[s] = {}
    BY <1>1, <1>2 DEF TypeOK
<1>9. ASSUME NEW j \in Jobs PROVE JobSound(j)'
  <2>1. CASE jobs'[j] = NoJob
    BY <1>2, <1>6, <2>1, SoundStays
  <2>2. CASE jobs'[j] # NoJob
    <3>1. jobs'[j] = jobs[j] /\ JobSound(j) /\ jobs[j].sock \in Sockets
        BY <1>1, <1>4, <2>2, JobTypes
    <3>2. CASE jobs[j].sock = s
        <4>1. jobs[j].kind # "inline"
            BY <1>4, <2>2, <3>1, <3>2
        <4> QED
            BY <1>2, <1>8, <3>1, <3>2, <4>1 DEF JobSound, Builds
    <3>3. CASE jobs[j].sock # s
        <4>1. \A i \in Jobs : jobs'[i].kind = "inline" =>
                  jobs[i].kind = "inline" /\ jobs[i].sock = jobs'[i].sock
            BY <1>4 DEF NoJob
        <4> QED
            BY <1>2, <1>6, <1>7, <3>1, <3>3, <4>1, SoundStays
    <3> QED
        BY <3>2, <3>3
  <2> QED
    BY <2>1, <2>2
<1>10. ASSUME NEW t \in Sockets PROVE SocketSound(t)'
  <2>1. SocketSound(t)
    BY <1>1
  <2>2. CASE t = s
    <3>1. Range(<<>>) = {}
        BY DEF Range
    <3> QED
        BY <1>8, <2>2, <3>1 DEF SocketSound
  <2>3. CASE t # s
    <3>1. \A i \in Jobs : WorksFor(i, t)' => WorksFor(i, t)
        BY <1>4 DEF WorksFor
    <3>2. \A m : MessageSound(t, m) => MessageSound(t, m)'
        BY <1>2, <1>7, <2>3 DEF MessageSound
    <3> QED
        BY <1>2, <1>3, <1>7, <2>1, <2>3, <3>1, <3>2, ChannelsAssumption DEF SocketSound
  <2> QED
    BY <2>2, <2>3
<1> QED
    BY <1>5, <1>9, <1>10 DEF ShapeInv

\* The consumer handles a message: what is left was sound before, and what the
\* client is told of is there.
LEMMA DeliverShape ==
    ASSUME ShapeInv, TypeOK', NEW s \in Sockets, Deliver(s)
    PROVE  ShapeInv'
<1>1. TypeOK /\ VersionsSound /\ (\A j \in Jobs : JobSound(j)) /\ \A t \in Sockets : SocketSound(t)
    BY DEF ShapeInv
<1> DEFINE m == Head(inbox[s])
<1>2. /\ phase[s] = "open" /\ inbox[s] # <<>>
      /\ inbox' = [inbox EXCEPT ![s] = Tail(@)]
      /\ UNCHANGED <<patient, version, unsent, roles, removal, phase, group, asks, dropped>>
    BY DEF Deliver
<1>3. \/ OnSubscribed(s, m) \/ OnState(s, m) \/ OnSubscribeError(s, m)
      \/ OnLeft(s, m) \/ OnUpdate(s, m) \/ Recheck(s, m)
    BY DEF Deliver
<1> HIDE DEF m
<1>4. /\ m \in Messages /\ m \in Range(inbox[s])
      /\ \A t \in Sockets : Range(inbox'[t]) \subseteq Range(inbox[t])
      /\ \A t \in Sockets \ {s} : inbox'[t] = inbox[t]
    BY <1>1, <1>2, TailSound DEF m
<1>5. MessageSound(s, m)
    BY <1>1, <1>4 DEF SocketSound
<1>6. \A c \in Channels : version[c] =< version'[c] /\ version[c] \in Nat
    BY <1>1, <1>2, BoundsAssumption DEF TypeOK, Versions
<1>7. \A t \in Sockets, c \in Channels :
          seen'[t][c] = seen[t][c] \/ seen'[t][c] =< version[c]
  <2>1. SUFFICES ASSUME NEW x, seen' = [seen EXCEPT ![s][m.chan] = x],
                        m.chan \in Channels, x = seen[s][m.chan] \/ x =< version[m.chan]
                 PROVE  \A t \in Sockets, c \in Channels :
                            seen'[t][c] = seen[t][c] \/ seen'[t][c] =< version[c]
    <3>1. CASE OnState(s, m)
        <4>1. m.chan \in Channels /\ m.snap \in Seq(Versions) /\ m.snap # <<>>
            BY <1>4, <1>5, <3>1, MessageParts DEF OnState, MessageSound
        <4>2. Min(Range(m.snap)) =< version[m.chan]
            BY <1>5, <3>1, <4>1, OldestPart DEF OnState, MessageSound
        <4> QED
            BY <2>1, <3>1, <4>1, <4>2 DEF OnState, Newest
    <3>2. CASE OnUpdate(s, m)
        <4>1. m.chan \in Channels /\ m.version =< version[m.chan]
            BY <1>4, <1>5, <3>2, MessageParts DEF OnUpdate, MessageSound
        <4> QED
            BY <2>1, <3>2, <4>1 DEF OnUpdate, Newest
    <3>3. CASE OnLeft(s, m)
        <4>1. m.chan \in Channels /\ Nothing =< version[m.chan]
            BY <1>4, <1>6, <3>3, MessageParts DEF OnLeft, Nothing
        <4> QED
            BY <2>1, <3>3, <4>1 DEF OnLeft
    <3>4. CASE UNCHANGED seen
        BY <3>4
    <3> QED
        BY <1>3, <3>1, <3>2, <3>3, <3>4 DEF OnSubscribed, OnSubscribeError, Recheck
  <2> QED
    BY <1>1, <2>1 DEF TypeOK
<1>8. VersionsSound'
  <2>1. ~roles' => removal' = "done"
    BY <1>1, <1>2 DEF VersionsSound
  <2> QED
    BY <1>2, <1>7, <2>1, VersionsStay
<1>9. \A t \in Sockets \ {s} : subs'[t] = subs[t] /\ asked'[t] = asked[t]
    BY <1>1, <1>3 DEF OnSubscribed, OnState, OnSubscribeError, OnLeft, OnUpdate, Recheck, TypeOK
<1>10. asked'[s] \subseteq asked[s]
    BY <1>1, <1>3 DEF OnSubscribed, OnState, OnSubscribeError, OnLeft, OnUpdate, Recheck, TypeOK
<1>11. \A x \in Range(inbox'[s]) : MessageSound(s, x)
    BY <1>1, <1>4 DEF SocketSound
<1>12. CASE UNCHANGED jobs
  <2>1. \A t \in Sockets : asked'[t] \subseteq asked[t]
    BY <1>9, <1>10
  <2>2. \A t \in Sockets : phase[t] # "open" => subs'[t] = subs[t] /\ inbox'[t] = inbox[t]
    BY <1>2, <1>4, <1>9
  <2> QED
    BY <1>2, <1>4, <1>6, <1>8, <1>12, <2>1, <2>2, ShapeStays
<1>13. CASE Recheck(s, m) /\ ~UNCHANGED jobs
  <2> DEFINE job == [kind |-> "recheck", sock |-> s, refs |-> subs[s]]
  <2>1. Enqueue(job) /\ removal # "none"
    BY <1>5, <1>13 DEF Recheck, MessageSound
  <2>2. job # NoJob /\ job.sock = s /\ job.kind = "recheck"
    BY DEF NoJob
  <2> HIDE DEF job
  <2>3. asked' = asked
    BY <1>13 DEF Recheck
  <2> QED
    BY <1>2, <1>4, <1>8, <1>9, <1>11, <2>1, <2>2, <2>3, EnqueueShape
<1> QED
    BY <1>3, <1>12, <1>13 DEF OnSubscribed, OnState, OnSubscribeError, OnLeft, OnUpdate

\* A job moves one step and tells one socket at most.
LEMMA JobMoves ==
    ASSUME ShapeInv, TypeOK', NEW j \in Jobs, Builds(j),
           UNCHANGED <<version, unsent, seen, roles, removal, phase, subs, asked>>,
           \E x : jobs' = [jobs EXCEPT ![j] = x],
           jobs'[j] # NoJob => /\ jobs'[j].kind = jobs[j].kind /\ jobs'[j].sock = jobs[j].sock
                               /\ JobSound(j)',
           \A t \in Sockets \ {jobs[j].sock} :
               inbox'[t] = inbox[t] /\ \A c \in Channels : t \in group'[c] => t \in group[c],
           \A c \in Channels : jobs[j].sock \in group'[c] =>
               jobs[j].sock \in group[c] \/ c = jobs[j].chan,
           phase[jobs[j].sock] = "gone" => UNCHANGED inbox,
           \A m \in Range(inbox'[jobs[j].sock]) :
               m \in Range(inbox[jobs[j].sock]) \/ MessageSound(jobs[j].sock, m)
    PROVE  ShapeInv'
<1>1. TypeOK /\ VersionsSound /\ (\A i \in Jobs : JobSound(i)) /\ \A t \in Sockets : SocketSound(t)
    BY DEF ShapeInv
<1>2. \A i \in Jobs \ {j} : jobs'[i] = jobs[i]
    BY <1>1 DEF TypeOK
<1>3. /\ jobs[j] # NoJob /\ jobs[j].sock \in Sockets
      /\ phase[jobs[j].sock] \in {"connecting", "open", "gone"}
      /\ phase[jobs[j].sock] = "connecting" => jobs[j].chan = Organisation
    BY <1>1, JobTypes DEF JobSound, Builds, NoJob
<1>4. VersionsSound'
    BY <1>1 DEF VersionsSound
<1>5. \A c \in Channels : version[c] =< version'[c]
    BY <1>1, BoundsAssumption DEF TypeOK, Versions
<1>6. \A i \in Jobs : jobs'[i].kind = "inline" =>
          jobs[i].kind = "inline" /\ jobs[i].sock = jobs'[i].sock
    BY <1>2 DEF NoJob
<1>7. ASSUME NEW i \in Jobs PROVE JobSound(i)'
  <2>1. CASE i # j
    BY <1>2, <1>5, <1>6, <2>1, SoundStays
  <2>2. CASE i = j /\ jobs'[j] = NoJob
    BY <1>5, <2>2, SoundStays
  <2> QED
    BY <2>1, <2>2
<1>8. ASSUME NEW t \in Sockets PROVE SocketSound(t)'
  <2>1. SocketSound(t) /\ \A m : MessageSound(t, m) => MessageSound(t, m)'
    BY <1>1 DEF MessageSound
  <2>2. CASE t = jobs[j].sock
    <3>1. \A m \in Range(inbox'[t]) : MessageSound(t, m)'
        BY <2>1, <2>2 DEF SocketSound
    <3> QED
        BY <1>3, <2>1, <2>2, <3>1 DEF SocketSound
  <2>3. CASE t # jobs[j].sock
    <3>1. \A i \in Jobs : WorksFor(i, t)' => WorksFor(i, t)
        BY <1>2, <2>3 DEF WorksFor
    <3> QED
        BY <2>1, <2>3, <3>1, ChannelsAssumption DEF SocketSound
  <2> QED
    BY <2>2, <2>3
<1> QED
    BY <1>4, <1>7, <1>8 DEF ShapeInv

\* What a subscribe job is, in one place.
LEMMA BuildingJob ==
    ASSUME ShapeInv, NEW j \in Jobs, Builds(j)
    PROVE  /\ jobs[j] \in SubscribeJobs /\ jobs[j] # NoJob
           /\ jobs[j].sock \in Sockets /\ jobs[j].chan \in Channels
           /\ jobs[j].snap \in Seq(Versions)
           /\ jobs[j].step \in {"queued", "allowed", "collect", "told"}
           /\ jobs[j].chan # Organisation =>
                  jobs[j].kind = "subscribe" /\ phase[jobs[j].sock] \in {"open", "gone"}
           /\ jobs[j].kind = "subscribe" =>
                  jobs[j].chan # Organisation /\ phase[jobs[j].sock] \in {"open", "gone"}
           /\ jobs[j].kind = "inline" =>
                  jobs[j].chan = Organisation /\ phase[jobs[j].sock] = "connecting"
           /\ JobSound(j)
<1>1. TypeOK /\ JobSound(j)
    BY DEF ShapeInv
<1>2. jobs[j] \in SubscribeJobs
    BY <1>1, JobTypes
<1> QED
    BY <1>1, <1>2 DEF JobSound, Builds, SubscribeJobs, NoJob

\* A job that is freed.
LEMMA Freed ==
    ASSUME TypeOK, NEW j \in Jobs, Free(j)
    PROVE  jobs' = [jobs EXCEPT ![j] = NoJob] /\ jobs'[j] = NoJob
                /\ \A i \in Jobs \ {j} : jobs'[i] = jobs[i]
    BY DEF Free, TypeOK

\* A job moves to another step.
LEMMA Stepped ==
    ASSUME TypeOK, NEW j \in Jobs, Builds(j), NEW step, jobs' = [jobs EXCEPT ![j].step = step]
    PROVE  /\ jobs' = [jobs EXCEPT ![j] = [jobs[j] EXCEPT !.step = step]]
           /\ jobs'[j].kind = jobs[j].kind /\ jobs'[j].sock = jobs[j].sock
           /\ jobs'[j].chan = jobs[j].chan /\ jobs'[j].snap = jobs[j].snap
           /\ jobs'[j].step = step
           /\ \A i \in Jobs \ {j} : jobs'[i] = jobs[i]
<1>1. jobs[j] \in SubscribeJobs
    BY JobTypes
<1>2. jobs' = [jobs EXCEPT ![j] = [jobs[j] EXCEPT !.step = step]]
    OBVIOUS
<1>3. jobs'[j] = [jobs[j] EXCEPT !.step = step] /\ \A i \in Jobs \ {j} : jobs'[i] = jobs[i]
    BY <1>2 DEF TypeOK
<1> QED
    BY <1>1, <1>2, <1>3 DEF SubscribeJobs

\* The check of the permission.
LEMMA JobCheckShape ==
    ASSUME ShapeInv, TypeOK', NEW j \in Jobs, JobCheck(j)
    PROVE  ShapeInv'
<1>1. TypeOK /\ VersionsSound
    BY DEF ShapeInv
<1>2. /\ Builds(j) /\ jobs[j].step = "queued"
      /\ UNCHANGED <<version, unsent, seen, roles, removal, phase, subs, asked, group>>
    BY DEF JobCheck, Builds
<1> DEFINE s == jobs[j].sock
           m == [type |-> "error", chan |-> jobs[j].chan]
<1>3. JobSound(j) /\ s \in Sockets /\ jobs[j].chan \in Channels /\ jobs[j].snap = <<>>
    BY <1>2, BuildingJob DEF JobSound
<1>4. CASE jobs' = [jobs EXCEPT ![j].step = "allowed"] /\ UNCHANGED inbox
  <2>1. JobSound(j)'
    <3>1. /\ jobs'[j].kind = jobs[j].kind /\ jobs'[j].sock = jobs[j].sock
          /\ jobs'[j].chan = jobs[j].chan /\ jobs'[j].snap = jobs[j].snap
          /\ jobs'[j].step = "allowed"
          /\ \A i \in Jobs \ {j} : jobs'[i] = jobs[i]
        BY <1>1, <1>2, <1>4, Stepped
    <3> QED
        BY <1>2, <1>3, <3>1 DEF JobSound, Builds
  <2> QED
    BY <1>1, <1>2, <1>4, <2>1, Stepped, JobMoves
<1>5. CASE ~AllowSubscribe(jobs[j].chan) /\ Send(s, m) /\ Free(j)
  <2>1. jobs[j].chan # Organisation /\ removal = "done"
    BY <1>1, <1>5 DEF AllowSubscribe, VersionsSound
  <2>2. m \in Messages /\ phase[s] \in {"open", "gone"}
    BY <1>2, <1>3, <2>1, MessageTypes, BuildingJob
  <2>3. /\ \A t \in Sockets \ {s} : inbox'[t] = inbox[t]
        /\ phase[s] = "gone" => UNCHANGED inbox
        /\ Range(inbox'[s]) \subseteq Range(inbox[s]) \cup {m}
    BY <1>1, <1>3, <1>5, <2>2, SentSound DEF Send
  <2>4. phase[s] = "open" => MessageSound(s, m)
    BY <2>1 DEF MessageSound
  <2>5. \A x \in Range(inbox'[s]) : x \in Range(inbox[s]) \/ MessageSound(s, x)
    BY <2>2, <2>3, <2>4
  <2>6. \E x : jobs' = [jobs EXCEPT ![j] = x]
    BY <1>5 DEF Free
  <2>7. jobs'[j] = NoJob
    BY <1>1, <1>5, Freed
  <2> HIDE DEF m
  <2> QED
    BY <1>2, <1>3, <2>3, <2>5, <2>6, <2>7, JobMoves
<1> QED
    BY <1>4, <1>5 DEF JobCheck

\* The socket joins the group of its own channel.
LEMMA JobJoinShape ==
    ASSUME ShapeInv, TypeOK', NEW j \in Jobs, JobJoin(j)
    PROVE  ShapeInv'
<1>1. TypeOK
    BY DEF ShapeInv
<1>2. /\ Builds(j) /\ jobs[j].step = "allowed"
      /\ jobs' = [jobs EXCEPT ![j].step = "collect"]
      /\ group' = [group EXCEPT ![jobs[j].chan] = @ \cup {jobs[j].sock}]
      /\ UNCHANGED <<version, unsent, seen, roles, removal, phase, subs, asked, inbox>>
    BY DEF JobJoin, Builds
<1>3. JobSound(j) /\ jobs[j].sock \in Sockets /\ jobs[j].chan \in Channels
    BY <1>2, BuildingJob
<1>4. /\ jobs'[j].kind = jobs[j].kind /\ jobs'[j].sock = jobs[j].sock
      /\ jobs'[j].chan = jobs[j].chan /\ jobs'[j].snap = jobs[j].snap
      /\ jobs'[j].step = "collect"
      /\ \A i \in Jobs \ {j} : jobs'[i] = jobs[i]
      /\ \E x : jobs' = [jobs EXCEPT ![j] = x]
    BY <1>1, <1>2, Stepped
<1>5. JobSound(j)'
    BY <1>2, <1>3, <1>4 DEF JobSound, Builds
<1>6. \A t \in Sockets, c \in Channels :
          t \in group'[c] => t \in group[c] \/ (t = jobs[j].sock /\ c = jobs[j].chan)
    BY <1>1, <1>2 DEF TypeOK
<1> QED
    BY <1>2, <1>3, <1>4, <1>5, <1>6, JobMoves

\* A collector reads a version that is there.
LEMMA JobCollectShape ==
    ASSUME ShapeInv, TypeOK', NEW j \in Jobs, JobCollect(j)
    PROVE  ShapeInv'
<1>1. TypeOK
    BY DEF ShapeInv
<1> DEFINE v == version[jobs[j].chan]
           q == Append(jobs[j].snap, v)
<1>2. /\ Builds(j) /\ jobs[j].step = "collect"
      /\ jobs' = [jobs EXCEPT ![j].snap = Append(@, v)]
      /\ UNCHANGED <<version, unsent, seen, roles, removal, phase, subs, asked, inbox, group>>
    BY DEF JobCollect, Builds
<1>3. /\ JobSound(j) /\ jobs[j].sock \in Sockets /\ jobs[j].chan \in Channels
      /\ jobs[j].snap \in Seq(Versions) /\ jobs[j] \in SubscribeJobs
    BY <1>2, BuildingJob
<1>4. v \in Versions /\ v =< v
    BY <1>1, <1>3, BoundsAssumption DEF TypeOK, Versions
<1>5. Range(q) = Range(jobs[j].snap) \cup {v}
    BY <1>3, <1>4, RangeOfAppend
<1>6. jobs' = [jobs EXCEPT ![j] = [jobs[j] EXCEPT !.snap = q]]
    BY <1>2
<1> HIDE DEF q
<1>7. /\ jobs'[j].kind = jobs[j].kind /\ jobs'[j].sock = jobs[j].sock
      /\ jobs'[j].chan = jobs[j].chan /\ jobs'[j].snap = q
      /\ jobs'[j].step = "collect"
      /\ \A i \in Jobs \ {j} : jobs'[i] = jobs[i]
  <2>1. jobs'[j] = [jobs[j] EXCEPT !.snap = q] /\ \A i \in Jobs \ {j} : jobs'[i] = jobs[i]
    BY <1>1, <1>6 DEF TypeOK
  <2> QED
    BY <1>2, <1>3, <2>1 DEF SubscribeJobs
<1>8. JobSound(j)'
  <2>1. (jobs[j].kind = "inline" =>
          /\ phase[jobs[j].sock] = "connecting"
          /\ jobs[j].chan = Organisation
          /\ jobs[j].step # "told"
          /\ \A i \in Jobs : jobs[i].kind = "inline" /\ jobs[i].sock = jobs[j].sock => i = j)'
    BY <1>2, <1>3, <1>7 DEF JobSound
  <2>2. (/\ jobs[j].kind = "subscribe" =>
              phase[jobs[j].sock] \in {"open", "gone"} /\ jobs[j].chan # Organisation
         /\ jobs[j].kind = "recheck" =>
              phase[jobs[j].sock] \in {"open", "gone"} /\ removal # "none")'
    BY <1>2, <1>3, <1>7 DEF JobSound
  <2>3. \A w \in Range(q) : w =< version[jobs[j].chan]
    BY <1>2, <1>3, <1>4, <1>5 DEF JobSound
  <2>4. (Builds(j) =>
          /\ jobs[j].step \in {"queued", "allowed"} => jobs[j].snap = <<>>
          /\ jobs[j].step = "told" => jobs[j].snap # <<>>
          /\ \A w \in Range(jobs[j].snap) : w =< version[jobs[j].chan])'
    BY <1>2, <1>7, <2>3
  <2> QED
    BY <2>1, <2>2, <2>4 DEF JobSound
<1> QED
    BY <1>2, <1>3, <1>6, <1>7, <1>8, JobMoves

\* The consumer is told of the subscription, and then of the state.
LEMMA JobTellsShape ==
    ASSUME ShapeInv, TypeOK', NEW j \in Jobs, JobTell(j) \/ JobState(j)
    PROVE  ShapeInv'
<1>1. TypeOK
    BY DEF ShapeInv
<1>2. /\ Builds(j) /\ jobs[j].kind = "subscribe"
      /\ UNCHANGED <<version, unsent, seen, roles, removal, phase, subs, asked, group>>
    BY DEF JobTell, JobState, Builds
<1> DEFINE s == jobs[j].sock
<1>3. /\ JobSound(j) /\ s \in Sockets /\ jobs[j].chan \in Channels \ {Organisation}
      /\ jobs[j].snap \in Seq(Versions) /\ phase[s] \in {"open", "gone"}
    BY <1>2, BuildingJob
<1>4. ASSUME NEW m \in Messages, Send(s, m), phase[s] = "open" => MessageSound(s, m)
      PROVE  /\ \A t \in Sockets \ {s} : inbox'[t] = inbox[t]
             /\ phase[s] = "gone" => UNCHANGED inbox
             /\ \A x \in Range(inbox'[s]) : x \in Range(inbox[s]) \/ MessageSound(s, x)
  <2>1. /\ \A t \in Sockets \ {s} : inbox'[t] = inbox[t]
        /\ phase[s] = "gone" => UNCHANGED inbox
        /\ Range(inbox'[s]) \subseteq Range(inbox[s]) \cup {m}
    BY <1>1, <1>3, <1>4, SentSound DEF Send
  <2> QED
    BY <1>3, <1>4, <2>1
<1>5. CASE JobTell(j)
  <2> DEFINE m == [type |-> "subscribed", chan |-> jobs[j].chan]
  <2>1. m \in Messages /\ Send(s, m)
    BY <1>3, <1>5, MessageTypes DEF JobTell
  <2>2. phase[s] = "open" => MessageSound(s, m)
    BY <1>3 DEF MessageSound
  <2> HIDE DEF m
  <2>3. /\ \A t \in Sockets \ {s} : inbox'[t] = inbox[t]
        /\ phase[s] = "gone" => UNCHANGED inbox
        /\ \A x \in Range(inbox'[s]) : x \in Range(inbox[s]) \/ MessageSound(s, x)
    BY <1>4, <2>1, <2>2
  <2>4. jobs' = [jobs EXCEPT ![j].step = "told"] /\ Len(jobs[j].snap) = NumCollectors
    BY <1>5 DEF JobTell, Collected
  <2>5. /\ jobs'[j].kind = jobs[j].kind /\ jobs'[j].sock = jobs[j].sock
        /\ jobs'[j].chan = jobs[j].chan /\ jobs'[j].snap = jobs[j].snap
        /\ jobs'[j].step = "told"
        /\ \A i \in Jobs \ {j} : jobs'[i] = jobs[i]
        /\ \E x : jobs' = [jobs EXCEPT ![j] = x]
    BY <1>1, <1>2, <2>4, Stepped
  <2>6. jobs[j].snap # <<>>
    BY <2>4, BoundsAssumption
  <2>7. JobSound(j)'
    BY <1>2, <1>3, <2>5, <2>6 DEF JobSound, Builds
  <2> QED
    BY <1>2, <1>3, <2>3, <2>5, <2>7, JobMoves
<1>6. CASE JobState(j)
  <2> DEFINE m == [type |-> "state", chan |-> jobs[j].chan, snap |-> jobs[j].snap]
  <2>1. m \in Messages /\ Send(s, m)
    BY <1>3, <1>6, MessageTypes DEF JobState
  <2>2. phase[s] = "open" => MessageSound(s, m)
    BY <1>2, <1>3, <1>6 DEF MessageSound, JobSound, JobState
  <2> HIDE DEF m
  <2>3. /\ \A t \in Sockets \ {s} : inbox'[t] = inbox[t]
        /\ phase[s] = "gone" => UNCHANGED inbox
        /\ \A x \in Range(inbox'[s]) : x \in Range(inbox[s]) \/ MessageSound(s, x)
    BY <1>4, <2>1, <2>2
  <2>4. jobs'[j] = NoJob /\ \E x : jobs' = [jobs EXCEPT ![j] = x]
    BY <1>1, <1>6, Freed DEF JobState
  <2> QED
    BY <1>2, <1>3, <2>3, <2>4, JobMoves
<1> QED
    BY <1>5, <1>6

\* A socket opens when its inline job is done, and has no other.
LEMMA InlineDoneShape ==
    ASSUME ShapeInv, TypeOK', NEW j \in Jobs, InlineDone(j)
    PROVE  ShapeInv'
<1>1. TypeOK /\ VersionsSound /\ (\A i \in Jobs : JobSound(i)) /\ \A t \in Sockets : SocketSound(t)
    BY DEF ShapeInv
<1> DEFINE s == jobs[j].sock
           c == jobs[j].chan
           v == Min(Range(jobs[j].snap))
<1>2. /\ jobs[j].kind = "inline" /\ Builds(j) /\ Len(jobs[j].snap) = NumCollectors
      /\ subs' = [subs EXCEPT ![s] = @ \cup {c}]
      /\ seen' = [seen EXCEPT ![s][c] = Newest(@, v)]
      /\ phase' = [phase EXCEPT ![s] = "open"]
      /\ Free(j)
      /\ UNCHANGED <<version, unsent, roles, removal, group, inbox, asked>>
    BY DEF InlineDone, Builds, Collected
<1>3. /\ s \in Sockets /\ c \in Channels /\ phase[s] = "connecting" /\ jobs[j] # NoJob
      /\ jobs[j].snap \in Seq(Versions) /\ JobSound(j)
    BY <1>2, BuildingJob
<1>4. v =< version[c]
  <2>1. jobs[j].snap # <<>>
    BY <1>2, BoundsAssumption
  <2> QED
    BY <1>2, <1>3, <2>1, OldestPart DEF JobSound
<1>5. \A k \in Channels : version[k] =< version'[k]
    BY <1>1, <1>2, BoundsAssumption DEF TypeOK, Versions
<1> HIDE DEF s, c, v
<1>6. VersionsSound'
  <2>1. Newest(seen[s][c], v) = seen[s][c] \/ Newest(seen[s][c], v) =< version[c]
    BY <1>4 DEF Newest
  <2>2. \A t \in Sockets, k \in Channels : seen'[t][k] = seen[t][k] \/ seen'[t][k] =< version[k]
    BY <1>1, <1>2, <1>3, <2>1 DEF TypeOK
  <2>3. ~roles' => removal' = "done"
    BY <1>1, <1>2 DEF VersionsSound
  <2> QED
    BY <1>2, <2>2, <2>3, VersionsStay
<1>7. /\ jobs'[j] = NoJob /\ \A i \in Jobs \ {j} : jobs'[i] = jobs[i]
      /\ phase'[s] = "open" /\ \A t \in Sockets \ {s} : phase'[t] = phase[t] /\ subs'[t] = subs[t]
    BY <1>1, <1>2, <1>3, Freed DEF TypeOK
<1>8. ASSUME NEW i \in Jobs PROVE JobSound(i)'
  <2>1. CASE jobs'[i] = NoJob
    BY <1>2, <1>5, <2>1, SoundStays
  <2>2. CASE jobs'[i] # NoJob
    <3>1. i # j /\ jobs'[i] = jobs[i] /\ jobs[i].sock \in Sockets /\ JobSound(i)
        BY <1>1, <1>7, <2>2, JobTypes
    <3>2. jobs[i].kind \in {"recheck", "subscribe", "inline"}
        BY <1>1, <2>2, <3>1, JobTypes
    <3>3. jobs[i].sock # s
        BY <1>2, <1>3, <3>1, <3>2 DEF JobSound, s
    <3>4. \A k \in Jobs : jobs'[k].kind = "inline" =>
              jobs[k].kind = "inline" /\ jobs[k].sock = jobs'[k].sock
        BY <1>7 DEF NoJob
    <3> QED
        BY <1>2, <1>5, <1>7, <3>1, <3>3, <3>4, SoundStays
  <2> QED
    BY <2>1, <2>2
<1>9. ASSUME NEW t \in Sockets PROVE SocketSound(t)'
  <2>1. SocketSound(t)
    BY <1>1
  <2>2. CASE t = s
    <3>1. phase[t] = "connecting" /\ phase'[t] = "open"
        BY <1>3, <1>7, <2>2
    <3>2. \A m : MessageSound(t, m) => MessageSound(t, m)'
        BY <1>2, <3>1 DEF MessageSound
    <3> QED
        BY <1>2, <2>1, <3>1, <3>2 DEF SocketSound
  <2>3. CASE t # s
    <3>1. \A i \in Jobs : WorksFor(i, t)' => WorksFor(i, t)
        BY <1>7 DEF WorksFor
    <3>2. \A m : MessageSound(t, m) => MessageSound(t, m)'
        BY <1>2, <1>7, <2>3 DEF MessageSound
    <3> QED
        BY <1>2, <1>7, <2>1, <2>3, <3>1, <3>2, ChannelsAssumption DEF SocketSound
  <2> QED
    BY <2>2, <2>3
<1> QED
    BY <1>6, <1>8, <1>9 DEF ShapeInv

\* A recheck takes away only what needs the role.
LEMMA RecheckShape ==
    ASSUME ShapeInv, TypeOK', NEW j \in Jobs, RecheckRef(j)
    PROVE  ShapeInv'
<1>1. TypeOK /\ VersionsSound /\ (\A i \in Jobs : JobSound(i)) /\ \A t \in Sockets : SocketSound(t)
    BY DEF ShapeInv
<1> DEFINE s == jobs[j].sock
<1>2. /\ jobs[j].kind = "recheck" /\ jobs[j] \in RecheckJobs /\ jobs[j] # NoJob /\ s \in Sockets
      /\ phase[s] \in {"open", "gone"} /\ removal # "none"
      /\ UNCHANGED <<version, unsent, roles, removal, phase, subs, seen, asked>>
    BY <1>1, JobTypes DEF RecheckRef, JobSound, NoJob
<1>3. PICK c \in jobs[j].refs : LooksAt(j, c)
    BY DEF RecheckRef, LooksAt
<1>4. c \in Channels
    BY <1>2 DEF RecheckJobs
<1>5. VersionsSound'
    BY <1>1, <1>2 DEF VersionsSound
<1>6. \A k \in Channels : version[k] =< version'[k]
    BY <1>1, <1>2, BoundsAssumption DEF TypeOK, Versions
<1>7. /\ jobs'[j] = NoJob \/ (jobs'[j].kind = "recheck" /\ jobs'[j].sock = s)
      /\ \A i \in Jobs \ {j} : jobs'[i] = jobs[i]
  <2> DEFINE x == IF jobs[j].refs \ {c} = {} THEN NoJob ELSE [jobs[j] EXCEPT !.refs = jobs[j].refs \ {c}]
  <2>1. jobs' = [jobs EXCEPT ![j] = x]
    BY <1>3 DEF LooksAt
  <2>2. x = NoJob \/ (x.kind = "recheck" /\ x.sock = s)
    BY <1>2 DEF RecheckJobs
  <2> HIDE DEF x
  <2>3. jobs'[j] = x /\ \A i \in Jobs \ {j} : jobs'[i] = jobs[i]
    BY <1>1, <2>1 DEF TypeOK
  <2> QED
    BY <2>2, <2>3
<1>8. \A t \in Sockets, k \in Channels : t \in group'[k] => t \in group[k]
  <2>1. CASE UNCHANGED group
    BY <2>1
  <2>2. CASE group' = [group EXCEPT ![c] = @ \ {jobs[j].sock}]
    BY <1>1, <1>4, <2>2 DEF TypeOK
  <2> QED
    BY <1>3, <2>1, <2>2 DEF LooksAt
<1>9. /\ \A t \in Sockets \ {s} : inbox'[t] = inbox[t]
      /\ phase[s] = "gone" => inbox'[s] = inbox[s]
      /\ \A m \in Range(inbox'[s]) : m \in Range(inbox[s]) \/ MessageSound(s, m)
  <2>1. CASE UNCHANGED inbox
    BY <2>1
  <2>2. CASE ~AllowSubscribe(c) /\ Send(s, [type |-> "left", chan |-> c])
    <3> DEFINE m == [type |-> "left", chan |-> c]
    <3>1. m \in Messages
        BY <1>4, MessageTypes
    <3>2. phase[s] = "open" => MessageSound(s, m)
        BY <1>2, <2>2 DEF MessageSound, AllowSubscribe
    <3>3. Send(s, m)
        BY <2>2
    <3> HIDE DEF m
    <3>4. /\ \A t \in Sockets \ {s} : inbox'[t] = inbox[t]
          /\ phase[s] = "gone" => inbox'[s] = inbox[s]
          /\ Range(inbox'[s]) \subseteq Range(inbox[s]) \cup {m}
        BY <1>1, <1>2, <3>1, <3>3, SentSound
    <3> QED
        BY <1>2, <3>2, <3>4
  <2> QED
    BY <1>3, <2>1, <2>2 DEF LooksAt
<1>10. ASSUME NEW i \in Jobs PROVE JobSound(i)'
  <2>1. CASE jobs'[i] = NoJob
    BY <1>2, <1>6, <2>1, SoundStays
  <2>2. CASE jobs'[i] # NoJob /\ i = j
    BY <1>2, <1>7, <2>2 DEF JobSound, Builds
  <2>3. CASE i # j
    <3>1. \A k \in Jobs : jobs'[k].kind = "inline" =>
              jobs[k].kind = "inline" /\ jobs[k].sock = jobs'[k].sock
        BY <1>7 DEF NoJob
    <3> QED
        BY <1>2, <1>6, <1>7, <2>3, <3>1, SoundStays
  <2> QED
    BY <2>1, <2>2, <2>3
<1>11. ASSUME NEW t \in Sockets PROVE SocketSound(t)'
  <2>1. SocketSound(t) /\ \A m : MessageSound(t, m) => MessageSound(t, m)'
    BY <1>1, <1>2 DEF MessageSound
  <2>2. \A m \in Range(inbox'[t]) : MessageSound(t, m)'
    BY <1>9, <2>1 DEF SocketSound
  <2>3. \A i \in Jobs : WorksFor(i, t)' => WorksFor(i, t)
    BY <1>2, <1>7 DEF WorksFor
  <2> QED
    BY <1>2, <1>8, <1>9, <2>1, <2>2, <2>3, ChannelsAssumption DEF SocketSound
<1> QED
    BY <1>5, <1>10, <1>11 DEF ShapeInv

\* A request of the client, a channel left, a lost job.
LEMMA RequestsShape ==
    ASSUME ShapeInv, TypeOK',
           \/ \E s \in Sockets : \/ GroupExpiry(s)
                               \/ \E c \in Channels : Subscribe(s, c) \/ Leave(s, c)
           \/ \E j \in Jobs : JobExpires(j) \/ JobDies(j)
    PROVE  ShapeInv'
<1>1. TypeOK /\ VersionsSound /\ \A t \in Sockets : SocketSound(t)
    BY DEF ShapeInv
<1>2. \A c \in Channels : version[c] \in Nat /\ version[c] =< version[c]
    BY <1>1, BoundsAssumption DEF TypeOK, Versions
<1>3. UNCHANGED <<version, unsent, roles, removal, seen>> => VersionsSound'
    BY <1>1 DEF VersionsSound
<1>4. ASSUME NEW s \in Sockets, NEW c \in Channels, Subscribe(s, c) PROVE ShapeInv'
  <2> DEFINE job == [kind |-> "subscribe", sock |-> s, chan |-> c,
                     step |-> "queued", snap |-> <<>>]
  <2>1. /\ Enqueue(job) /\ phase[s] = "open" /\ c # Organisation
        /\ asked' = [asked EXCEPT ![s] = @ \cup {c}]
        /\ UNCHANGED <<version, unsent, roles, removal, phase, group, subs, inbox, seen>>
    BY <1>4 DEF Subscribe
  <2>2. /\ job # NoJob /\ job.sock = s /\ job.kind = "subscribe"
        /\ job.chan = c /\ job.step = "queued" /\ job.snap = <<>>
    BY DEF NoJob
  <2> HIDE DEF job
  <2>3. \A t \in Sockets \ {s} : asked'[t] = asked[t]
    BY <1>1, <2>1 DEF TypeOK
  <2>4. \A m \in Range(inbox'[s]) : MessageSound(s, m)
    BY <1>1, <2>1 DEF SocketSound
  <2>5. VersionsSound'
    BY <1>3, <2>1
  <2> QED
    BY <2>1, <2>2, <2>3, <2>4, <2>5, EnqueueShape
<1>5. ASSUME NEW s \in Sockets, NEW c \in Channels, Leave(s, c) PROVE ShapeInv'
  <2>1. /\ phase[s] = "open"
        /\ group' = [group EXCEPT ![c] = @ \ {s}]
        /\ subs' = [subs EXCEPT ![s] = @ \ {c}]
        /\ seen' = [seen EXCEPT ![s][c] = Nothing]
        /\ asked' = [asked EXCEPT ![s] = @ \ {c}]
        /\ UNCHANGED <<version, unsent, roles, removal, phase, inbox, jobs>>
    BY <1>5 DEF Leave
  <2>2. VersionsSound'
    <3>1. \A t \in Sockets, k \in Channels : seen'[t][k] = seen[t][k] \/ seen'[t][k] = Nothing
        BY <1>1, <2>1 DEF TypeOK
    <3>2. \A k \in Channels : Nothing =< version[k]
        BY <1>2 DEF Nothing
    <3>3. ~roles' => removal' = "done"
        BY <1>1, <2>1 DEF VersionsSound
    <3> QED
        BY <2>1, <3>1, <3>2, <3>3, VersionsStay
  <2>3. \A t \in Sockets, k \in Channels : t \in group'[k] => t \in group[k]
    BY <1>1, <2>1 DEF TypeOK
  <2>4. \A t \in Sockets : asked'[t] \subseteq asked[t] /\ (phase[t] # "open" => subs'[t] = subs[t])
    BY <1>1, <2>1 DEF TypeOK
  <2> QED
    BY <1>2, <2>1, <2>2, <2>3, <2>4, ShapeStays
<1>6. ASSUME NEW s \in Sockets, GroupExpiry(s) PROVE ShapeInv'
  <2>1. /\ group' = [k \in Channels |-> group[k] \ {s}]
        /\ UNCHANGED <<version, unsent, roles, removal, seen, phase, subs, inbox, jobs, asked>>
    BY <1>6 DEF GroupExpiry
  <2>2. \A t \in Sockets, k \in Channels : t \in group'[k] => t \in group[k]
    BY <2>1
  <2> QED
    BY <1>2, <1>3, <2>1, <2>2, ShapeStays
<1>7. ASSUME NEW j \in Jobs, JobExpires(j) \/ JobDies(j) PROVE ShapeInv'
  <2>1. /\ Free(j)
        /\ UNCHANGED <<version, unsent, roles, removal, seen, phase, group, subs, inbox, asked>>
    BY <1>7 DEF JobExpires, JobDies
  <2>2. \A i \in Jobs : jobs'[i] = jobs[i] \/ jobs'[i] = NoJob
    BY <1>1, <2>1, Freed
  <2> QED
    BY <1>2, <1>3, <2>1, <2>2, ShapeStays
<1> QED
    BY <1>4, <1>5, <1>6, <1>7

\* What commits, is published, and is done to the roles.
LEMMA OthersShape ==
    ASSUME ShapeInv, TypeOK', NEW c \in Channels, NEW v \in Versions,
           Commit(c) \/ Publish(c, v) \/ RemoveRoles \/ RemoveRolesCommits \/ AddRoles
    PROVE  ShapeInv'
<1>1. TypeOK /\ VersionsSound /\ \A t \in Sockets : SocketSound(t)
    BY DEF ShapeInv
<1>2. \A k \in Channels : version[k] \in Nat /\ version[k] =< version[k]
    BY <1>1, BoundsAssumption DEF TypeOK, Versions
<1>3. UNCHANGED <<phase, group, subs, jobs, asked, seen>>
    BY DEF Commit, Publish, RemoveRoles, RemoveRolesCommits, AddRoles
<1>4. CASE Commit(c)
  <2>1. /\ version' = [version EXCEPT ![c] = @ + 1]
        /\ unsent' = [unsent EXCEPT ![c] = @ \cup {version[c] + 1}]
        /\ UNCHANGED <<roles, removal, inbox>>
    BY <1>4 DEF Commit
  <2>2. \A k \in Channels : version'[k] \in Nat /\ version[k] =< version'[k]
    BY <1>1, <1>2, <2>1 DEF TypeOK
  <2>3. VersionsSound'
    <3>1. ASSUME NEW k \in Channels, NEW w \in unsent'[k] PROVE w =< version'[k]
        <4>1. unsent[k] \subseteq Nat
            BY <1>1, BoundsAssumption DEF TypeOK, Versions
        <4>2. CASE k = c
            <5>1. unsent'[c] = unsent[c] \cup {version[c] + 1} /\ version'[c] = version[c] + 1
                BY <1>1, <2>1 DEF TypeOK
            <5>2. CASE w = version[c] + 1
                BY <2>2, <4>2, <5>1, <5>2
            <5>3. CASE w \in unsent[c]
                <6>1. w =< version[c] /\ w \in Nat
                    BY <1>1, <4>1, <4>2, <5>3 DEF VersionsSound
                <6> QED
                    BY <1>2, <2>2, <4>2, <6>1
            <5> QED
                BY <3>1, <4>2, <5>1, <5>2, <5>3
        <4>3. CASE k # c
            <5>1. unsent'[k] = unsent[k] /\ version'[k] = version[k]
                BY <1>1, <2>1, <4>3 DEF TypeOK
            <5> QED
                BY <1>1, <3>1, <5>1 DEF VersionsSound
        <4> QED
            BY <4>2, <4>3
    <3>2. ASSUME NEW t \in Sockets, NEW k \in Channels PROVE seen'[t][k] =< version'[k]
        <4>1. seen[t][k] \in Int /\ seen[t][k] =< version[k]
            BY <1>1, BoundsAssumption DEF TypeOK, Versions, Nothing, VersionsSound
        <4> QED
            BY <1>2, <1>3, <2>2, <4>1
    <3> QED
        BY <1>1, <2>1, <3>1, <3>2 DEF VersionsSound
  <2> QED
    BY <1>3, <2>1, <2>2, <2>3, ShapeStays
<1>5. CASE Publish(c, v)
  <2>1. /\ v \in unsent[c]
        /\ unsent' = [unsent EXCEPT ![c] = @ \ {v}]
        /\ UNCHANGED <<version, roles, removal>>
    BY <1>5 DEF Publish
  <2>2. VersionsSound'
    <3>1. \A k \in Channels : unsent'[k] \subseteq unsent[k]
        BY <1>1, <2>1 DEF TypeOK
    <3>2. ~roles' => removal' = "done"
        BY <1>1, <2>1 DEF VersionsSound
    <3> QED
        BY <1>3, <2>1, <3>1, <3>2, VersionsStay
  <2> DEFINE m == [type |-> "update", chan |-> c, version |-> v]
  <2>3. m \in Messages /\ \A t \in Sockets : MessageSound(t, m)
    BY <1>1, <2>1, MessageTypes DEF MessageSound, VersionsSound
  <2>4. \A t \in Sockets : inbox'[t] = IF t \in group[c] /\ phase[t] # "gone"
                                      THEN Append(inbox[t], m) ELSE inbox[t]
    BY <1>1, <1>5, Published
  <2> HIDE DEF m
  <2>5. \A t \in Sockets : \A x : MessageSound(t, x) => MessageSound(t, x)'
    BY <1>3, <2>1 DEF MessageSound
  <2>6. ASSUME NEW t \in Sockets, NEW x \in Range(inbox'[t])
        PROVE  x \in Range(inbox[t]) \/ MessageSound(t, x)'
    <3>1. inbox[t] \in Seq(Messages)
        BY <1>1 DEF TypeOK
    <3>2. Range(Append(inbox[t], m)) = Range(inbox[t]) \cup {m}
        BY <2>3, <3>1, RangeOfAppend
    <3>3. x \in Range(inbox[t]) \/ x = m
        BY <2>4, <2>6, <3>2
    <3> QED
        BY <2>3, <2>5, <3>3
  <2>7. \A t \in Sockets : phase[t] \in {"new", "gone"} => inbox'[t] = inbox[t]
    <3>1. \A t \in Sockets : phase[t] = "new" => t \notin group[c]
        BY <1>1 DEF SocketSound
    <3> QED
        BY <2>4, <3>1
  <2> QED
    BY <1>2, <1>3, <2>1, <2>2, <2>6, <2>7, ShapeStays
<1>6. CASE RemoveRoles
  <2>1. /\ removal = "none" /\ removal' = "open"
        /\ UNCHANGED <<version, unsent, roles>>
    BY <1>6 DEF RemoveRoles
  <2>2. VersionsSound'
    BY <1>1, <1>3, <2>1 DEF VersionsSound
  <2> DEFINE m == [type |-> "recheck"]
  <2>3. m \in Messages /\ \A t \in Sockets : MessageSound(t, m)'
    BY <2>1, ChannelsAssumption, MessageTypes DEF MessageSound
  <2>4. \A t \in Sockets : inbox'[t] = IF phase[t] \in {"connecting", "open"}
                                      THEN Append(inbox[t], m) ELSE inbox[t]
    BY <1>6 DEF RemoveRoles
  <2> HIDE DEF m
  <2>5. ASSUME NEW t \in Sockets, NEW x \in Range(inbox'[t])
        PROVE  x \in Range(inbox[t]) \/ MessageSound(t, x)'
    <3>1. inbox[t] \in Seq(Messages)
        BY <1>1 DEF TypeOK
    <3>2. Range(Append(inbox[t], m)) = Range(inbox[t]) \cup {m}
        BY <2>3, <3>1, RangeOfAppend
    <3>3. x \in Range(inbox[t]) \/ x = m
        BY <2>4, <2>5, <3>2
    <3> QED
        BY <2>3, <3>3
  <2>6. \A t \in Sockets : phase[t] \in {"new", "gone"} => inbox'[t] = inbox[t]
    BY <2>4
  <2> QED
    BY <1>2, <1>3, <2>1, <2>2, <2>5, <2>6, ShapeStays
<1>7. CASE RemoveRolesCommits \/ AddRoles
  <2>1. /\ UNCHANGED <<version, unsent, inbox>>
        /\ removal # "none" => removal' # "none"
        /\ ~roles' => removal' = "done"
    BY <1>1, <1>7 DEF RemoveRolesCommits, AddRoles, VersionsSound
  <2>2. VersionsSound'
    BY <1>1, <1>3, <2>1 DEF VersionsSound
  <2> QED
    BY <1>2, <1>3, <2>1, <2>2, ShapeStays
<1> QED
    BY <1>4, <1>5, <1>6, <1>7

\* Nothing is there at the start.
LEMMA ShapeBegins == Init => ShapeInv
<1> SUFFICES ASSUME Init PROVE ShapeInv
    OBVIOUS
<1>1. 0 \in Versions /\ 0 \in 0..MaxAsks
    BY BoundsAssumption DEF Versions
<1>2. TypeOK
    BY <1>1 DEF Init, TypeOK, Phases
<1>3. VersionsSound
    BY DEF Init, VersionsSound, Nothing
<1>4. \A j \in Jobs : JobSound(j)
    BY DEF Init, JobSound, Builds, NoJob
<1>5. Range(<<>>) = {}
    BY DEF Range
<1>6. \A s \in Sockets : SocketSound(s)
    BY <1>5, ChannelsAssumption DEF Init, SocketSound, WorksFor
<1> QED
    BY <1>2, <1>3, <1>4, <1>6 DEF ShapeInv

\* Every step keeps what jobs, messages and sockets look like.
LEMMA ShapeKept == ShapeInv /\ [Next]_vars => ShapeInv'
<1> SUFFICES ASSUME ShapeInv, [Next]_vars PROVE ShapeInv'
    OBVIOUS
<1>1. TypeOK'
    BY TypeKept
<1>2. ASSUME NEW s \in Sockets, Connect(s) PROVE ShapeInv'
    BY <1>1, <1>2, ConnectShape
<1>3. ASSUME NEW s \in Sockets, Disconnect(s) \/ Crash(s) PROVE ShapeInv'
    BY <1>1, <1>3, GoneShape
<1>4. ASSUME NEW s \in Sockets, Deliver(s) PROVE ShapeInv'
    BY <1>1, <1>4, DeliverShape
<1>5. ASSUME NEW s \in Sockets,
             GroupExpiry(s) \/ \E c \in Channels : Subscribe(s, c) \/ Leave(s, c)
      PROVE  ShapeInv'
    BY <1>1, <1>5, RequestsShape
<1>6. ASSUME NEW j \in Jobs, JobStep(j) PROVE ShapeInv'
  <2>1. JobTell(j) \/ JobState(j) => ShapeInv'
    BY <1>1, JobTellsShape
  <2> QED
    BY <1>1, <1>6, <2>1, JobCheckShape, JobJoinShape, JobCollectShape,
       InlineDoneShape, RecheckShape DEF JobStep
<1>7. ASSUME NEW j \in Jobs, JobExpires(j) \/ JobDies(j) PROVE ShapeInv'
    BY <1>1, <1>7, RequestsShape
<1>8. ASSUME NEW c \in Channels, Commit(c) \/ \E v \in Versions : Publish(c, v) PROVE ShapeInv'
    BY <1>1, <1>8, OthersShape, BoundsAssumption DEF Versions
<1>9. ASSUME RemoveRoles \/ RemoveRolesCommits \/ AddRoles PROVE ShapeInv'
    BY <1>1, <1>9, OthersShape, ChannelsAssumption, BoundsAssumption DEF Versions
<1>10. CASE UNCHANGED vars
    BY <1>1, <1>10 DEF vars, ShapeInv, VersionsSound, JobSound, Builds, SocketSound, WorksFor, MessageSound
<1> QED
    BY <1>2, <1>3, <1>4, <1>5, <1>6, <1>7, <1>8, <1>9, <1>10 DEF Next

-----------------------------------------------------------------------------
(* Whoever is in a group tracks it, or is about to *)

\* A step that leaves the jobs that collect, sends nothing that takes the channel
\* away and lets the consumer track what it tracks.
LEMMA SecuredStays ==
    ASSUME TypeOK, NEW s \in Sockets, NEW c \in Channels, Secured(s, c),
           \A j \in Jobs : Builds(j) /\ jobs[j].step = "collect"
                               /\ jobs[j].sock = s /\ jobs[j].chan = c =>
               /\ jobs'[j].kind = jobs[j].kind /\ jobs'[j].sock = jobs[j].sock
               /\ jobs'[j].chan = jobs[j].chan /\ jobs'[j].step = "collect",
           \/ inbox'[s] = inbox[s]
           \/ \E m \in Messages : inbox'[s] = Append(inbox[s], m) /\ ~(m.type = "left" /\ m.chan = c),
           c \in subs[s] => c \in subs'[s]
    PROVE  Secured(s, c)'
<1>1. CASE \E j \in SubscribeJobsOf(s, c) : jobs[j].step = "collect"
    BY <1>1 DEF Secured, SubscribeJobsOf, Builds
<1>2. CASE ~ \E j \in SubscribeJobsOf(s, c) : jobs[j].step = "collect"
  <2>1. \/ \E i \in DOMAIN inbox[s] : /\ IsAt(s, i, "subscribed", c)
                                      /\ \A k \in DOMAIN inbox[s] : IsAt(s, k, "left", c) => k < i
        \/ c \in subs[s] /\ ~Waiting(s, "left", c)
    BY <1>2 DEF Secured
  <2>2. CASE inbox'[s] = inbox[s]
    BY <2>1, <2>2 DEF Secured, IsAt, Waiting
  <2>3. CASE \E m \in Messages : inbox'[s] = Append(inbox[s], m) /\ ~(m.type = "left" /\ m.chan = c)
    <3>1. PICK m \in Messages : inbox'[s] = Append(inbox[s], m) /\ ~(m.type = "left" /\ m.chan = c)
        BY <2>3
    <3>2. /\ Len(inbox[s]) \in Nat
          /\ DOMAIN inbox[s] = 1..Len(inbox[s])
          /\ DOMAIN inbox'[s] = 1..(Len(inbox[s]) + 1)
          /\ inbox'[s][Len(inbox[s]) + 1] = m
          /\ \A i \in 1..Len(inbox[s]) : inbox'[s][i] = inbox[s][i]
        BY <3>1, Appended DEF TypeOK
    <3>3. \A k \in DOMAIN inbox'[s] : IsAt(s, k, "left", c)' =>
              k \in DOMAIN inbox[s] /\ IsAt(s, k, "left", c)
        BY <3>1, <3>2 DEF IsAt
    <3>4. \A k \in DOMAIN inbox[s] : IsAt(s, k, "subscribed", c) =>
              k \in DOMAIN inbox'[s] /\ IsAt(s, k, "subscribed", c)'
        BY <3>2 DEF IsAt
    <3>5. Waiting(s, "left", c)' => Waiting(s, "left", c)
        BY <3>3 DEF IsAt, Waiting
    <3> QED
        BY <2>1, <3>3, <3>4, <3>5 DEF Secured
  <2> QED
    BY <2>2, <2>3
<1> QED
    BY <1>1, <1>2

\* The news of a subscription that is sent last secures it.
LEMMA ToldLast ==
    ASSUME TypeOK, NEW s \in Sockets, NEW c \in Channels,
           inbox'[s] = Append(inbox[s], [type |-> "subscribed", chan |-> c])
    PROVE  Secured(s, c)'
<1> DEFINE m == [type |-> "subscribed", chan |-> c]
<1>1. m \in Messages /\ m.type = "subscribed" /\ m.chan = c
    BY MessageTypes
<1> HIDE DEF m
<1>2. /\ Len(inbox[s]) \in Nat
      /\ DOMAIN inbox[s] = 1..Len(inbox[s])
      /\ DOMAIN inbox'[s] = 1..(Len(inbox[s]) + 1)
      /\ inbox'[s][Len(inbox[s]) + 1] = m
    BY <1>1, Appended DEF TypeOK, m
<1>3. PICK n \in Nat : n = Len(inbox[s]) + 1
    BY <1>2
<1>4. n \in DOMAIN inbox'[s] /\ inbox'[s][n] = m /\ \A k \in DOMAIN inbox'[s] : k =< n
    BY <1>2, <1>3
<1>5. \A k \in DOMAIN inbox'[s] : IsAt(s, k, "left", c)' => k < n
    BY <1>1, <1>2, <1>3, <1>4 DEF IsAt
<1>6. IsAt(s, n, "subscribed", c)'
    BY <1>1, <1>4 DEF IsAt
<1> QED
    BY <1>4, <1>5, <1>6 DEF Secured

\* What a consumer handles does not take away what is secured.
LEMMA DeliverSecured ==
    ASSUME ShapeInv, NEW s \in Sockets, NEW c \in Channels, Deliver(s), Secured(s, c)
    PROVE  Secured(s, c)'
<1>1. TypeOK
    BY DEF ShapeInv
<1> DEFINE m == Head(inbox[s])
<1>2. /\ inbox[s] \in Seq(Messages) /\ inbox[s] # <<>>
      /\ inbox' = [inbox EXCEPT ![s] = Tail(@)]
    BY <1>1 DEF Deliver, TypeOK
<1>3. inbox'[s] = Tail(inbox[s])
    BY <1>1, <1>2 DEF TypeOK
<1>4. \/ OnSubscribed(s, m) \/ OnState(s, m) \/ OnSubscribeError(s, m)
      \/ OnLeft(s, m) \/ OnUpdate(s, m) \/ Recheck(s, m)
    BY DEF Deliver
<1>5. /\ Len(inbox[s]) \in Nat \ {0} /\ DOMAIN inbox[s] = 1..Len(inbox[s])
      /\ m = inbox[s][1] /\ m \in Messages
      /\ DOMAIN inbox'[s] = 1..(Len(inbox[s]) - 1)
      /\ \A i \in 1..(Len(inbox[s]) - 1) : inbox'[s][i] = inbox[s][i + 1]
    BY <1>2, <1>3, InboxHead
<1> HIDE DEF m
<1>6. \A k \in DOMAIN inbox'[s] : IsAt(s, k, "left", c)' =>
          k + 1 \in DOMAIN inbox[s] /\ IsAt(s, k + 1, "left", c)
    BY <1>5 DEF IsAt
<1>7. CASE \E j \in SubscribeJobsOf(s, c) : jobs[j].step = "collect"
  <2>1. \A j \in Jobs : jobs[j] # NoJob => jobs'[j] = jobs[j]
    <3>1. CASE Recheck(s, m)
        <4>1. CASE UNCHANGED jobs
            BY <4>1
        <4>2. CASE Enqueue([kind |-> "recheck", sock |-> s, refs |-> subs[s]])
            BY <1>1, <4>2, Enqueued DEF TypeOK
        <4> QED
            BY <3>1, <4>1, <4>2 DEF Recheck
    <3> QED
        BY <1>4, <3>1 DEF OnSubscribed, OnState, OnSubscribeError, OnLeft, OnUpdate
  <2> QED
    BY <1>7, <2>1 DEF Secured, SubscribeJobsOf, NoJob
<1>8. CASE \E i \in DOMAIN inbox[s] : /\ IsAt(s, i, "subscribed", c)
                                      /\ \A k \in DOMAIN inbox[s] : IsAt(s, k, "left", c) => k < i
  <2>1. PICK i \in DOMAIN inbox[s] : /\ IsAt(s, i, "subscribed", c)
                                     /\ \A k \in DOMAIN inbox[s] : IsAt(s, k, "left", c) => k < i
    BY <1>8
  <2>2. CASE i = 1
    <3>1. m.type = "subscribed" /\ m.chan = c
        BY <1>5, <2>1, <2>2 DEF IsAt
    <3>2. c \in subs'[s]
        BY <1>1, <1>4, <3>1
           DEF OnSubscribed, OnState, OnSubscribeError, OnLeft, OnUpdate, Recheck, TypeOK
    <3>3. ~Waiting(s, "left", c)'
        BY <1>5, <1>6, <2>1, <2>2 DEF Waiting, IsAt
    <3> QED
        BY <3>2, <3>3 DEF Secured
  <2>3. CASE i # 1
    <3>1. PICK n \in 1..(Len(inbox[s]) - 1) : i = n + 1
        <4>1. i - 1 \in 1..(Len(inbox[s]) - 1) /\ i = (i - 1) + 1
            BY <1>5, <2>1, <2>3
        <4> QED
            BY <4>1
    <3>2. n \in DOMAIN inbox'[s] /\ IsAt(s, n, "subscribed", c)'
        BY <1>5, <2>1, <3>1 DEF IsAt
    <3>3. \A k \in DOMAIN inbox'[s] : IsAt(s, k, "left", c)' => k < n
        BY <1>5, <1>6, <2>1, <3>1
    <3> QED
        BY <3>2, <3>3 DEF Secured
  <2> QED
    BY <2>2, <2>3
<1>9. CASE c \in subs[s] /\ ~Waiting(s, "left", c)
  <2>1. ~(m.type = "left" /\ m.chan = c)
    BY <1>5, <1>9 DEF Waiting
  <2>2. c \in subs'[s]
    BY <1>1, <1>4, <1>9, <2>1
       DEF OnSubscribed, OnState, OnSubscribeError, OnLeft, OnUpdate, Recheck, TypeOK
  <2>3. ~Waiting(s, "left", c)'
    BY <1>6, <1>9 DEF Waiting, IsAt
  <2> QED
    BY <2>2, <2>3 DEF Secured
<1> QED
    BY <1>7, <1>8, <1>9 DEF Secured

\* A step that lets nobody into a group, drops nothing of an open socket, and
\* leaves alone what secures its subscriptions.
LEMMA JoinedStays ==
    ASSUME ShapeInv, JoinedInv,
           \A s \in Sockets : phase'[s] \in {"connecting", "open"} =>
               /\ phase[s] \in {"connecting", "open"}
               /\ dropped[s] => dropped'[s],
           \A s \in Sockets, c \in Channels :
               phase'[s] \in {"connecting", "open"} /\ s \in group'[c] /\ ~dropped'[s] =>
                   /\ s \in group[c]
                   /\ Secured(s, c) => Secured(s, c)'
    PROVE  JoinedInv'
    BY DEF JoinedInv

\* A new job takes a free place.
LEMMA EnqueueSecured ==
    ASSUME ShapeInv, NEW s \in Sockets, NEW c \in Channels, Secured(s, c),
           NEW job, Enqueue(job), inbox'[s] = inbox[s], c \in subs[s] => c \in subs'[s]
    PROVE  Secured(s, c)'
<1>1. TypeOK
    BY DEF ShapeInv
<1>2. PICK j \in Jobs : jobs[j] = NoJob /\ jobs' = [jobs EXCEPT ![j] = job]
    BY <1>1, Enqueued
<1>3. \A i \in Jobs : Builds(i) => jobs'[i] = jobs[i]
    BY <1>1, <1>2 DEF TypeOK, Builds, NoJob
<1> QED
    BY <1>1, <1>3, SecuredStays

\* The steps of a socket keep its subscriptions secured.
LEMMA SocketJoined ==
    ASSUME ShapeInv, JoinedInv, NEW s \in Sockets,
           \/ Connect(s) \/ Disconnect(s) \/ Crash(s) \/ GroupExpiry(s) \/ Deliver(s)
           \/ \E c \in Channels : Subscribe(s, c) \/ Leave(s, c)
    PROVE  JoinedInv'
<1>1. TypeOK /\ (\A j \in Jobs : JobSound(j)) /\ \A t \in Sockets : SocketSound(t)
    BY DEF ShapeInv
<1>2. CASE Connect(s)
  <2>1. /\ phase[s] = "new" /\ phase' = [phase EXCEPT ![s] = "connecting"]
        /\ subs' = [subs EXCEPT ![s] = {}]
        /\ UNCHANGED <<group, inbox, dropped>>
    BY <1>2 DEF Connect
  <2>2. \A c \in Channels : s \notin group[c]
    BY <1>1, <2>1 DEF SocketSound
  <2>3. \A t \in Sockets \ {s} : phase'[t] = phase[t] /\ subs'[t] = subs[t]
    BY <1>1, <2>1 DEF TypeOK
  <2>4. \A t \in Sockets \ {s}, c \in Channels : Secured(t, c) => Secured(t, c)'
    BY <1>2, <2>1, <2>3, EnqueueSecured DEF Connect
  <2> QED
    BY <2>1, <2>2, <2>3, <2>4 DEF JoinedInv
<1>3. CASE Disconnect(s) \/ Crash(s)
  <2>1. /\ phase' = [phase EXCEPT ![s] = "gone"] /\ inbox' = [inbox EXCEPT ![s] = <<>>]
        /\ UNCHANGED <<subs, dropped>>
    BY <1>3 DEF Disconnect, Crash
  <2>2. /\ phase'[s] = "gone"
        /\ \A t \in Sockets \ {s} : phase'[t] = phase[t] /\ inbox'[t] = inbox[t]
    BY <1>1, <2>1 DEF TypeOK
  <2>3. \A t \in Sockets, c \in Channels : t \in group'[c] => t \in group[c]
    <3>1. CASE Disconnect(s)
        <4>1. \A c \in Channels : group'[c] = IF c \in subs[s] THEN group[c] \ {s} ELSE group[c]
            BY <3>1 DEF Disconnect
        <4> QED
            BY <4>1
    <3>2. CASE Crash(s)
        BY <3>2 DEF Crash
    <3> QED
        BY <1>3, <3>1, <3>2
  <2>4. \A j \in Jobs : jobs[j].sock # s => jobs'[j] = jobs[j]
    BY <1>3 DEF Disconnect, Crash
  <2>5. \A t \in Sockets \ {s}, c \in Channels : Secured(t, c) => Secured(t, c)'
    BY <1>1, <2>1, <2>2, <2>4, SecuredStays
  <2> QED
    BY <2>1, <2>2, <2>3, <2>5, JoinedStays
<1>4. CASE GroupExpiry(s)
  <2>1. UNCHANGED <<phase, jobs, inbox, subs, dropped>>
    BY <1>4 DEF GroupExpiry
  <2>2. \A t \in Sockets, c \in Channels : t \in group'[c] => t \in group[c]
    BY <1>4 DEF GroupExpiry
  <2>3. \A t \in Sockets, c \in Channels : Secured(t, c) => Secured(t, c)'
    BY <1>1, <2>1, SecuredStays
  <2> QED
    BY <2>1, <2>2, <2>3, JoinedStays
<1>5. CASE Deliver(s)
  <2>1. UNCHANGED <<phase, group, dropped>>
    BY <1>5 DEF Deliver
  <2>2. \A c \in Channels : Secured(s, c) => Secured(s, c)'
    BY <1>5, DeliverSecured
  <2>3. \A t \in Sockets \ {s} : inbox'[t] = inbox[t] /\ subs'[t] = subs[t]
    BY <1>1, <1>5 DEF Deliver, OnSubscribed, OnState, OnSubscribeError, OnLeft, OnUpdate,
       Recheck, TypeOK
  <2>4. ASSUME NEW t \in Sockets \ {s}, NEW c \in Channels, Secured(t, c) PROVE Secured(t, c)'
    <3>1. CASE UNCHANGED jobs
        BY <1>1, <2>3, <2>4, <3>1, SecuredStays
    <3>2. CASE Enqueue([kind |-> "recheck", sock |-> s, refs |-> subs[s]])
        BY <2>3, <2>4, <3>2, EnqueueSecured
    <3> QED
        BY <1>5, <3>1, <3>2 DEF Deliver, OnSubscribed, OnState, OnSubscribeError, OnLeft,
           OnUpdate, Recheck
  <2> QED
    BY <2>1, <2>2, <2>4, JoinedStays
<1>6. ASSUME NEW c \in Channels, Subscribe(s, c) PROVE JoinedInv'
  <2>1. UNCHANGED <<phase, group, inbox, subs, dropped>>
    BY <1>6 DEF Subscribe
  <2>2. \A t \in Sockets, k \in Channels : Secured(t, k) => Secured(t, k)'
    BY <1>6, <2>1, EnqueueSecured DEF Subscribe
  <2> QED
    BY <2>1, <2>2, JoinedStays
<1>7. ASSUME NEW c \in Channels, Leave(s, c) PROVE JoinedInv'
  <2>1. /\ group' = [group EXCEPT ![c] = @ \ {s}]
        /\ subs' = [subs EXCEPT ![s] = @ \ {c}]
        /\ UNCHANGED <<phase, inbox, jobs, dropped>>
    BY <1>7 DEF Leave
  <2>2. /\ \A t \in Sockets, k \in Channels : t \in group'[k] => t \in group[k]
        /\ s \notin group'[c]
    BY <1>1, <2>1 DEF TypeOK
  <2>3. \A t \in Sockets, k \in Channels : ~(t = s /\ k = c) /\ k \in subs[t] => k \in subs'[t]
    BY <1>1, <2>1 DEF TypeOK
  <2>4. \A t \in Sockets, k \in Channels : ~(t = s /\ k = c) /\ Secured(t, k) => Secured(t, k)'
    BY <1>1, <2>1, <2>3, SecuredStays
  <2> QED
    BY <2>1, <2>2, <2>4, JoinedStays
<1> QED
    BY <1>2, <1>3, <1>4, <1>5, <1>6, <1>7

\* So do the steps of a job: it tells before it is gone.
LEMMA JobJoined ==
    ASSUME ShapeInv, ShapeInv', JoinedInv, NEW j \in Jobs, JobStep(j) \/ JobExpires(j) \/ JobDies(j)
    PROVE  JoinedInv'
<1>1. TypeOK /\ (\A i \in Jobs : JobSound(i)) /\ \A t \in Sockets : SocketSound(t)
    BY DEF ShapeInv
<1>2. Builds(j) => /\ jobs[j].sock \in Sockets /\ jobs[j].chan \in Channels
                   /\ jobs[j] \in SubscribeJobs /\ jobs[j] # NoJob
    BY BuildingJob
<1>3. ASSUME UNCHANGED <<phase, dropped, subs>>,
             \A i \in Jobs \ {j} : jobs'[i] = jobs[i],
             \A t \in Sockets : \/ inbox'[t] = inbox[t]
                                \/ \E m \in Messages : inbox'[t] = Append(inbox[t], m) /\ m.type # "left"
      PROVE  \A t \in Sockets, c \in Channels : 
                ~(Builds(j) /\ jobs[j].sock = t /\ jobs[j].chan = c /\ jobs[j].step = "collect")
                /\ Secured(t, c) => Secured(t, c)'
    BY <1>1, <1>3, SecuredStays
<1>4. CASE JobExpires(j) \/ JobDies(j)
  <2>1. /\ dropped' = [dropped EXCEPT ![jobs[j].sock] = TRUE] /\ Free(j)
        /\ UNCHANGED <<phase, group, inbox, subs>>
    BY <1>4 DEF JobExpires, JobDies
  <2>2. jobs[j].sock \in Sockets
    BY <1>1, <1>4, JobTypes DEF JobExpires, JobDies, NoJob
  <2>3. \A t \in Sockets : dropped[t] => dropped'[t]
    BY <1>1, <2>1 DEF TypeOK
  <2>4. \A t \in Sockets : ~dropped'[t] => t # jobs[j].sock
    BY <1>1, <2>1 DEF TypeOK
  <2>5. ASSUME NEW t \in Sockets, NEW c \in Channels, ~dropped'[t], Secured(t, c) PROVE Secured(t, c)'
    BY <1>1, <2>1, <2>4, <2>5, Freed, SecuredStays
  <2> QED
    BY <2>1, <2>3, <2>5, JoinedStays
<1>5. CASE JobCheck(j)
  <2>1. Builds(j) /\ jobs[j].step = "queued" /\ UNCHANGED <<phase, group, subs, dropped>>
    BY <1>5 DEF JobCheck, Builds
  <2>2. \A t \in Sockets : \/ inbox'[t] = inbox[t]
                           \/ \E m \in Messages : inbox'[t] = Append(inbox[t], m) /\ m.type # "left"
    <3>1. CASE UNCHANGED inbox
        BY <3>1
    <3>2. CASE Send(jobs[j].sock, [type |-> "error", chan |-> jobs[j].chan])
        <4>1. [type |-> "error", chan |-> jobs[j].chan] \in Messages
            BY <1>2, <2>1, MessageTypes
        <4> QED
            BY <1>1, <1>2, <2>1, <3>2, <4>1, Sent
    <3> QED
        BY <1>5, <3>1, <3>2 DEF JobCheck
  <2>3. \A i \in Jobs \ {j} : jobs'[i] = jobs[i]
    BY <1>1, <1>5, <2>1, Freed, Stepped DEF JobCheck
  <2> QED
    BY <1>3, <2>1, <2>2, <2>3, JoinedStays
<1>6. CASE JobJoin(j)
  <2>1. /\ Builds(j) /\ jobs[j].step = "allowed"
        /\ jobs' = [jobs EXCEPT ![j].step = "collect"]
        /\ group' = [group EXCEPT ![jobs[j].chan] = @ \cup {jobs[j].sock}]
        /\ UNCHANGED <<phase, subs, inbox, dropped>>
    BY <1>6 DEF JobJoin, Builds
  <2>2. /\ jobs'[j].kind = jobs[j].kind /\ jobs'[j].sock = jobs[j].sock
        /\ jobs'[j].chan = jobs[j].chan /\ jobs'[j].step = "collect"
        /\ \A i \in Jobs \ {j} : jobs'[i] = jobs[i]
    BY <1>1, <2>1, Stepped
  <2>3. \A t \in Sockets, c \in Channels : t = jobs[j].sock /\ c = jobs[j].chan => Secured(t, c)'
    BY <2>1, <2>2 DEF Secured, SubscribeJobsOf, Builds
  <2>4. \A t \in Sockets, c \in Channels : Secured(t, c) => Secured(t, c)'
    BY <1>3, <2>1, <2>2
  <2>5. \A t \in Sockets, c \in Channels :
            t \in group'[c] => t \in group[c] \/ (t = jobs[j].sock /\ c = jobs[j].chan)
    BY <1>1, <2>1 DEF TypeOK
  <2> QED
    BY <2>1, <2>3, <2>4, <2>5 DEF JoinedInv
<1>7. CASE JobCollect(j)
  <2>1. /\ Builds(j) /\ jobs[j].step = "collect"
        /\ jobs' = [jobs EXCEPT ![j].snap = Append(@, version[jobs[j].chan])]
        /\ UNCHANGED <<phase, group, subs, inbox, dropped>>
    BY <1>7 DEF JobCollect, Builds
  <2>2. \A i \in Jobs : jobs'[i].kind = jobs[i].kind /\ jobs'[i].sock = jobs[i].sock
                          /\ jobs'[i].chan = jobs[i].chan /\ jobs'[i].step = jobs[i].step
    BY <1>1, <1>2, <2>1 DEF TypeOK, SubscribeJobs
  <2>3. \A t \in Sockets, c \in Channels : Secured(t, c) => Secured(t, c)'
    BY <1>1, <2>1, <2>2, SecuredStays
  <2> QED
    BY <2>1, <2>3, JoinedStays
<1>8. CASE JobTell(j)
  <2>1. /\ jobs[j].kind = "subscribe" /\ Builds(j)
        /\ jobs' = [jobs EXCEPT ![j].step = "told"]
        /\ Send(jobs[j].sock, [type |-> "subscribed", chan |-> jobs[j].chan])
        /\ UNCHANGED <<phase, group, subs, dropped>>
    BY <1>8 DEF JobTell, Builds
  <2>2. \A i \in Jobs \ {j} : jobs'[i] = jobs[i]
    BY <1>1, <2>1, Stepped
  <2>3. /\ [type |-> "subscribed", chan |-> jobs[j].chan] \in Messages
        /\ phase[jobs[j].sock] # "gone" =>
              inbox'[jobs[j].sock] = Append(inbox[jobs[j].sock], [type |-> "subscribed", chan |-> jobs[j].chan])
        /\ \A t \in Sockets \ {jobs[j].sock} : inbox'[t] = inbox[t]
        /\ phase[jobs[j].sock] = "gone" => inbox'[jobs[j].sock] = inbox[jobs[j].sock]
    BY <1>1, <1>2, <2>1, MessageTypes, Sent
  <2>4. \A t \in Sockets : \/ inbox'[t] = inbox[t]
                           \/ \E m \in Messages : inbox'[t] = Append(inbox[t], m) /\ m.type # "left"
    BY <2>3
  <2>5. \A t \in Sockets, c \in Channels :
            t = jobs[j].sock /\ c = jobs[j].chan /\ phase[t] # "gone" => Secured(t, c)'
    BY <1>1, <2>3, ToldLast
  <2>6. \A t \in Sockets, c \in Channels :
            ~(t = jobs[j].sock /\ c = jobs[j].chan) /\ Secured(t, c) => Secured(t, c)'
    BY <1>3, <2>1, <2>2, <2>4
  <2> QED
    BY <2>1, <2>5, <2>6, JoinedStays
<1>9. CASE JobState(j)
  <2>1. /\ jobs[j].step = "told" /\ Builds(j) /\ Free(j)
        /\ Send(jobs[j].sock, [type |-> "state", chan |-> jobs[j].chan, snap |-> jobs[j].snap])
        /\ UNCHANGED <<phase, group, subs, dropped>>
    BY <1>9 DEF JobState, Builds
  <2>2. \A i \in Jobs \ {j} : jobs'[i] = jobs[i]
    BY <1>1, <2>1, Freed
  <2>3. [type |-> "state", chan |-> jobs[j].chan, snap |-> jobs[j].snap] \in Messages
    BY <2>1, BuildingJob, MessageTypes
  <2>4. \A t \in Sockets : \/ inbox'[t] = inbox[t]
                           \/ \E m \in Messages : inbox'[t] = Append(inbox[t], m) /\ m.type # "left"
    BY <1>1, <1>2, <2>1, <2>3, Sent
  <2>5. \A t \in Sockets, c \in Channels : Secured(t, c) => Secured(t, c)'
    BY <1>3, <2>1, <2>2, <2>4
  <2> QED
    BY <2>1, <2>5, JoinedStays
<1>10. CASE InlineDone(j)
  <2>1. /\ jobs[j].kind = "inline" /\ Builds(j) /\ Free(j)
        /\ subs' = [subs EXCEPT ![jobs[j].sock] = @ \cup {jobs[j].chan}]
        /\ phase' = [phase EXCEPT ![jobs[j].sock] = "open"]
        /\ UNCHANGED <<group, inbox, dropped>>
    BY <1>10 DEF InlineDone, Builds
  <2>2. jobs[j].chan = Organisation /\ phase[jobs[j].sock] = "connecting"
    BY <1>1, <2>1 DEF JobSound
  <2>3. \A i \in Jobs \ {j} : jobs'[i] = jobs[i]
    BY <1>1, <2>1, Freed
  <2>4. \A t \in Sockets : (t # jobs[j].sock => phase'[t] = phase[t] /\ subs'[t] = subs[t])
                           /\ (t = jobs[j].sock => Organisation \in subs'[t])
    BY <1>1, <2>1, <2>2 DEF TypeOK
  <2>5. ASSUME NEW t \in Sockets, t # jobs[j].sock, NEW c \in Channels, Secured(t, c)
        PROVE  Secured(t, c)'
    BY <1>1, <2>1, <2>3, <2>4, <2>5, SecuredStays
  <2>6. ASSUME NEW t \in Sockets, t = jobs[j].sock, NEW c \in Channels, t \in group[c]
        PROVE  Secured(t, c)'
    <3>1. c = Organisation
        BY <1>1, <2>2, <2>6 DEF SocketSound
    <3>2. ~Waiting(t, "left", Organisation)
        BY <1>1 DEF SocketSound, MessageSound, Waiting, Range
    <3>3. ~Waiting(t, "left", Organisation)'
        BY <2>1, <3>2 DEF Waiting
    <3> QED
        BY <2>4, <2>6, <3>1, <3>3 DEF Secured
  <2> QED
    BY <2>1, <2>2, <2>4, <2>5, <2>6 DEF JoinedInv
<1>11. CASE RecheckRef(j)
  <2>1. /\ jobs[j].kind = "recheck" /\ UNCHANGED <<phase, subs, dropped>>
        /\ jobs[j].sock \in Sockets /\ jobs[j] \in RecheckJobs
    BY <1>1, <1>11, JobTypes DEF RecheckRef, RecheckJobs
  <2>2. PICK k \in jobs[j].refs : LooksAt(j, k)
    BY <1>11 DEF RecheckRef, LooksAt
  <2>3. k \in Channels
    BY <2>1 DEF RecheckJobs
  <2>4. \A i \in Jobs : Builds(i) => jobs'[i] = jobs[i]
    BY <1>1, <2>1, <2>2 DEF Builds, LooksAt, TypeOK
  <2>5. CASE UNCHANGED <<group, inbox>>
    <3>1. \A t \in Sockets, c \in Channels : Secured(t, c) => Secured(t, c)'
        BY <1>1, <2>1, <2>4, <2>5, SecuredStays
    <3> QED
        BY <2>1, <2>5, <3>1, JoinedStays
  <2>6. CASE /\ group' = [group EXCEPT ![k] = @ \ {jobs[j].sock}]
             /\ Send(jobs[j].sock, [type |-> "left", chan |-> k])
    <3> DEFINE m == [type |-> "left", chan |-> k]
    <3>1. m \in Messages /\ m.chan = k /\ Send(jobs[j].sock, m)
        BY <2>3, <2>6, MessageTypes
    <3> HIDE DEF m
    <3>2. /\ \A t \in Sockets, c \in Channels : t \in group'[c] => t \in group[c]
          /\ jobs[j].sock \notin group'[k]
        BY <1>1, <2>3, <2>6 DEF TypeOK
    <3>3. \A t \in Sockets : \/ inbox'[t] = inbox[t]
                             \/ t = jobs[j].sock /\ inbox'[t] = Append(inbox[t], m)
        BY <1>1, <2>1, <3>1, Sent
    <3>4. ASSUME NEW t \in Sockets, NEW c \in Channels, t \in group'[c], Secured(t, c)
          PROVE  Secured(t, c)'
        <4>1. ~(t = jobs[j].sock /\ c = k)
            BY <3>2, <3>4
        <4>2. \/ inbox'[t] = inbox[t]
              \/ inbox'[t] = Append(inbox[t], m) /\ ~(m.type = "left" /\ m.chan = c)
            BY <3>1, <3>3, <4>1
        <4> QED
            BY <1>1, <2>1, <2>4, <3>1, <3>4, <4>2, SecuredStays
    <3> QED
        BY <2>1, <3>2, <3>4, JoinedStays
  <2> QED
    BY <2>2, <2>5, <2>6 DEF LooksAt
<1> QED
    BY <1>4, <1>5, <1>6, <1>7, <1>8, <1>9, <1>10, <1>11 DEF JobStep

\* And so do the other requests.
LEMMA JoinedKept == ShapeInv /\ ShapeInv' /\ JoinedInv /\ [Next]_vars => JoinedInv'
<1> SUFFICES ASSUME ShapeInv, ShapeInv', JoinedInv, [Next]_vars PROVE JoinedInv'
    OBVIOUS
<1>1. TypeOK
    BY DEF ShapeInv
<1>2. ASSUME UNCHANGED <<phase, group, subs, jobs, dropped>>,
             \A t \in Sockets : \/ inbox'[t] = inbox[t]
                                \/ \E m \in Messages : inbox'[t] = Append(inbox[t], m) /\ m.type # "left"
      PROVE  JoinedInv'
  <2>1. \A t \in Sockets, c \in Channels : Secured(t, c) => Secured(t, c)'
    BY <1>1, <1>2, SecuredStays
  <2> QED
    BY <1>2, <2>1, JoinedStays
<1>3. ASSUME NEW c \in Channels, NEW v \in Versions, Publish(c, v) PROVE JoinedInv'
  <2>1. [type |-> "update", chan |-> c, version |-> v] \in Messages
    BY MessageTypes
  <2>2. \A t \in Sockets : \/ inbox'[t] = inbox[t]
                           \/ \E m \in Messages : inbox'[t] = Append(inbox[t], m) /\ m.type # "left"
    BY <1>1, <1>3, <2>1, Published
  <2> QED
    BY <1>2, <1>3, <2>2 DEF Publish
<1>4. ASSUME RemoveRoles PROVE JoinedInv'
  <2>1. [type |-> "recheck"] \in Messages
    BY ChannelsAssumption, MessageTypes
  <2>2. \A t \in Sockets : \/ inbox'[t] = inbox[t]
                           \/ \E m \in Messages : inbox'[t] = Append(inbox[t], m) /\ m.type # "left"
    BY <1>4, <2>1 DEF RemoveRoles
  <2> QED
    BY <1>2, <1>4, <2>2 DEF RemoveRoles
<1>5. ASSUME (\E c \in Channels : Commit(c)) \/ RemoveRolesCommits \/ AddRoles \/ UNCHANGED vars
      PROVE  JoinedInv'
  <2>1. UNCHANGED <<phase, group, subs, jobs, dropped, inbox>>
    BY <1>5 DEF Commit, RemoveRolesCommits, AddRoles, vars
  <2> QED
    BY <1>2, <2>1
<1> QED
    BY <1>3, <1>4, <1>5, SocketJoined, JobJoined DEF Next

-----------------------------------------------------------------------------
(* A patient client misses no update *)

\* A job for the channel that is as it was, or has joined the group and read
\* what is committed, or what the client need not rely on.
GoesOn(j, s, c) ==
    \/ jobs'[j] = jobs[j]
    \/ /\ Builds(j) /\ jobs[j].sock = s /\ jobs[j].chan = c
       /\ jobs'[j].kind = jobs[j].kind
       /\ jobs[j].step # "told"
       /\ jobs'[j].step \in {"collect", "told"} =>
              s \in group'[c] /\ \A v \in Range(jobs'[j].snap) : v = version'[c] \/ Fresh(s, c)'

\* A step that asks for nothing and answers nothing keeps the one request, and
\* whoever relies on updates still does not miss any.  Handling a message moves
\* the others one place.
LEMMA ServedStays ==
    ASSUME ShapeInv, TypeOK', NEW s \in Sockets, NEW c \in Channels,
           OneRequest(s, c), Served1(s, c),
           \A j \in SubscribeJobsOf(s, c)' : GoesOn(j, s, c),
           NEW d \in Nat,
           \A i \in DOMAIN inbox'[s] :
               inbox'[s][i].type \in {"subscribed", "state"} /\ inbox'[s][i].chan = c =>
                   i + d \in DOMAIN inbox[s] /\ inbox'[s][i] = inbox[s][i + d],
           s \in group[c] => s \in group'[c],
           c \in subs'[s] => \/ c \in subs[s]
                             \/ s \in group'[c] /\ (c \in asked'[s] \/ Fresh(s, c)'),
           c \in asked'[s] <=> c \in asked[s],
           s \in group[c] /\ Fresh(s, c) => Fresh(s, c)',
           version'[c] = version[c] \/ Fresh(s, c)'
    PROVE  OneRequest(s, c)' /\ Served1(s, c)'
<1>1. \A j \in SubscribeJobsOf(s, c)' :
          /\ j \in SubscribeJobsOf(s, c) /\ jobs'[j].kind = jobs[j].kind
          /\ jobs[j].step = "told" => jobs'[j].step = "told"
    BY DEF GoesOn, SubscribeJobsOf, Builds
<1>2. DOMAIN inbox'[s] \subseteq Nat /\ DOMAIN inbox[s] \subseteq Nat
  <2>1. inbox'[s] \in Seq(Messages) /\ inbox[s] \in Seq(Messages)
    BY DEF ShapeInv, TypeOK
  <2> QED
    BY <2>1
<1>3. ASSUME NEW type \in {"subscribed", "state"}, NEW i, IsAt(s, i, type, c)'
      PROVE  IsAt(s, i + d, type, c) /\ inbox'[s][i] = inbox[s][i + d]
    BY <1>3 DEF IsAt
<1>4. ASSUME NEW type \in {"subscribed", "state"}, Waiting(s, type, c)'
      PROVE  Waiting(s, type, c)
  <2>1. PICK i : IsAt(s, i, type, c)'
    BY <1>4 DEF Waiting, IsAt
  <2> QED
    BY <1>3, <2>1 DEF Waiting, IsAt
<1>5. OneRequest(s, c)'
  <2>1. ASSUME NEW j \in SubscribeJobsOf(s, c)', jobs'[j].kind = "subscribe"
        PROVE  /\ c \in asked'[s]
               /\ SubscribeJobsOf(s, c)' = {j}
               /\ ~Waiting(s, "state", c)'
               /\ Waiting(s, "subscribed", c)' => jobs'[j].step = "told"
    <3>1. /\ j \in SubscribeJobsOf(s, c) /\ jobs[j].kind = "subscribe"
          /\ jobs[j].step = "told" => jobs'[j].step = "told"
        BY <1>1, <2>1
    <3>2. /\ c \in asked[s] /\ SubscribeJobsOf(s, c) = {j} /\ ~Waiting(s, "state", c)
          /\ Waiting(s, "subscribed", c) => jobs[j].step = "told"
        BY <3>1 DEF OneRequest
    <3>3. SubscribeJobsOf(s, c)' \subseteq {j}
        BY <1>1, <3>2
    <3>4. ~Waiting(s, "state", c)' /\ (Waiting(s, "subscribed", c)' => Waiting(s, "subscribed", c))
        BY <1>4, <3>2
    <3> QED
        BY <2>1, <3>1, <3>2, <3>3, <3>4
  <2>2. ASSUME NEW i \in DOMAIN inbox'[s], IsAt(s, i, "state", c)'
        PROVE  /\ c \in asked'[s]
               /\ \A k \in DOMAIN inbox'[s] : IsAt(s, k, "state", c)' => k = i
               /\ \A k \in DOMAIN inbox'[s] : IsAt(s, k, "subscribed", c)' => k < i
    <3>1. IsAt(s, i + d, "state", c) /\ i + d \in DOMAIN inbox[s]
        BY <1>3, <2>2 DEF IsAt
    <3>2. /\ c \in asked[s]
          /\ \A k \in DOMAIN inbox[s] : IsAt(s, k, "state", c) => k = i + d
          /\ \A k \in DOMAIN inbox[s] : IsAt(s, k, "subscribed", c) => k < i + d
        BY <3>1 DEF OneRequest
    <3>3. ASSUME NEW k \in DOMAIN inbox'[s], IsAt(s, k, "state", c)' PROVE k = i
        <4>1. IsAt(s, k + d, "state", c) /\ k + d \in DOMAIN inbox[s]
            BY <1>3, <3>3 DEF IsAt
        <4>2. k + d = i + d /\ k \in Nat /\ i \in Nat
            BY <1>2, <3>2, <4>1
        <4> QED
            BY <4>2
    <3>4. ASSUME NEW k \in DOMAIN inbox'[s], IsAt(s, k, "subscribed", c)' PROVE k < i
        <4>1. IsAt(s, k + d, "subscribed", c) /\ k + d \in DOMAIN inbox[s]
            BY <1>3, <3>4 DEF IsAt
        <4>2. k + d < i + d /\ k \in Nat /\ i \in Nat
            BY <1>2, <3>2, <4>1
        <4> QED
            BY <4>2
    <3> QED
        BY <3>2, <3>3, <3>4
  <2>3. Waiting(s, "subscribed", c)' => c \in asked'[s]
    BY <1>4 DEF OneRequest
  <2> QED
    BY <2>1, <2>2, <2>3 DEF OneRequest
<1>6. ASSUME NEW snap, s \in group[c], SnapFresh(s, c, snap)
      PROVE  \A v \in Range(snap) : v = version'[c] \/ Fresh(s, c)'
    BY <1>6 DEF SnapFresh
<1>7. ASSUME NEW j \in SubscribeJobsOf(s, c)', jobs'[j].step \in {"collect", "told"}
      PROVE  s \in group'[c] /\ \A v \in Range(jobs'[j].snap) : v = version'[c] \/ Fresh(s, c)'
  <2>1. CASE jobs'[j] = jobs[j]
    <3>1. s \in group[c] /\ SnapFresh(s, c, jobs[j].snap)
        BY <1>1, <1>7, <2>1 DEF Served1
    <3> QED
        BY <1>6, <2>1, <3>1
  <2> QED
    BY <1>7, <2>1 DEF GoesOn
<1>8. ASSUME NEW m \in Range(inbox'[s]), m.type = "state", m.chan = c
      PROVE  s \in group'[c] /\ \A v \in Range(m.snap) : v = version'[c] \/ Fresh(s, c)'
  <2>1. PICK i \in DOMAIN inbox'[s] : m = inbox'[s][i]
    BY <1>8 DEF Range
  <2>2. i + d \in DOMAIN inbox[s] /\ m = inbox[s][i + d]
    BY <1>8, <2>1
  <2>3. m \in Range(inbox[s])
    BY <2>2 DEF Range
  <2>4. s \in group[c] /\ SnapFresh(s, c, m.snap)
    BY <1>8, <2>3 DEF Served1
  <2> QED
    BY <1>6, <2>4
<1>9. Waiting(s, "subscribed", c)' => s \in group'[c]
    BY <1>4 DEF Served1
<1>10. c \in subs'[s] => s \in group'[c] /\ (c \in asked'[s] \/ Fresh(s, c)')
    BY DEF Served1
<1> QED
    BY <1>5, <1>7, <1>8, <1>9, <1>10 DEF Served1, SnapFresh

\* What has been published and is still waiting, and what the client knows, stay.
LEMMA FreshStays ==
    ASSUME NEW s \in Sockets, NEW c \in Channels, Fresh(s, c),
           version'[c] = version[c], seen'[s][c] = seen[s][c],
           version[c] \in unsent[c] => version[c] \in unsent'[c],
           Range(inbox[s]) \subseteq Range(inbox'[s])
    PROVE  Fresh(s, c)'
    BY DEF Fresh

\* A step that has nothing to do with the channel, or moves its job.
LEMMA QuietServed ==
    ASSUME ShapeInv, TypeOK', NEW s \in Sockets, NEW c \in Channels,
           OneRequest(s, c), Served1(s, c),
           \A j \in SubscribeJobsOf(s, c)' : GoesOn(j, s, c),
           \/ inbox'[s] = inbox[s]
           \/ \E m \in Messages : /\ inbox'[s] = Append(inbox[s], m)
                                  /\ ~(m.type \in {"subscribed", "state"} /\ m.chan = c),
           s \in group[c] => s \in group'[c],
           c \in subs'[s] => c \in subs[s],
           c \in asked'[s] <=> c \in asked[s],
           version'[c] = version[c], seen'[s][c] = seen[s][c],
           version[c] \in unsent[c] => version[c] \in unsent'[c]
    PROVE  OneRequest(s, c)' /\ Served1(s, c)'
<1>1. /\ Range(inbox[s]) \subseteq Range(inbox'[s])
      /\ \A i \in DOMAIN inbox'[s] :
            inbox'[s][i].type \in {"subscribed", "state"} /\ inbox'[s][i].chan = c =>
                i + 0 \in DOMAIN inbox[s] /\ inbox'[s][i] = inbox[s][i + 0]
  <2>1. inbox[s] \in Seq(Messages) /\ DOMAIN inbox[s] \subseteq Nat
    <3>1. inbox[s] \in Seq(Messages)
        BY DEF ShapeInv, TypeOK
    <3> QED
        BY <3>1
  <2>2. CASE inbox'[s] = inbox[s]
    BY <2>1, <2>2
  <2>3. CASE \E m \in Messages : /\ inbox'[s] = Append(inbox[s], m)
                                 /\ ~(m.type \in {"subscribed", "state"} /\ m.chan = c)
    <3>1. PICK m \in Messages : /\ inbox'[s] = Append(inbox[s], m)
                                /\ ~(m.type \in {"subscribed", "state"} /\ m.chan = c)
        BY <2>3
    <3>2. Range(inbox'[s]) = Range(inbox[s]) \cup {m}
        BY <2>1, <3>1, RangeOfAppend
    <3>3. /\ Len(inbox[s]) \in Nat /\ DOMAIN inbox[s] = 1..Len(inbox[s])
          /\ DOMAIN inbox'[s] = 1..(Len(inbox[s]) + 1)
          /\ inbox'[s][Len(inbox[s]) + 1] = m
          /\ \A i \in 1..Len(inbox[s]) : inbox'[s][i] = inbox[s][i]
        BY <2>1, <3>1, Appended
    <3> QED
        BY <3>1, <3>2, <3>3
  <2> QED
    BY <2>2, <2>3
<1>2. Fresh(s, c) => Fresh(s, c)'
    BY <1>1, FreshStays
<1>3. c \in subs'[s] => \/ c \in subs[s]
                        \/ s \in group'[c] /\ (c \in asked'[s] \/ Fresh(s, c)')
    OBVIOUS
<1>4. version'[c] = version[c] \/ Fresh(s, c)'
    OBVIOUS
<1> QED
    BY <1>1, <1>2, <1>3, <1>4, ServedStays

\* What a client whose roles stay can be told.
LEMMA ServedFacts ==
    ASSUME ShapeInv, NEW s \in Sockets, Served(s)
    PROVE  /\ roles
           /\ \A m \in Range(inbox[s]) : m \in Messages /\ m.type \in {"subscribed", "state", "update"}
           /\ \A c \in Channels : version[c] \in Nat /\ seen[s][c] \in Int /\ seen[s][c] =< version[c]
<1>1. TypeOK /\ VersionsSound /\ SocketSound(s) /\ removal = "none"
    BY DEF ShapeInv, Served
<1>2. ASSUME NEW m \in Range(inbox[s])
      PROVE  m \in Messages /\ m.type \in {"subscribed", "state", "update"}
  <2>1. m \in Messages
    BY <1>1 DEF TypeOK, Range
  <2>2. m.type \notin {"error", "left", "recheck"}
    BY <1>1 DEF SocketSound, MessageSound
  <2> QED
    BY <2>1, <2>2, MessageParts
<1> QED
    BY <1>1, <1>2, BoundsAssumption DEF VersionsSound, TypeOK, Versions, Nothing

\* A client that relied on an update has it, when it has the newest snapshot.
LEMMA NewestSeen ==
    ASSUME NEW a \in Int, NEW b \in Int, NEW n \in Int, a =< n, b =< n, a = n \/ b = n
    PROVE  Newest(a, b) = n
    BY DEF Newest

\* The consumer of a served client handles a message: what it has told the client
\* of is no longer needed.
LEMMA DeliverServed ==
    ASSUME ShapeInv, TypeOK', NEW s \in Sockets, NEW c \in Channels, Served(s), Deliver(s),
           OneRequest(s, c), Served1(s, c)
    PROVE  OneRequest(s, c)' /\ Served1(s, c)'
<1>1. TypeOK /\ SocketSound(s)
    BY DEF ShapeInv
<1> DEFINE m == Head(inbox[s])
<1>2. /\ inbox[s] \in Seq(Messages) /\ inbox[s] # <<>>
      /\ inbox' = [inbox EXCEPT ![s] = Tail(@)]
      /\ UNCHANGED <<version, unsent, group>>
    BY <1>1 DEF Deliver, TypeOK
<1>3. inbox'[s] = Tail(inbox[s])
    BY <1>1, <1>2 DEF TypeOK
<1>4. /\ Len(inbox[s]) \in Nat \ {0} /\ DOMAIN inbox[s] = 1..Len(inbox[s])
      /\ m = inbox[s][1] /\ m \in Messages
      /\ DOMAIN inbox'[s] = 1..(Len(inbox[s]) - 1)
      /\ \A i \in 1..(Len(inbox[s]) - 1) : inbox'[s][i] = inbox[s][i + 1]
      /\ Range(inbox[s]) = {m} \cup Range(inbox'[s])
    BY <1>2, <1>3, InboxHead
<1>5. m.type \in {"subscribed", "state", "update"} /\ m.chan \in Channels /\ MessageSound(s, m)
    BY <1>1, <1>4, ServedFacts, MessageParts DEF SocketSound
<1>6. OnSubscribed(s, m) \/ OnState(s, m) \/ OnUpdate(s, m)
    BY <1>5 DEF Deliver, OnSubscribed, OnState, OnUpdate, OnSubscribeError, OnLeft, Recheck
<1>7. UNCHANGED jobs
    BY <1>6 DEF OnSubscribed, OnState, OnUpdate
<1> HIDE DEF m
<1>8. \A i \in DOMAIN inbox'[s] :
          inbox'[s][i].type \in {"subscribed", "state"} /\ inbox'[s][i].chan = c =>
              i + 1 \in DOMAIN inbox[s] /\ inbox'[s][i] = inbox[s][i + 1]
    BY <1>4
<1>9. /\ version[c] \in Nat /\ seen[s][c] \in Int /\ seen[s][c] =< version[c]
    BY ServedFacts
<1>10. \A j \in SubscribeJobsOf(s, c)' : GoesOn(j, s, c)
    BY <1>7 DEF GoesOn
<1>11. m.chan # c \/ m.type = "subscribed" =>
            ~([type |-> "update", chan |-> c, version |-> version[c]] = m)
    OBVIOUS
<1>16. ASSUME c \in subs'[s] => \/ c \in subs[s]
                                \/ s \in group'[c] /\ (c \in asked'[s] \/ Fresh(s, c)'),
              c \in asked'[s] <=> c \in asked[s],
              Fresh(s, c) => Fresh(s, c)'
       PROVE  OneRequest(s, c)' /\ Served1(s, c)'
  <2>1. s \in group[c] => s \in group'[c]
    BY <1>2
  <2>2. version'[c] = version[c] \/ Fresh(s, c)'
    BY <1>2
  <2> QED
    BY <1>8, <1>10, <1>16, <2>1, <2>2, ServedStays
<1>12. CASE m.chan # c
  <2>1. /\ seen'[s][c] = seen[s][c]
        /\ c \in subs'[s] => c \in subs[s]
        /\ c \in asked'[s] <=> c \in asked[s]
    BY <1>1, <1>5, <1>6, <1>12 DEF OnSubscribed, OnState, OnUpdate, TypeOK
  <2>2. Fresh(s, c) => Fresh(s, c)'
    BY <1>2, <1>4, <1>11, <1>12, <2>1 DEF Fresh
  <2> QED
    BY <1>16, <2>1, <2>2
<1>13. CASE m.chan = c /\ OnSubscribed(s, m)
  <2>1. /\ m.type = "subscribed" /\ UNCHANGED <<seen, asked>>
    BY <1>13 DEF OnSubscribed
  <2>2. Waiting(s, "subscribed", c)
    BY <1>4, <1>13, <2>1 DEF Waiting
  <2>3. s \in group[c] /\ c \in asked[s]
    BY <2>2 DEF OneRequest, Served1
  <2>4. Fresh(s, c) => Fresh(s, c)'
    BY <1>2, <1>4, <1>11, <2>1 DEF Fresh
  <2> QED
    BY <1>2, <1>16, <2>1, <2>3, <2>4
<1>14. CASE m.chan = c /\ OnUpdate(s, m)
  <2>1. /\ m.type = "update" /\ UNCHANGED <<subs, asked>>
        /\ seen' = [seen EXCEPT ![s][c] = Newest(@, m.version)]
    BY <1>14 DEF OnUpdate
  <2>2. seen'[s][c] = Newest(seen[s][c], m.version)
    BY <1>1, <2>1 DEF TypeOK
  <2>3. m.version \in Versions /\ m.version =< version[c]
    BY <1>4, <1>5, <1>14, <2>1, MessageParts DEF MessageSound
  <2>4. Fresh(s, c) => Fresh(s, c)'
    <3>1. m.version \in Int
        BY <2>3, BoundsAssumption DEF Versions
    <3>2. CASE seen[s][c] = version[c] \/ m.version = version[c]
        BY <1>2, <1>9, <2>2, <2>3, <3>1, <3>2, NewestSeen DEF Fresh
    <3>3. CASE m.version # version[c]
        <4>1. m # [type |-> "update", chan |-> c, version |-> version[c]]
            BY <3>3
        <4> QED
            BY <1>2, <1>4, <3>2, <4>1 DEF Fresh
    <3> QED
        BY <3>2, <3>3
  <2> QED
    BY <1>16, <2>1, <2>4
<1>15. CASE m.chan = c /\ OnState(s, m)
  <2>1. /\ m.type = "state" /\ UNCHANGED subs
        /\ seen' = [seen EXCEPT ![s][c] = Newest(@, Min(Range(m.snap)))]
        /\ asked' = [asked EXCEPT ![s] = @ \ {c}]
    BY <1>15 DEF OnState
  <2>2. IsAt(s, 1, "state", c) /\ 1 \in DOMAIN inbox[s]
    BY <1>4, <1>15, <2>1 DEF IsAt
  <2>3. /\ \A k \in DOMAIN inbox[s] : IsAt(s, k, "state", c) => k = 1
        /\ \A k \in DOMAIN inbox[s] : IsAt(s, k, "subscribed", c) => k < 1
    BY <2>2 DEF OneRequest
  <2>4. ~Waiting(s, "state", c)' /\ ~Waiting(s, "subscribed", c)'
    <3>1. ASSUME NEW i \in DOMAIN inbox'[s], inbox'[s][i].type \in {"subscribed", "state"},
                 inbox'[s][i].chan = c
          PROVE  FALSE
        <4>1. i \in Nat \ {0} /\ i + 1 \in DOMAIN inbox[s] /\ inbox'[s][i] = inbox[s][i + 1]
            BY <1>4, <3>1
        <4>2. IsAt(s, i + 1, "state", c) \/ IsAt(s, i + 1, "subscribed", c)
            BY <3>1, <4>1 DEF IsAt
        <4> QED
            BY <2>3, <4>1, <4>2
    <3> QED
        BY <3>1 DEF Waiting
  <2>5. SubscribeJobsOf(s, c) = {}
    <3>1. Waiting(s, "state", c) /\ c # Organisation
        BY <1>5, <1>15, <2>1, <2>2 DEF Waiting, IsAt, MessageSound
    <3>2. \A j \in SubscribeJobsOf(s, c) : jobs[j].kind = "subscribe"
        BY <3>1, BuildingJob DEF SubscribeJobsOf, Builds
    <3> QED
        BY <3>1, <3>2 DEF OneRequest
  <2>6. SubscribeJobsOf(s, c)' = {}
    BY <1>7, <2>5 DEF SubscribeJobsOf
  <2>7. OneRequest(s, c)'
    BY <2>4, <2>6 DEF OneRequest, Waiting, IsAt
  <2>8. s \in group[c] /\ SnapFresh(s, c, m.snap)
    BY <1>4, <1>15, <2>1 DEF Served1
  <2>9. Fresh(s, c)'
    <3>1. m.snap \in Seq(Versions) /\ m.snap # <<>>
        BY <1>4, <1>5, <2>1, MessageParts DEF MessageSound
    <3>2. PICK v \in Range(m.snap) : v = Min(Range(m.snap))
        BY <3>1, OldestPart
    <3>3. v \in Int /\ v =< version[c] /\ (v = version[c] \/ Fresh(s, c))
        BY <1>5, <1>15, <2>1, <2>8, <3>1, OldestPart, BoundsAssumption
           DEF SnapFresh, MessageSound, Versions
    <3>4. seen'[s][c] = Newest(seen[s][c], v)
        BY <1>1, <2>1, <3>2 DEF TypeOK
    <3>5. CASE v = version[c] \/ seen[s][c] = version[c]
        BY <1>2, <1>9, <3>3, <3>4, <3>5, NewestSeen DEF Fresh
    <3>6. CASE Fresh(s, c) /\ seen[s][c] # version[c]
        <4>1. m # [type |-> "update", chan |-> c, version |-> version[c]]
            BY <2>1
        <4> QED
            BY <1>2, <1>4, <3>6, <4>1 DEF Fresh
    <3> QED
        BY <3>3, <3>5, <3>6
  <2>10. \A x \in Range(inbox'[s]) : ~(x.type = "state" /\ x.chan = c)
    BY <2>4 DEF Waiting, Range
  <2>11. c \in subs'[s] => s \in group'[c]
    BY <1>2, <2>8
  <2> QED
    BY <2>4, <2>6, <2>7, <2>9, <2>10, <2>11 DEF Served1
<1> QED
    BY <1>6, <1>12, <1>13, <1>14, <1>15

\* A step of one socket is quiet for the others.
LEMMA OthersServed ==
    ASSUME ShapeInv, TypeOK', ServedInv, NEW t \in Sockets, NEW c \in Channels, Served(t),
           \A j \in SubscribeJobsOf(t, c)' : jobs'[j] = jobs[j],
           inbox'[t] = inbox[t], subs'[t] = subs[t], asked'[t] = asked[t], seen'[t] = seen[t],
           UNCHANGED <<version, unsent>>,
           t \in group[c] => t \in group'[c]
    PROVE  OneRequest(t, c)' /\ Served1(t, c)'
<1>1. OneRequest(t, c) /\ Served1(t, c)
    BY DEF ServedInv
<1>2. \A j \in SubscribeJobsOf(t, c)' : GoesOn(j, t, c)
    BY DEF GoesOn
<1> QED
    BY <1>1, <1>2, QuietServed

\* The steps of sockets, other than handling a message.
LEMMA SocketServed ==
    ASSUME ShapeInv, ShapeInv', ServedInv, NEW s \in Sockets,
           \/ Connect(s) \/ Disconnect(s) \/ Crash(s) \/ GroupExpiry(s)
           \/ \E k \in Channels : Subscribe(s, k) \/ Leave(s, k),
           NEW t \in Sockets, NEW c \in Channels, Served(t)'
    PROVE  OneRequest(t, c)' /\ Served1(t, c)'
<1>1. TypeOK /\ TypeOK' /\ (\A j \in Jobs : JobSound(j)) /\ \A u \in Sockets : SocketSound(u)
    BY DEF ShapeInv
<1>2. CASE Connect(s)
  <2> DEFINE job == [kind |-> "inline", sock |-> s, chan |-> Organisation,
                     step |-> "queued", snap |-> <<>>]
  <2>1. /\ phase[s] = "new" /\ phase' = [phase EXCEPT ![s] = "connecting"]
        /\ subs' = [subs EXCEPT ![s] = {}]
        /\ UNCHANGED <<patient, version, unsent, removal, group, inbox, seen, asked>>
    BY <1>2 DEF Connect
  <2>2. PICK j \in Jobs : jobs[j] = NoJob /\ jobs' = [jobs EXCEPT ![j] = job]
    BY <1>1, <1>2, Enqueued DEF Connect
  <2>3. /\ job.kind = "inline" /\ job.sock = s /\ job.step = "queued"
        /\ jobs'[j] = job /\ \A i \in Jobs \ {j} : jobs'[i] = jobs[i]
    BY <1>1, <2>2 DEF TypeOK
  <2> HIDE DEF job
  <2>4. CASE t = s
    <3>1. \A i \in SubscribeJobsOf(t, c)' : jobs'[i].kind = "inline" /\ jobs'[i].step = "queued"
        <4>1. \A i \in Jobs : ~WorksFor(i, s)
            BY <1>1, <2>1 DEF SocketSound
        <4>2. \A i \in Jobs \ {j} : i \notin SubscribeJobsOf(t, c)'
            BY <2>3, <2>4, <4>1 DEF SubscribeJobsOf, WorksFor, NoJob
        <4> QED
            BY <2>3, <4>2 DEF SubscribeJobsOf
    <3>2. inbox'[t] = <<>> /\ DOMAIN <<>> = {} /\ Range(<<>>) = {}
        BY <1>1, <2>1, <2>4 DEF SocketSound, Range
    <3>3. subs'[t] = {}
        BY <1>1, <2>1, <2>4 DEF TypeOK
    <3>4. OneRequest(t, c)'
        BY <3>1, <3>2 DEF OneRequest, Waiting
    <3>5. Served1(t, c)'
        BY <3>1, <3>2, <3>3 DEF Served1, Waiting
    <3> QED
        BY <3>4, <3>5
  <2>5. CASE t # s
    <3>1. Served(t) /\ subs'[t] = subs[t]
        BY <1>1, <2>1, <2>5 DEF Served, TypeOK
    <3>2. \A i \in SubscribeJobsOf(t, c)' : jobs'[i] = jobs[i]
        BY <2>3, <2>5 DEF SubscribeJobsOf
    <3> QED
        BY <1>1, <2>1, <3>1, <3>2, OthersServed
  <2> QED
    BY <2>4, <2>5
<1>3. CASE Disconnect(s) \/ Crash(s)
  <2>1. /\ phase' = [phase EXCEPT ![s] = "gone"]
        /\ inbox' = [inbox EXCEPT ![s] = <<>>]
        /\ asked' = [asked EXCEPT ![s] = {}]
        /\ UNCHANGED <<patient, version, unsent, removal, subs, seen>>
    BY <1>3 DEF Disconnect, Crash
  <2>2. t # s /\ Served(t) /\ inbox'[t] = inbox[t] /\ asked'[t] = asked[t]
    BY <1>1, <2>1 DEF Served, TypeOK
  <2>3. \A i \in SubscribeJobsOf(t, c)' : jobs'[i] = jobs[i]
    BY <1>3, <2>2 DEF Disconnect, Crash, SubscribeJobsOf, NoJob
  <2>4. t \in group[c] => t \in group'[c]
    <3>1. CASE Disconnect(s)
        <4>1. group'[c] = IF c \in subs[s] THEN group[c] \ {s} ELSE group[c]
            BY <3>1 DEF Disconnect
        <4> QED
            BY <2>2, <4>1
    <3>2. CASE Crash(s)
        BY <3>2 DEF Crash
    <3> QED
        BY <1>3, <3>1, <3>2
  <2> QED
    BY <1>1, <2>1, <2>2, <2>3, <2>4, OthersServed
<1>4. CASE GroupExpiry(s)
  <2>1. /\ phase[s] = "gone" /\ group' = [k \in Channels |-> group[k] \ {s}]
        /\ UNCHANGED <<patient, version, unsent, removal, phase, subs, inbox, jobs, seen, asked>>
    BY <1>4 DEF GroupExpiry
  <2>2. Served(t) /\ t # s
    BY <2>1 DEF Served
  <2> QED
    BY <1>1, <2>1, <2>2, OthersServed
<1>5. ASSUME NEW k \in Channels, Subscribe(s, k) PROVE OneRequest(t, c)' /\ Served1(t, c)'
  <2> DEFINE job == [kind |-> "subscribe", sock |-> s, chan |-> k,
                     step |-> "queued", snap |-> <<>>]
  <2>1. /\ k # Organisation /\ k \notin asked[s]
        /\ asked' = [asked EXCEPT ![s] = @ \cup {k}]
        /\ UNCHANGED <<patient, version, unsent, removal, phase, group, subs, inbox, seen>>
    BY <1>5 DEF Subscribe
  <2>2. PICK j \in Jobs : jobs[j] = NoJob /\ jobs' = [jobs EXCEPT ![j] = job]
    BY <1>1, <1>5, Enqueued DEF Subscribe
  <2>3. /\ job.kind = "subscribe" /\ job.sock = s /\ job.chan = k /\ job.step = "queued"
        /\ jobs'[j] = job /\ \A i \in Jobs \ {j} : jobs'[i] = jobs[i]
    BY <1>1, <2>2 DEF TypeOK
  <2> HIDE DEF job
  <2>4. Served(t) /\ OneRequest(t, c) /\ Served1(t, c)
    BY <2>1 DEF Served, ServedInv
  <2>5. CASE t = s /\ c = k
    <3>1. \A i \in SubscribeJobsOf(t, c) : jobs[i].kind = "subscribe"
        BY <2>1, <2>5, BuildingJob DEF SubscribeJobsOf, Builds
    <3>2. SubscribeJobsOf(t, c) = {} /\ ~Waiting(t, "state", c) /\ ~Waiting(t, "subscribed", c)
        BY <2>1, <2>4, <2>5, <3>1 DEF OneRequest, Waiting, IsAt
    <3>3. SubscribeJobsOf(t, c)' = {j}
        BY <2>3, <2>5, <3>2 DEF SubscribeJobsOf
    <3>4. ~Waiting(t, "state", c)' /\ ~Waiting(t, "subscribed", c)' /\ c \in asked'[t]
        BY <1>1, <2>1, <2>5, <3>2 DEF Waiting, TypeOK
    <3>5. OneRequest(t, c)'
        BY <3>3, <3>4 DEF OneRequest, Waiting, IsAt
    <3>6. \A m \in Range(inbox'[t]) : ~(m.type = "state" /\ m.chan = c)
        BY <3>4 DEF Waiting, Range
    <3>7. c \in subs'[t] => t \in group'[c]
        BY <2>1, <2>4 DEF Served1
    <3>8. Served1(t, c)'
        BY <2>3, <3>3, <3>4, <3>6, <3>7 DEF Served1
    <3> QED
        BY <3>5, <3>8
  <2>6. CASE ~(t = s /\ c = k)
    <3>1. c \in asked'[t] <=> c \in asked[t]
        BY <1>1, <2>1, <2>6 DEF TypeOK
    <3>2. \A i \in SubscribeJobsOf(t, c)' : GoesOn(i, t, c)
        BY <2>3, <2>6 DEF SubscribeJobsOf, GoesOn
    <3> QED
        BY <1>1, <2>1, <2>4, <3>1, <3>2, QuietServed
  <2> QED
    BY <2>5, <2>6
<1>6. ASSUME NEW k \in Channels, Leave(s, k) PROVE OneRequest(t, c)' /\ Served1(t, c)'
  <2>1. /\ patient[s] => ~Unanswered(s, k)
        /\ group' = [group EXCEPT ![k] = @ \ {s}]
        /\ subs' = [subs EXCEPT ![s] = @ \ {k}]
        /\ seen' = [seen EXCEPT ![s][k] = Nothing]
        /\ asked' = [asked EXCEPT ![s] = @ \ {k}]
        /\ UNCHANGED <<patient, version, unsent, removal, phase, inbox, jobs>>
    BY <1>6 DEF Leave
  <2>2. Served(t) /\ OneRequest(t, c) /\ Served1(t, c)
    BY <2>1 DEF Served, ServedInv
  <2>3. CASE t = s /\ c = k
    <3>1. SubscribeJobsOf(t, c) = {} /\ ~Waiting(t, "state", c) /\ ~Waiting(t, "subscribed", c)
        BY <2>1, <2>2, <2>3 DEF Unanswered, Arriving, Served
    <3>2. SubscribeJobsOf(t, c)' = {} /\ ~Waiting(t, "state", c)' /\ ~Waiting(t, "subscribed", c)'
        BY <2>1, <3>1 DEF SubscribeJobsOf, Waiting
    <3>3. c \notin subs'[t]
        BY <1>1, <2>1, <2>3 DEF TypeOK
    <3>4. OneRequest(t, c)'
        BY <3>2 DEF OneRequest, Waiting, IsAt
    <3>5. \A m \in Range(inbox'[t]) : ~(m.type = "state" /\ m.chan = c)
        BY <3>2 DEF Waiting, Range
    <3>6. Served1(t, c)'
        BY <3>2, <3>3, <3>5 DEF Served1
    <3> QED
        BY <3>4, <3>6
  <2>4. CASE ~(t = s /\ c = k)
    <3>1. /\ c \in asked'[t] <=> c \in asked[t]
          /\ c \in subs'[t] <=> c \in subs[t]
          /\ seen'[t][c] = seen[t][c]
          /\ t \in group[c] => t \in group'[c]
        BY <1>1, <2>1, <2>4 DEF TypeOK
    <3>2. \A i \in SubscribeJobsOf(t, c)' : GoesOn(i, t, c)
        BY <2>1 DEF GoesOn
    <3> QED
        BY <1>1, <2>1, <2>2, <3>1, <3>2, QuietServed
  <2> QED
    BY <2>3, <2>4
<1> QED
    BY <1>2, <1>3, <1>4, <1>5, <1>6

\* A job that is lost, or that checks, joins or collects.
LEMMA WorkServed ==
    ASSUME ShapeInv, ShapeInv', ServedInv, NEW j \in Jobs,
           \/ JobExpires(j) \/ JobDies(j) \/ JobCheck(j) \/ JobJoin(j) \/ JobCollect(j),
           NEW t \in Sockets, NEW c \in Channels, Served(t)'
    PROVE  OneRequest(t, c)' /\ Served1(t, c)'
<1>1. TypeOK /\ TypeOK' /\ (\A i \in Jobs : JobSound(i)) /\ \A u \in Sockets : SocketSound(u)
    BY DEF ShapeInv
<1>2. UNCHANGED <<patient, version, unsent, roles, removal, phase, subs, seen, asked>>
    BY DEF JobExpires, JobDies, JobCheck, JobJoin, JobCollect
<1>3. Served(t) /\ OneRequest(t, c) /\ Served1(t, c)
    BY <1>2 DEF Served, ServedInv
<1>4. ASSUME UNCHANGED <<group, inbox>>, \A i \in SubscribeJobsOf(t, c)' : GoesOn(i, t, c)
      PROVE  OneRequest(t, c)' /\ Served1(t, c)'
    BY <1>1, <1>2, <1>3, <1>4, QuietServed
<1>5. CASE JobExpires(j) \/ JobDies(j)
  <2>1. UNCHANGED <<group, inbox>> /\ Free(j)
    BY <1>5 DEF JobExpires, JobDies
  <2>2. \A i \in SubscribeJobsOf(t, c)' : GoesOn(i, t, c)
    BY <1>1, <2>1, Freed DEF SubscribeJobsOf, GoesOn, NoJob
  <2> QED
    BY <1>4, <2>1, <2>2
<1>6. CASE JobCheck(j)
  <2>1. Builds(j) /\ jobs[j].step = "queued" /\ UNCHANGED group
    BY <1>6 DEF JobCheck, Builds
  <2>2. roles
    BY <1>3, ServedFacts
  <2>3. jobs' = [jobs EXCEPT ![j].step = "allowed"] /\ UNCHANGED inbox
    BY <1>6, <2>2 DEF JobCheck, AllowSubscribe
  <2>4. /\ jobs'[j].kind = jobs[j].kind /\ jobs'[j].sock = jobs[j].sock
        /\ jobs'[j].chan = jobs[j].chan /\ jobs'[j].step = "allowed"
        /\ \A i \in Jobs \ {j} : jobs'[i] = jobs[i]
    BY <1>1, <2>1, <2>3, Stepped
  <2>5. \A i \in SubscribeJobsOf(t, c)' : GoesOn(i, t, c)
    BY <2>1, <2>4 DEF SubscribeJobsOf, GoesOn
  <2> QED
    BY <1>4, <2>1, <2>3, <2>5
<1>7. CASE JobJoin(j)
  <2>1. /\ Builds(j) /\ jobs[j].step = "allowed" /\ jobs[j].snap = <<>> /\ UNCHANGED inbox
        /\ jobs' = [jobs EXCEPT ![j].step = "collect"]
        /\ group' = [group EXCEPT ![jobs[j].chan] = @ \cup {jobs[j].sock}]
    BY <1>1, <1>7 DEF JobJoin, Builds, JobSound
  <2>2. /\ jobs'[j].kind = jobs[j].kind /\ jobs'[j].sock = jobs[j].sock
        /\ jobs'[j].chan = jobs[j].chan /\ jobs'[j].snap = <<>>
        /\ \A i \in Jobs \ {j} : jobs'[i] = jobs[i]
    BY <1>1, <2>1, Stepped
  <2>3. /\ t \in group[c] => t \in group'[c]
        /\ t = jobs[j].sock /\ c = jobs[j].chan => t \in group'[c]
    BY <1>1, <2>1 DEF TypeOK
  <2>4. Range(<<>>) = {}
    BY DEF Range
  <2>5. \A i \in SubscribeJobsOf(t, c)' : GoesOn(i, t, c)
    BY <2>1, <2>2, <2>3, <2>4 DEF SubscribeJobsOf, GoesOn
  <2> QED
    BY <1>1, <1>2, <1>3, <2>1, <2>3, <2>5, QuietServed
<1>8. CASE JobCollect(j)
  <2> DEFINE v == version[jobs[j].chan]
             q == Append(jobs[j].snap, v)
  <2>1. /\ Builds(j) /\ jobs[j].step = "collect" /\ UNCHANGED <<group, inbox>>
        /\ jobs' = [jobs EXCEPT ![j] = [jobs[j] EXCEPT !.snap = q]]
    BY <1>8 DEF JobCollect, Builds
  <2>2. /\ jobs[j].chan \in Channels /\ jobs[j].snap \in Seq(Versions) /\ jobs[j] \in SubscribeJobs
    BY <2>1, BuildingJob
  <2>3. v \in Versions
    BY <1>1, <2>2 DEF TypeOK
  <2>4. Range(q) = Range(jobs[j].snap) \cup {v}
    BY <2>2, <2>3, RangeOfAppend
  <2> HIDE DEF q
  <2>5. /\ jobs'[j].kind = jobs[j].kind /\ jobs'[j].sock = jobs[j].sock
        /\ jobs'[j].chan = jobs[j].chan /\ jobs'[j].snap = q
        /\ jobs'[j].step = "collect"
        /\ \A i \in Jobs \ {j} : jobs'[i] = jobs[i]
    <3>1. jobs'[j] = [jobs[j] EXCEPT !.snap = q] /\ \A i \in Jobs \ {j} : jobs'[i] = jobs[i]
        BY <1>1, <2>1 DEF TypeOK
    <3> QED
        BY <2>1, <2>2, <3>1 DEF SubscribeJobs
  <2>6. Fresh(t, c) => Fresh(t, c)'
    BY <1>2, <2>1 DEF Fresh
  <2>7. ASSUME jobs[j].sock = t, jobs[j].chan = c PROVE GoesOn(j, t, c)
    <3>1. j \in SubscribeJobsOf(t, c)
        BY <2>1, <2>7 DEF SubscribeJobsOf, Builds
    <3>2. t \in group[c] /\ \A w \in Range(jobs[j].snap) : w = version[c] \/ Fresh(t, c)
        BY <1>3, <2>1, <3>1 DEF Served1, SnapFresh
    <3>3. \A w \in Range(jobs'[j].snap) : w = version'[c] \/ Fresh(t, c)'
        BY <1>2, <2>4, <2>5, <2>6, <2>7, <3>2
    <3> QED
        BY <2>1, <2>5, <2>7, <3>2, <3>3 DEF GoesOn
  <2>8. \A i \in SubscribeJobsOf(t, c)' : GoesOn(i, t, c)
    BY <2>5, <2>7 DEF SubscribeJobsOf, GoesOn
  <2> QED
    BY <1>4, <2>1, <2>8
<1> QED
    BY <1>5, <1>6, <1>7, <1>8

\* The consumer is told of the subscription, the state comes behind it.
LEMMA TellServed ==
    ASSUME ShapeInv, ShapeInv', ServedInv, NEW j \in Jobs, JobTell(j) \/ JobState(j),
           NEW t \in Sockets, NEW c \in Channels, Served(t)'
    PROVE  OneRequest(t, c)' /\ Served1(t, c)'
<1>1. TypeOK /\ TypeOK'
    BY DEF ShapeInv
<1>2. /\ UNCHANGED <<patient, version, unsent, roles, removal, phase, subs, seen, asked, group>>
      /\ jobs[j].kind = "subscribe" /\ Builds(j)
    BY DEF JobTell, JobState, Builds
<1>3. Served(t) /\ OneRequest(t, c) /\ Served1(t, c) /\ phase[t] # "gone"
    BY <1>2 DEF Served, ServedInv
<1>4. /\ jobs[j].sock \in Sockets /\ jobs[j].chan \in Channels /\ jobs[j].snap \in Seq(Versions)
    BY <1>2, BuildingJob
<1>5. PICK m \in Messages :
          /\ Send(jobs[j].sock, m) /\ m.chan = jobs[j].chan
          /\ JobTell(j) => m.type = "subscribed"
          /\ JobState(j) => m.type = "state" /\ m.snap = jobs[j].snap
  <2>1. CASE JobTell(j)
    <3> DEFINE x == [type |-> "subscribed", chan |-> jobs[j].chan]
    <3>1. x \in Messages /\ Send(jobs[j].sock, x)
        BY <1>4, <2>1, MessageTypes DEF JobTell
    <3>2. x.chan = jobs[j].chan /\ x.type = "subscribed"
        OBVIOUS
    <3>3. ~JobState(j)
        BY <2>1 DEF JobTell, JobState, Collected
    <3> HIDE DEF x
    <3> QED
        BY <3>1, <3>2, <3>3
  <2>2. CASE JobState(j)
    <3> DEFINE x == [type |-> "state", chan |-> jobs[j].chan, snap |-> jobs[j].snap]
    <3>1. x \in Messages /\ Send(jobs[j].sock, x)
        BY <1>4, <2>2, MessageTypes DEF JobState
    <3>2. x.chan = jobs[j].chan /\ x.type = "state" /\ x.snap = jobs[j].snap
        OBVIOUS
    <3>3. ~JobTell(j)
        BY <2>2 DEF JobTell, JobState, Collected
    <3> HIDE DEF x
    <3> QED
        BY <3>1, <3>2, <3>3
  <2> QED
    BY <2>1, <2>2
<1>6. \A i \in Jobs \ {j} : jobs'[i] = jobs[i]
    BY <1>1, <1>2, Stepped, Freed DEF JobTell, JobState
<1>7. /\ t # jobs[j].sock => inbox'[t] = inbox[t]
      /\ t = jobs[j].sock => inbox'[t] = Append(inbox[t], m)
    BY <1>1, <1>3, <1>4, <1>5, Sent
<1>8. CASE ~(t = jobs[j].sock /\ c = jobs[j].chan)
  <2>1. \A i \in SubscribeJobsOf(t, c)' : GoesOn(i, t, c)
    <3>1. CASE JobTell(j)
        <4>1. jobs'[j].sock = jobs[j].sock /\ jobs'[j].chan = jobs[j].chan
            BY <1>1, <1>2, <3>1, Stepped DEF JobTell
        <4> QED
            BY <1>6, <1>8, <4>1 DEF SubscribeJobsOf, GoesOn
    <3>2. CASE JobState(j)
        <4>1. jobs'[j] = NoJob
            BY <1>1, <3>2, Freed DEF JobState
        <4> QED
            BY <1>6, <4>1 DEF SubscribeJobsOf, GoesOn, NoJob
    <3> QED
        BY <3>1, <3>2
  <2>2. \/ inbox'[t] = inbox[t]
        \/ \E x \in Messages : /\ inbox'[t] = Append(inbox[t], x)
                               /\ ~(x.type \in {"subscribed", "state"} /\ x.chan = c)
    BY <1>5, <1>7, <1>8
  <2> QED
    BY <1>1, <1>2, <1>3, <2>1, <2>2, QuietServed
<1>9. CASE t = jobs[j].sock /\ c = jobs[j].chan
  <2>1. j \in SubscribeJobsOf(t, c)
    BY <1>2, <1>9 DEF SubscribeJobsOf
  <2>2. /\ c \in asked[t] /\ SubscribeJobsOf(t, c) = {j} /\ ~Waiting(t, "state", c)
        /\ Waiting(t, "subscribed", c) => jobs[j].step = "told"
    BY <1>2, <1>3, <2>1 DEF OneRequest
  <2>3. jobs[j].step \in {"collect", "told"}
    BY DEF JobTell, JobState, Collected
  <2>4. t \in group[c] /\ SnapFresh(t, c, jobs[j].snap)
    BY <1>3, <2>1, <2>3 DEF Served1
  <2>5. inbox[t] \in Seq(Messages) /\ inbox'[t] = Append(inbox[t], m)
    BY <1>1, <1>7, <1>9 DEF TypeOK
  <2>6. /\ Len(inbox[t]) \in Nat /\ DOMAIN inbox[t] = 1..Len(inbox[t])
        /\ DOMAIN inbox'[t] = 1..(Len(inbox[t]) + 1)
        /\ inbox'[t][Len(inbox[t]) + 1] = m
        /\ \A i \in 1..Len(inbox[t]) : inbox'[t][i] = inbox[t][i]
        /\ Range(inbox'[t]) = Range(inbox[t]) \cup {m}
    BY <2>5, Appended, RangeOfAppend
  <2>7. Fresh(t, c) => Fresh(t, c)'
    BY <1>2, <2>6 DEF Fresh
  <2>9. c \in subs'[t] => t \in group'[c] /\ c \in asked'[t]
    BY <1>2, <2>2, <2>4
  <2>10. CASE JobTell(j)
    <3>1. /\ m.type = "subscribed"
          /\ jobs'[j].step = "told" /\ jobs'[j].snap = jobs[j].snap
          /\ jobs'[j].sock = jobs[j].sock /\ jobs'[j].chan = jobs[j].chan
        BY <1>1, <1>2, <1>5, <2>10, Stepped DEF JobTell
    <3>2. SubscribeJobsOf(t, c)' \subseteq {j}
        BY <1>6, <2>2 DEF SubscribeJobsOf
    <3>3. \A i \in DOMAIN inbox'[t] : ~IsAt(t, i, "state", c)'
        BY <2>2, <2>6, <3>1 DEF IsAt, Waiting
    <3>4. ~Waiting(t, "state", c)'
        BY <3>3 DEF IsAt, Waiting
    <3>5. OneRequest(t, c)'
        BY <1>2, <2>2, <3>1, <3>2, <3>3, <3>4 DEF OneRequest
    <3>6. \A x \in Range(inbox'[t]) : ~(x.type = "state" /\ x.chan = c)
        BY <3>4 DEF Waiting, Range
    <3>7. SnapFresh(t, c, jobs[j].snap)'
        <4>1. \A v \in Range(jobs[j].snap) : v = version'[c] \/ Fresh(t, c)'
            BY <1>2, <2>4, <2>7 DEF SnapFresh
        <4> QED
            BY <3>1, <4>1 DEF SnapFresh
    <3>8. Served1(t, c)'
        BY <1>2, <2>4, <2>9, <3>1, <3>2, <3>6, <3>7 DEF Served1
    <3> QED
        BY <3>5, <3>8
  <2>11. CASE JobState(j)
    <3>1. m.type = "state" /\ m.snap = jobs[j].snap /\ jobs'[j] = NoJob
        BY <1>1, <1>5, <2>11, Freed DEF JobState
    <3>2. SubscribeJobsOf(t, c)' = {}
        BY <1>6, <2>2, <3>1 DEF SubscribeJobsOf, NoJob
    <3>3. \A i \in DOMAIN inbox'[t] : IsAt(t, i, "state", c)' => i = Len(inbox[t]) + 1
        BY <2>2, <2>6 DEF IsAt, Waiting
    <3>4. \A i \in DOMAIN inbox'[t] : IsAt(t, i, "subscribed", c)' => i \in 1..Len(inbox[t])
        BY <2>6, <3>1 DEF IsAt
    <3>5. OneRequest(t, c)'
      <4>1. ASSUME NEW i \in DOMAIN inbox'[t], IsAt(t, i, "state", c)',
                   NEW k \in DOMAIN inbox'[t], IsAt(t, k, "subscribed", c)'
            PROVE  k < i
        <5>1. i = Len(inbox[t]) + 1 /\ k \in 1..Len(inbox[t])
            BY <3>3, <3>4, <4>1
        <5> QED
            BY <2>6, <5>1
      <4>2. c \in asked'[t]
        BY <1>2, <2>2
      <4> QED
        BY <3>2, <3>3, <4>1, <4>2 DEF OneRequest
    <3>6. ASSUME NEW x \in Range(inbox'[t]), x.type = "state", x.chan = c
          PROVE  t \in group'[c] /\ \A v \in Range(x.snap) : v = version'[c] \/ Fresh(t, c)'
      <4>1. CASE x = m
        BY <1>2, <2>4, <2>7, <3>1, <4>1 DEF SnapFresh
      <4>2. CASE x \in Range(inbox[t])
        BY <2>2, <3>6, <4>2 DEF Waiting, Range
      <4> QED
        BY <2>6, <3>6, <4>1, <4>2
    <3>7. t \in group'[c]
        BY <1>2, <2>4
    <3>8. Served1(t, c)'
        BY <2>9, <3>2, <3>6, <3>7 DEF Served1, SnapFresh
    <3> QED
        BY <3>5, <3>8
  <2> QED
    BY <2>10, <2>11
<1> QED
    BY <1>8, <1>9

\* The consumer tracks the organisation, whose state it has read itself.
LEMMA InlineServed ==
    ASSUME ShapeInv, ShapeInv', ServedInv, NEW j \in Jobs, InlineDone(j),
           NEW t \in Sockets, NEW c \in Channels, Served(t)'
    PROVE  OneRequest(t, c)' /\ Served1(t, c)'
<1>1. TypeOK /\ TypeOK' /\ (\A i \in Jobs : JobSound(i)) /\ \A u \in Sockets : SocketSound(u)
    BY DEF ShapeInv
<1>2. /\ jobs[j].kind = "inline" /\ Builds(j) /\ jobs[j].step = "collect"
      /\ Len(jobs[j].snap) = NumCollectors /\ Free(j)
      /\ subs' = [subs EXCEPT ![jobs[j].sock] = @ \cup {jobs[j].chan}]
      /\ seen' = [seen EXCEPT ![jobs[j].sock][jobs[j].chan] = Newest(@, Min(Range(jobs[j].snap)))]
      /\ phase' = [phase EXCEPT ![jobs[j].sock] = "open"]
      /\ UNCHANGED <<patient, version, unsent, removal, group, inbox, asked>>
    BY DEF InlineDone, Builds, Collected
<1>3. /\ jobs[j].sock \in Sockets /\ jobs[j].chan = Organisation
      /\ phase[jobs[j].sock] = "connecting"
      /\ \A i \in Jobs : jobs[i].kind = "inline" /\ jobs[i].sock = jobs[j].sock => i = j
      /\ jobs[j].snap \in Seq(Versions) /\ \A v \in Range(jobs[j].snap) : v =< version[Organisation]
    BY <1>1, <1>2, BuildingJob DEF JobSound
<1>4. jobs'[j] = NoJob /\ \A i \in Jobs \ {j} : jobs'[i] = jobs[i]
    BY <1>1, <1>2, Freed
<1>5. Served(t)
    BY <1>1, <1>2, <1>3 DEF Served, TypeOK
<1>6. OneRequest(t, c) /\ Served1(t, c)
    BY <1>5 DEF ServedInv
<1>7. \A i \in SubscribeJobsOf(t, c)' : jobs'[i] = jobs[i] /\ GoesOn(i, t, c)
    BY <1>4 DEF SubscribeJobsOf, GoesOn, NoJob
<1>8. CASE ~(t = jobs[j].sock /\ c = Organisation)
  <2>1. (c \in subs'[t] <=> c \in subs[t]) /\ seen'[t][c] = seen[t][c]
    BY <1>1, <1>2, <1>3, <1>8 DEF TypeOK
  <2> QED
    BY <1>1, <1>2, <1>6, <1>7, <2>1, QuietServed
<1>9. CASE t = jobs[j].sock /\ c = Organisation
  <2>1. /\ t \in group[c]
        /\ \A v \in Range(jobs[j].snap) : v = version[c] \/ Fresh(t, c)
    <3>1. j \in SubscribeJobsOf(t, c)
        BY <1>2, <1>3, <1>9 DEF SubscribeJobsOf
    <3> QED
        BY <1>2, <1>6, <3>1 DEF Served1, SnapFresh
  <2>2. PICK v \in Range(jobs[j].snap) : v = Min(Range(jobs[j].snap))
    <3>1. jobs[j].snap # <<>>
        BY <1>2, BoundsAssumption
    <3> QED
        BY <1>3, <3>1, OldestPart
  <2>3. v \in Int /\ v =< version[c]
    <3>1. Range(jobs[j].snap) \subseteq Versions
        BY <1>3 DEF Range
    <3> QED
        BY <1>3, <1>9, <3>1, BoundsAssumption DEF Versions
  <2>4. version[c] \in Nat /\ seen[t][c] \in Int /\ seen[t][c] =< version[c]
    BY <1>5, ServedFacts
  <2>5. seen'[t][c] = Newest(seen[t][c], v)
    BY <1>1, <1>2, <1>3, <1>9, <2>2 DEF TypeOK
  <2>6. Fresh(t, c)'
    <3>1. CASE v = version[c] \/ seen[t][c] = version[c]
        BY <1>2, <2>3, <2>4, <2>5, <3>1, NewestSeen DEF Fresh
    <3>2. CASE Fresh(t, c) /\ seen[t][c] # version[c]
        BY <1>2, <3>2 DEF Fresh
    <3> QED
        BY <2>1, <3>1, <3>2
  <2>7. SubscribeJobsOf(t, c)' = {}
    <3>1. \A i \in SubscribeJobsOf(t, c) : jobs[i].kind = "inline"
        BY <1>9, BuildingJob DEF SubscribeJobsOf, Builds
    <3>2. SubscribeJobsOf(t, c) \subseteq {j}
        BY <1>3, <1>9, <3>1 DEF SubscribeJobsOf
    <3> QED
        BY <1>4, <3>2 DEF SubscribeJobsOf, NoJob
  <2>8. \A m \in Range(inbox'[t]) : m.type \in {"subscribed", "state"} => m.chan # c
    BY <1>1, <1>2, <1>9 DEF SocketSound, MessageSound
  <2>9. ~Waiting(t, "state", c)' /\ ~Waiting(t, "subscribed", c)'
    BY <2>8 DEF Waiting, Range
  <2>10. OneRequest(t, c)'
    BY <2>7, <2>9 DEF OneRequest, Waiting, IsAt
  <2>11. t \in group'[c]
    BY <1>2, <2>1
  <2>12. Served1(t, c)'
    BY <2>6, <2>7, <2>8, <2>9, <2>11 DEF Served1
  <2> QED
    BY <2>10, <2>12
<1> QED
    BY <1>8, <1>9

\* What commits is unsent, and what is published goes to the members of the group.
LEMMA PublishServed ==
    ASSUME ShapeInv, ShapeInv', ServedInv, NEW k \in Channels, NEW v \in Versions,
           Commit(k) \/ Publish(k, v),
           NEW t \in Sockets, NEW c \in Channels, Served(t)'
    PROVE  OneRequest(t, c)' /\ Served1(t, c)'
<1>1. TypeOK /\ TypeOK'
    BY DEF ShapeInv
<1>2. UNCHANGED <<patient, removal, phase, group, subs, jobs, seen, asked>>
    BY DEF Commit, Publish
<1>3. Served(t) /\ OneRequest(t, c) /\ Served1(t, c)
    BY <1>2 DEF Served, ServedInv
<1>4. \A i \in SubscribeJobsOf(t, c)' : GoesOn(i, t, c)
    BY <1>2 DEF GoesOn
<1>5. inbox[t] \in Seq(Messages) /\ DOMAIN inbox[t] \subseteq Nat
  <2>1. inbox[t] \in Seq(Messages)
    BY <1>1 DEF TypeOK
  <2> QED
    BY <2>1
<1>6. CASE Commit(k)
  <2>1. /\ version' = [version EXCEPT ![k] = @ + 1]
        /\ unsent' = [unsent EXCEPT ![k] = @ \cup {version[k] + 1}]
        /\ UNCHANGED inbox
    BY <1>6 DEF Commit
  <2>2. CASE c # k
    <3>1. version'[c] = version[c] /\ unsent'[c] = unsent[c]
        BY <1>1, <2>1, <2>2 DEF TypeOK
    <3> QED
        BY <1>1, <1>2, <1>3, <1>4, <2>1, <3>1, QuietServed
  <2>3. CASE c = k
    <3>1. Fresh(t, c)'
        BY <1>1, <2>1, <2>3 DEF Fresh, TypeOK
    <3>2. \A i \in DOMAIN inbox'[t] : i + 0 \in DOMAIN inbox[t] /\ inbox'[t][i] = inbox[t][i + 0]
        BY <1>5, <2>1
    <3> QED
        BY <1>1, <1>2, <1>3, <1>4, <3>1, <3>2, ServedStays
  <2> QED
    BY <2>2, <2>3
<1>7. CASE Publish(k, v)
  <2> DEFINE m == [type |-> "update", chan |-> k, version |-> v]
  <2>1. /\ unsent' = [unsent EXCEPT ![k] = @ \ {v}] /\ UNCHANGED version
        /\ inbox'[t] = IF t \in group[k] /\ phase[t] # "gone" THEN Append(inbox[t], m) ELSE inbox[t]
    BY <1>1, <1>7, Published DEF Publish
  <2>2. m \in Messages /\ m.type = "update" /\ (v = version[c] /\ k = c =>
            m = [type |-> "update", chan |-> c, version |-> version[c]])
    BY MessageTypes
  <2> HIDE DEF m
  <2>3. /\ Len(inbox[t]) \in Nat /\ DOMAIN inbox[t] = 1..Len(inbox[t])
        /\ DOMAIN Append(inbox[t], m) = 1..(Len(inbox[t]) + 1)
        /\ Append(inbox[t], m)[Len(inbox[t]) + 1] = m
        /\ \A i \in 1..Len(inbox[t]) : Append(inbox[t], m)[i] = inbox[t][i]
        /\ Range(Append(inbox[t], m)) = Range(inbox[t]) \cup {m}
    BY <1>5, <2>2, Appended, RangeOfAppend
  <2>4. Range(inbox[t]) \subseteq Range(inbox'[t])
    BY <2>1, <2>3
  <2>5. t \in group[c] /\ Fresh(t, c) => Fresh(t, c)'
    <3>1. CASE k = c /\ v = version[c] /\ t \in group[c]
        <4>1. m \in Range(inbox'[t]) /\ m = [type |-> "update", chan |-> c, version |-> version[c]]
            BY <1>3, <2>1, <2>2, <2>3, <3>1 DEF Served
        <4> QED
            BY <2>1, <4>1 DEF Fresh
    <3>2. CASE ~(k = c /\ v = version[c])
        <4>1. version[c] \in unsent[c] => version[c] \in unsent'[c]
            BY <1>1, <2>1, <3>2 DEF TypeOK
        <4> QED
            BY <1>2, <2>1, <2>4, <4>1, FreshStays
    <3> QED
        BY <3>1, <3>2
  <2>6. \A i \in DOMAIN inbox'[t] :
            inbox'[t][i].type \in {"subscribed", "state"} /\ inbox'[t][i].chan = c =>
                i + 0 \in DOMAIN inbox[t] /\ inbox'[t][i] = inbox[t][i + 0]
    <3>1. CASE inbox'[t] = inbox[t]
        BY <1>5, <3>1
    <3>2. CASE inbox'[t] = Append(inbox[t], m)
        BY <2>2, <2>3, <3>2
    <3> QED
        BY <2>1, <3>1, <3>2
  <2> QED
    BY <1>1, <1>2, <1>3, <1>4, <2>1, <2>5, <2>6, ServedStays
<1> QED
    BY <1>6, <1>7

\* Every step serves the patient clients.
LEMMA ServedKept == ShapeInv /\ ShapeInv' /\ ServedInv /\ [Next]_vars => ServedInv'
<1> SUFFICES ASSUME ShapeInv, ShapeInv', ServedInv, [Next]_vars,
                    NEW t \in Sockets, NEW c \in Channels, Served(t)'
             PROVE  OneRequest(t, c)' /\ Served1(t, c)'
    BY DEF ServedInv
<1>1. TypeOK /\ TypeOK' /\ VersionsSound /\ \A j \in Jobs : JobSound(j)
    BY DEF ShapeInv
<1>2. ASSUME NEW s \in Sockets, Deliver(s) PROVE OneRequest(t, c)' /\ Served1(t, c)'
  <2>1. UNCHANGED <<patient, removal, phase, version, unsent, group>>
    BY <1>2 DEF Deliver
  <2>2. Served(t) /\ OneRequest(t, c) /\ Served1(t, c)
    BY <2>1 DEF Served, ServedInv
  <2>3. CASE t = s
    BY <1>1, <1>2, <2>2, <2>3, DeliverServed
  <2>4. CASE t # s
    <3>1. /\ inbox'[t] = inbox[t] /\ subs'[t] = subs[t] /\ asked'[t] = asked[t]
          /\ seen'[t] = seen[t]
        BY <1>1, <1>2, <2>4 DEF Deliver, OnSubscribed, OnState, OnSubscribeError, OnLeft,
           OnUpdate, Recheck, TypeOK
    <3>2. \A j \in SubscribeJobsOf(t, c)' : jobs'[j] = jobs[j]
      <4>1. CASE UNCHANGED jobs
        BY <4>1
      <4>2. CASE Enqueue([kind |-> "recheck", sock |-> s, refs |-> subs[s]])
        <5> DEFINE job == [kind |-> "recheck", sock |-> s, refs |-> subs[s]]
        <5>1. PICK j \in Jobs : jobs[j] = NoJob /\ jobs' = [jobs EXCEPT ![j] = job]
            BY <1>1, <4>2, Enqueued
        <5>2. job.kind = "recheck" /\ jobs'[j] = job /\ \A i \in Jobs \ {j} : jobs'[i] = jobs[i]
            BY <1>1, <5>1 DEF TypeOK
        <5> HIDE DEF job
        <5> QED
            BY <5>2 DEF SubscribeJobsOf
      <4> QED
        BY <1>2, <4>1, <4>2 DEF Deliver, OnSubscribed, OnState, OnSubscribeError, OnLeft,
           OnUpdate, Recheck
    <3> QED
        BY <1>1, <2>1, <2>2, <3>1, <3>2, OthersServed
  <2> QED
    BY <2>3, <2>4
<1>3. ASSUME NEW j \in Jobs, RecheckRef(j) PROVE OneRequest(t, c)' /\ Served1(t, c)'
    BY <1>1, <1>3 DEF RecheckRef, JobSound, Served
<1>4. ASSUME RemoveRoles \/ RemoveRolesCommits \/ AddRoles PROVE OneRequest(t, c)' /\ Served1(t, c)'
    BY <1>1, <1>4 DEF RemoveRoles, RemoveRolesCommits, AddRoles, VersionsSound, Served
<1>5. ASSUME UNCHANGED vars PROVE OneRequest(t, c)' /\ Served1(t, c)'
  <2>1. Served(t)
    BY <1>5 DEF Served, vars
  <2> QED
    BY <1>1, <1>5, <2>1, OthersServed DEF vars
<1>6. ASSUME NEW s \in Sockets,
             \/ Connect(s) \/ Disconnect(s) \/ Crash(s) \/ GroupExpiry(s)
             \/ \E k \in Channels : Subscribe(s, k) \/ Leave(s, k)
      PROVE  OneRequest(t, c)' /\ Served1(t, c)'
    BY <1>6, SocketServed
<1>7. ASSUME NEW j \in Jobs,
             \/ JobExpires(j) \/ JobDies(j) \/ JobCheck(j) \/ JobJoin(j) \/ JobCollect(j)
             \/ JobTell(j) \/ JobState(j) \/ InlineDone(j)
      PROVE  OneRequest(t, c)' /\ Served1(t, c)'
  <2>1. JobTell(j) \/ JobState(j) => OneRequest(t, c)' /\ Served1(t, c)'
    BY TellServed
  <2>2. JobExpires(j) \/ JobDies(j) \/ JobCheck(j) \/ JobJoin(j) \/ JobCollect(j)
            => OneRequest(t, c)' /\ Served1(t, c)'
    BY WorkServed
  <2> QED
    BY <1>7, <2>1, <2>2, InlineServed
<1>8. ASSUME NEW k \in Channels, Commit(k) \/ \E v \in Versions : Publish(k, v)
      PROVE  OneRequest(t, c)' /\ Served1(t, c)'
    BY <1>8, PublishServed, BoundsAssumption DEF Versions
<1> QED
    BY <1>2, <1>3, <1>4, <1>5, <1>6, <1>7, <1>8 DEF Next, JobStep

-----------------------------------------------------------------------------
(* A recheck finds everything that was allowed before it *)

\* A channel that was covered by the check stays so.
StaysCovered(s, c) ==
    \/ \E j \in SubscribeJobsOf(s, c) : jobs[j].step # "queued"
    \/ /\ \A j \in SubscribeJobsOf(s, c)' : jobs'[j] = jobs[j] \/ jobs'[j].step = "queued"
       /\ Waiting(s, "subscribed", c)' => Waiting(s, "subscribed", c)
       /\ s \in group'[c] => s \in group[c] /\ (Rechecked(s, c) => Rechecked(s, c)')
       /\ c \in subs'[s] =>
              /\ c \in subs[s]
              /\ Waiting(s, "left", c) => Waiting(s, "left", c)'
              /\ Rechecked(s, c) => Rechecked(s, c)' \/ Waiting(s, "left", c)'

\* So does the socket, when all its channels do.
LEMMA CoveredStays ==
    ASSUME TypeOK, NEW s \in Sockets, Covered(s),
           (\E m \in Range(inbox[s]) : m.type = "recheck")
               => \E m \in Range(inbox'[s]) : m.type = "recheck",
           \A c \in Channels \ {Organisation} : StaysCovered(s, c)
    PROVE  Covered(s)'
<1>1. CASE \E m \in Range(inbox[s]) : m.type = "recheck"
    BY <1>1 DEF Covered
<1>2. CASE ~ \E m \in Range(inbox[s]) : m.type = "recheck"
  <2>1. SUFFICES ASSUME NEW c \in Channels \ {Organisation}
                 PROVE  /\ \A j \in SubscribeJobsOf(s, c)' : jobs'[j].step = "queued"
                        /\ ~Waiting(s, "subscribed", c)'
                        /\ c \in subs'[s] => Waiting(s, "left", c)' \/ Rechecked(s, c)'
                        /\ s \in group'[c] => Rechecked(s, c)'
    BY DEF Covered
  <2>2. /\ \A j \in SubscribeJobsOf(s, c) : jobs[j].step = "queued"
        /\ ~Waiting(s, "subscribed", c)
        /\ c \in subs[s] => Waiting(s, "left", c) \/ Rechecked(s, c)
        /\ s \in group[c] => Rechecked(s, c)
    BY <1>2 DEF Covered
  <2>3. /\ \A j \in SubscribeJobsOf(s, c)' : jobs'[j] = jobs[j] \/ jobs'[j].step = "queued"
        /\ Waiting(s, "subscribed", c)' => Waiting(s, "subscribed", c)
        /\ s \in group'[c] => s \in group[c] /\ (Rechecked(s, c) => Rechecked(s, c)')
        /\ c \in subs'[s] =>
              /\ c \in subs[s]
              /\ Waiting(s, "left", c) => Waiting(s, "left", c)'
              /\ Rechecked(s, c) => Rechecked(s, c)' \/ Waiting(s, "left", c)'
    BY <2>2 DEF StaysCovered
  <2>4. \A j \in SubscribeJobsOf(s, c)' : jobs'[j] = jobs[j] => j \in SubscribeJobsOf(s, c)
    BY DEF SubscribeJobsOf
  <2> QED
    BY <2>2, <2>3, <2>4
<1> QED
    BY <1>1, <1>2

\* What was waiting still is, and only what was sent is new.
LEMMA InboxGrows ==
    ASSUME TypeOK, NEW s \in Sockets, NEW m \in Messages,
           inbox'[s] = inbox[s] \/ inbox'[s] = Append(inbox[s], m)
    PROVE  /\ \A type, c : Waiting(s, type, c) => Waiting(s, type, c)'
           /\ \A type, c : Waiting(s, type, c)' =>
                  Waiting(s, type, c) \/ (m.type = type /\ m.chan = c)
           /\ inbox'[s] = Append(inbox[s], m) => \A type, c :
                  m.type = type /\ m.chan = c => Waiting(s, type, c)'
           /\ Range(inbox[s]) \subseteq Range(inbox'[s])
<1>1. inbox[s] \in Seq(Messages)
    BY DEF TypeOK
<1>2. CASE inbox'[s] = inbox[s] /\ inbox'[s] # Append(inbox[s], m)
    BY <1>2 DEF Waiting
<1>3. CASE inbox'[s] = Append(inbox[s], m)
  <2>1. /\ Len(inbox[s]) \in Nat /\ DOMAIN inbox[s] = 1..Len(inbox[s])
        /\ DOMAIN inbox'[s] = 1..(Len(inbox[s]) + 1)
        /\ inbox'[s][Len(inbox[s]) + 1] = m
        /\ \A i \in 1..Len(inbox[s]) : inbox'[s][i] = inbox[s][i]
        /\ Range(inbox'[s]) = Range(inbox[s]) \cup {m}
    BY <1>1, <1>3, Appended, RangeOfAppend
  <2>2. PICK n \in Nat : n = Len(inbox[s]) + 1
    BY <2>1
  <2>3. /\ DOMAIN inbox[s] \subseteq DOMAIN inbox'[s]
        /\ \A i \in DOMAIN inbox[s] : inbox'[s][i] = inbox[s][i]
        /\ n \in DOMAIN inbox'[s] /\ inbox'[s][n] = m
        /\ \A i \in DOMAIN inbox'[s] : i # n => i \in DOMAIN inbox[s]
    BY <2>1, <2>2
  <2> QED
    BY <2>1, <2>3 DEF Waiting
<1> QED
    BY <1>2, <1>3

\* A step that allows the socket nothing.
LEMMA QuietCovered ==
    ASSUME TypeOK, NEW s \in Sockets, Covered(s), NEW m \in Messages,
           inbox'[s] = inbox[s] \/ inbox'[s] = Append(inbox[s], m),
           \A c \in Channels \ {Organisation} :
               \/ \E j \in SubscribeJobsOf(s, c) : jobs[j].step # "queued"
               \/ /\ \A j \in SubscribeJobsOf(s, c)' : jobs'[j] = jobs[j] \/ jobs'[j].step = "queued"
                  /\ ~(m.type = "subscribed" /\ m.chan = c)
                  /\ s \in group'[c] => s \in group[c]
                  /\ c \in subs'[s] => c \in subs[s],
           \A j \in Jobs : jobs[j].kind = "recheck" /\ jobs[j].sock = s => jobs'[j] = jobs[j]
    PROVE  Covered(s)'
<1>1. /\ \A type, c : Waiting(s, type, c) => Waiting(s, type, c)'
      /\ \A type, c : Waiting(s, type, c)' =>
             Waiting(s, type, c) \/ (m.type = type /\ m.chan = c)
      /\ Range(inbox[s]) \subseteq Range(inbox'[s])
    BY InboxGrows
<1>2. \A c : Rechecked(s, c) => Rechecked(s, c)'
    BY DEF Rechecked
<1>3. \A c \in Channels \ {Organisation} : StaysCovered(s, c)
    BY <1>1, <1>2 DEF StaysCovered
<1> QED
    BY <1>1, <1>3, CoveredStays

\* The consumer handles a message: a recheck looks at all it tracks.
LEMMA DeliverCovered ==
    ASSUME ShapeInv, ShapeInv', JoinedInv, NEW s \in Sockets, Deliver(s), Revoking(s)',
           Revoking(s) /\ Covered(s)
    PROVE  Covered(s)'
<1>1. TypeOK /\ SocketSound(s)
    BY DEF ShapeInv
<1> DEFINE m == Head(inbox[s])
<1>2. /\ inbox[s] \in Seq(Messages) /\ inbox[s] # <<>> /\ phase[s] = "open"
      /\ inbox' = [inbox EXCEPT ![s] = Tail(@)]
      /\ UNCHANGED group
    BY <1>1 DEF Deliver, TypeOK
<1>3. inbox'[s] = Tail(inbox[s])
    BY <1>1, <1>2 DEF TypeOK
<1>4. /\ Len(inbox[s]) \in Nat \ {0} /\ DOMAIN inbox[s] = 1..Len(inbox[s])
      /\ m = inbox[s][1] /\ m \in Messages
      /\ DOMAIN inbox'[s] = 1..(Len(inbox[s]) - 1)
      /\ \A i \in 1..(Len(inbox[s]) - 1) : inbox'[s][i] = inbox[s][i + 1]
      /\ Range(inbox[s]) = {m} \cup Range(inbox'[s])
    BY <1>2, <1>3, InboxHead
<1>5. \/ OnSubscribed(s, m) \/ OnState(s, m) \/ OnSubscribeError(s, m)
      \/ OnLeft(s, m) \/ OnUpdate(s, m) \/ Recheck(s, m)
    BY DEF Deliver
<1> HIDE DEF m
<1>6. \A type, c : Waiting(s, type, c)' => Waiting(s, type, c)
  <2>1. \A i \in DOMAIN inbox'[s] : i + 1 \in DOMAIN inbox[s] /\ inbox'[s][i] = inbox[s][i + 1]
    BY <1>4
  <2>2. \A i \in DOMAIN inbox'[s] : \E k \in DOMAIN inbox[s] : inbox'[s][i] = inbox[s][k]
    BY <2>1
  <2> QED
    BY <2>2 DEF Waiting
<1>7. \A type, c : Waiting(s, type, c) /\ ~(m.type = type /\ m.chan = c) => Waiting(s, type, c)'
  <2>1. ASSUME NEW type, NEW c, Waiting(s, type, c), ~(m.type = type /\ m.chan = c)
        PROVE  Waiting(s, type, c)'
    <3>1. PICK i \in DOMAIN inbox[s] : inbox[s][i].type = type /\ inbox[s][i].chan = c
        BY <2>1 DEF Waiting
    <3>2. inbox[s][i] # m
        BY <2>1, <3>1
    <3>3. i # 1
        BY <1>4, <3>2
    <3>4. i - 1 \in DOMAIN inbox'[s] /\ inbox'[s][i - 1] = inbox[s][i]
        <4>1. i \in 1..Len(inbox[s])
            BY <1>4
        <4>2. i - 1 \in 1..(Len(inbox[s]) - 1) /\ (i - 1) + 1 = i
            BY <1>4, <3>3, <4>1
        <4> QED
            BY <1>4, <4>2
    <3> QED
        BY <3>1, <3>4 DEF Waiting
  <2> QED
    BY <2>1
<1>8. CASE Recheck(s, m)
  <2>1. ~tooEarly[s] /\ ~tooEarly'[s] /\ ~dropped[s]
    BY <1>1, <1>8 DEF Revoking, Recheck, TypeOK
  <2>2. \A c \in Channels : ~Arriving(s, c)
    BY <1>1, <1>8, <2>1 DEF Recheck, TypeOK
  <2>3. \A c \in Channels : SubscribeJobsOf(s, c) = {} /\ ~Waiting(s, "subscribed", c)
    BY <2>2 DEF Arriving
  <2>4. \A c \in Channels : SubscribeJobsOf(s, c)' = {} /\ (c \in subs[s] => Rechecked(s, c)')
    <3>1. CASE subs[s] = {}
        BY <1>8, <2>3, <3>1 DEF Recheck, SubscribeJobsOf
    <3>2. CASE subs[s] # {}
        <4> DEFINE job == [kind |-> "recheck", sock |-> s, refs |-> subs[s]]
        <4>1. PICK j \in Jobs : jobs[j] = NoJob /\ jobs' = [jobs EXCEPT ![j] = job]
            BY <1>1, <1>8, <3>2, Enqueued DEF Recheck
        <4>2. /\ job.kind = "recheck" /\ job.sock = s /\ job.refs = subs[s]
              /\ jobs'[j] = job /\ \A i \in Jobs \ {j} : jobs'[i] = jobs[i]
            BY <1>1, <4>1 DEF TypeOK
        <4> HIDE DEF job
        <4>3. \A c \in Channels : SubscribeJobsOf(s, c)' = {}
            BY <2>3, <4>2 DEF SubscribeJobsOf
        <4> QED
            BY <4>2, <4>3 DEF Rechecked
    <3> QED
        BY <3>1, <3>2
  <2>5. \A c \in Channels : s \in group[c] => c \in subs[s]
    <3>1. \A c \in Channels : s \in group[c] => Secured(s, c)
        BY <1>2, <2>1 DEF JoinedInv
    <3> QED
        BY <2>3, <3>1 DEF Secured, IsAt, Waiting
  <2>6. subs' = subs
    BY <1>8 DEF Recheck
  <2> QED
    BY <1>2, <1>6, <2>3, <2>4, <2>5, <2>6 DEF Covered
<1>9. CASE ~Recheck(s, m)
  <2>1. m.type # "recheck" /\ UNCHANGED jobs
    BY <1>5, <1>9 DEF OnSubscribed, OnState, OnSubscribeError, OnLeft, OnUpdate
  <2>2. (\E x \in Range(inbox[s]) : x.type = "recheck") => \E x \in Range(inbox'[s]) : x.type = "recheck"
    BY <1>4, <2>1
  <2>3. CASE \E x \in Range(inbox[s]) : x.type = "recheck"
    BY <2>2, <2>3 DEF Covered
  <2>4. CASE ~ \E x \in Range(inbox[s]) : x.type = "recheck"
    <3>1. \A c \in Channels \ {Organisation} : ~Waiting(s, "subscribed", c)
        BY <2>4 DEF Covered
    <3>2. ~OnSubscribed(s, m)
        <4>1. m.type = "subscribed" => m.chan \in Channels \ {Organisation}
            BY <1>1, <1>4, MessageParts DEF SocketSound, MessageSound
        <4>2. m.type = "subscribed" => Waiting(s, "subscribed", m.chan)
            BY <1>4 DEF Waiting
        <4> QED
            BY <3>1, <4>1, <4>2 DEF OnSubscribed
    <3>3. \A c \in Channels : c \in subs'[s] => c \in subs[s] /\ ~(m.type = "left" /\ m.chan = c)
        BY <1>1, <1>5, <1>9, <3>2 DEF OnState, OnSubscribeError, OnLeft, OnUpdate, TypeOK
    <3>4. \A c \in Channels \ {Organisation} : StaysCovered(s, c)
        <4>1. \A c : Rechecked(s, c) => Rechecked(s, c)'
            BY <2>1 DEF Rechecked
        <4> QED
            BY <1>2, <1>6, <1>7, <2>1, <3>3, <4>1 DEF StaysCovered
    <3> QED
        BY <1>1, <2>2, <3>4, CoveredStays
  <2> QED
    BY <2>3, <2>4
<1> QED
    BY <1>8, <1>9

\* The steps of sockets allow nothing that needs the role.
LEMMA SocketCovered ==
    ASSUME ShapeInv, ShapeInv', RevokedInv, NEW s \in Sockets,
           \/ Connect(s) \/ Disconnect(s) \/ Crash(s) \/ GroupExpiry(s)
           \/ \E k \in Channels : Subscribe(s, k) \/ Leave(s, k),
           NEW t \in Sockets, Revoking(t)'
    PROVE  Covered(t)'
<1>1. TypeOK /\ TypeOK' /\ \A u \in Sockets : SocketSound(u)
    BY DEF ShapeInv
<1> DEFINE m == [type |-> "recheck"]
<1>2. m \in Messages /\ m.type # "subscribed"
    BY ChannelsAssumption, MessageTypes
<1> HIDE DEF m
<1>3. CASE Connect(s)
  <2> DEFINE job == [kind |-> "inline", sock |-> s, chan |-> Organisation,
                     step |-> "queued", snap |-> <<>>]
  <2>1. /\ phase[s] = "new" /\ phase' = [phase EXCEPT ![s] = "connecting"]
        /\ subs' = [subs EXCEPT ![s] = {}]
        /\ UNCHANGED <<roles, removal, group, inbox, dropped, tooEarly>>
    BY <1>3 DEF Connect
  <2>2. PICK j \in Jobs : jobs[j] = NoJob /\ jobs' = [jobs EXCEPT ![j] = job]
    BY <1>1, <1>3, Enqueued DEF Connect
  <2>3. /\ job.sock = s /\ job.chan = Organisation
        /\ jobs'[j] = job /\ \A i \in Jobs \ {j} : jobs'[i] = jobs[i]
    BY <1>1, <2>2 DEF TypeOK
  <2> HIDE DEF job
  <2>4. CASE t = s
    <3>1. \A i \in Jobs : ~WorksFor(i, s)
        BY <1>1, <2>1 DEF SocketSound
    <3>2. \A c \in Channels \ {Organisation} : SubscribeJobsOf(t, c)' = {}
        BY <2>3, <2>4, <3>1 DEF SubscribeJobsOf, WorksFor, NoJob
    <3>3. inbox'[t] = <<>> /\ DOMAIN <<>> = {}
        BY <1>1, <2>1, <2>4 DEF SocketSound
    <3>4. subs'[t] = {} /\ \A c \in Channels : t \notin group'[c]
        BY <1>1, <2>1, <2>4 DEF SocketSound, TypeOK
    <3> QED
        BY <3>2, <3>3, <3>4 DEF Covered, Waiting
  <2>5. CASE t # s
    <3>1. Revoking(t) /\ subs'[t] = subs[t]
        BY <1>1, <2>1, <2>5 DEF Revoking, TypeOK
    <3>2. \A c \in Channels : \A i \in SubscribeJobsOf(t, c)' : jobs'[i] = jobs[i]
        BY <2>3, <2>5 DEF SubscribeJobsOf
    <3>3. \A i \in Jobs : jobs[i].kind = "recheck" => jobs'[i] = jobs[i]
        BY <2>2, <2>3 DEF NoJob
    <3>4. Covered(t)
        BY <3>1 DEF RevokedInv
    <3> QED
        BY <1>1, <1>2, <2>1, <3>1, <3>2, <3>3, <3>4, QuietCovered
  <2> QED
    BY <2>4, <2>5
<1>4. CASE Disconnect(s) \/ Crash(s)
  <2>1. /\ phase' = [phase EXCEPT ![s] = "gone"] /\ inbox' = [inbox EXCEPT ![s] = <<>>]
        /\ UNCHANGED <<roles, removal, subs, dropped, tooEarly>>
    BY <1>4 DEF Disconnect, Crash
  <2>2. t # s /\ inbox'[t] = inbox[t] /\ Revoking(t)
    BY <1>1, <2>1 DEF Revoking, TypeOK
  <2>3. \A c \in Channels : t \in group'[c] => t \in group[c]
    <3>1. CASE Disconnect(s)
        <4>1. \A c \in Channels : group'[c] = IF c \in subs[s] THEN group[c] \ {s} ELSE group[c]
            BY <3>1 DEF Disconnect
        <4> QED
            BY <4>1
    <3>2. CASE Crash(s)
        BY <3>2 DEF Crash
    <3> QED
        BY <1>4, <3>1, <3>2
  <2>4. /\ \A c \in Channels : \A i \in SubscribeJobsOf(t, c)' : jobs'[i] = jobs[i]
        /\ \A i \in Jobs : jobs[i].kind = "recheck" => jobs'[i] = jobs[i]
    BY <1>4 DEF Disconnect, Crash, SubscribeJobsOf, NoJob
  <2>5. Covered(t)
    BY <2>2 DEF RevokedInv
  <2> QED
    BY <1>1, <1>2, <2>1, <2>2, <2>3, <2>4, <2>5, QuietCovered
<1>5. CASE GroupExpiry(s)
  <2>1. /\ group' = [k \in Channels |-> group[k] \ {s}]
        /\ UNCHANGED <<roles, removal, phase, subs, inbox, jobs, dropped, tooEarly>>
    BY <1>5 DEF GroupExpiry
  <2>2. Covered(t)
    BY <2>1 DEF Revoking, RevokedInv
  <2> QED
    BY <1>1, <1>2, <2>1, <2>2, QuietCovered
<1>6. ASSUME NEW k \in Channels, Subscribe(s, k) PROVE Covered(t)'
  <2> DEFINE job == [kind |-> "subscribe", sock |-> s, chan |-> k,
                     step |-> "queued", snap |-> <<>>]
  <2>1. UNCHANGED <<roles, removal, phase, group, subs, inbox, dropped, tooEarly>>
    BY <1>6 DEF Subscribe
  <2>2. PICK j \in Jobs : jobs[j] = NoJob /\ jobs' = [jobs EXCEPT ![j] = job]
    BY <1>1, <1>6, Enqueued DEF Subscribe
  <2>3. job.step = "queued" /\ jobs'[j] = job /\ \A i \in Jobs \ {j} : jobs'[i] = jobs[i]
    BY <1>1, <2>2 DEF TypeOK
  <2> HIDE DEF job
  <2>4. /\ \A c \in Channels : \A i \in SubscribeJobsOf(t, c)' :
               jobs'[i] = jobs[i] \/ jobs'[i].step = "queued"
        /\ \A i \in Jobs : jobs[i].kind = "recheck" => jobs'[i] = jobs[i]
    BY <2>2, <2>3 DEF SubscribeJobsOf, NoJob
  <2>5. Covered(t)
    BY <2>1 DEF Revoking, RevokedInv
  <2> QED
    BY <1>1, <1>2, <2>1, <2>4, <2>5, QuietCovered
<1>7. ASSUME NEW k \in Channels, Leave(s, k) PROVE Covered(t)'
  <2>1. /\ group' = [group EXCEPT ![k] = @ \ {s}]
        /\ subs' = [subs EXCEPT ![s] = @ \ {k}]
        /\ UNCHANGED <<roles, removal, phase, inbox, jobs, dropped, tooEarly>>
    BY <1>7 DEF Leave
  <2>2. \A c \in Channels : (c \in subs'[t] => c \in subs[t]) /\ (t \in group'[c] => t \in group[c])
    BY <1>1, <2>1 DEF TypeOK
  <2>3. Covered(t)
    BY <2>1 DEF Revoking, RevokedInv
  <2> QED
    BY <1>1, <1>2, <2>1, <2>2, <2>3, QuietCovered
<1> QED
    BY <1>3, <1>4, <1>5, <1>6, <1>7

\* A job that checks after the removal is refused; one that was allowed before is
\* found by the recheck that is still to come.
LEMMA WorkCovered ==
    ASSUME ShapeInv, ShapeInv', RevokedInv, NEW j \in Jobs,
           \/ JobExpires(j) \/ JobDies(j) \/ JobCheck(j) \/ JobJoin(j) \/ JobCollect(j)
           \/ JobTell(j) \/ JobState(j) \/ InlineDone(j),
           NEW t \in Sockets, Revoking(t)'
    PROVE  Covered(t)'
<1>1. TypeOK /\ TypeOK' /\ (\A i \in Jobs : JobSound(i))
    BY DEF ShapeInv
<1> DEFINE n == [type |-> "recheck"]
<1>2. n \in Messages /\ n.type # "subscribed"
    BY ChannelsAssumption, MessageTypes
<1> HIDE DEF n
<1>3. UNCHANGED <<roles, removal>>
    BY DEF JobExpires, JobDies, JobCheck, JobJoin, JobCollect, JobTell, JobState, InlineDone
<1>4. CASE JobExpires(j) \/ JobDies(j)
  <2>1. /\ Free(j) /\ dropped' = [dropped EXCEPT ![jobs[j].sock] = TRUE]
        /\ UNCHANGED <<phase, group, subs, inbox, tooEarly>>
    BY <1>4 DEF JobExpires, JobDies
  <2>2. t # jobs[j].sock /\ Covered(t)
    BY <1>1, <1>3, <2>1 DEF Revoking, RevokedInv, TypeOK
  <2>3. /\ \A c \in Channels : \A i \in SubscribeJobsOf(t, c)' : jobs'[i] = jobs[i]
        /\ \A i \in Jobs : jobs[i].kind = "recheck" /\ jobs[i].sock = t => jobs'[i] = jobs[i]
    BY <1>1, <2>1, <2>2, Freed DEF SubscribeJobsOf, NoJob
  <2> QED
    BY <1>1, <1>2, <2>1, <2>2, <2>3, QuietCovered
<1>5. ASSUME Builds(j) PROVE jobs[j].sock \in Sockets /\ jobs[j].chan \in Channels
    BY <1>5, BuildingJob
<1>6. CASE JobCheck(j)
  <2>1. /\ Builds(j) /\ jobs[j].step = "queued"
        /\ tooEarly' = [tooEarly EXCEPT ![jobs[j].sock] = @ \/ removal = "open"]
        /\ UNCHANGED <<phase, group, subs, dropped>>
    BY <1>6 DEF JobCheck, Builds
  <2>2. tooEarly[t] => tooEarly'[t]
    BY <1>1, <2>1 DEF TypeOK
  <2>3. Covered(t)
    BY <1>1, <1>3, <2>1, <2>2 DEF Revoking, RevokedInv, TypeOK
  <2>4. t = jobs[j].sock => ~roles
    BY <1>1, <1>3, <1>5, <2>1 DEF Revoking, TypeOK
  <2>5. CASE jobs' = [jobs EXCEPT ![j].step = "allowed"] /\ AllowSubscribe(jobs[j].chan) /\ UNCHANGED inbox
    <3>1. t = jobs[j].sock => jobs[j].chan = Organisation
        BY <2>4, <2>5 DEF AllowSubscribe
    <3>2. /\ jobs'[j].kind = jobs[j].kind /\ jobs'[j].sock = jobs[j].sock
          /\ jobs'[j].chan = jobs[j].chan
          /\ \A i \in Jobs \ {j} : jobs'[i] = jobs[i]
        BY <1>1, <2>1, <2>5, Stepped
    <3>3. \A c \in Channels \ {Organisation} : \A i \in SubscribeJobsOf(t, c)' : jobs'[i] = jobs[i]
        BY <3>1, <3>2 DEF SubscribeJobsOf
    <3>4. \A i \in Jobs : jobs[i].kind = "recheck" => jobs'[i] = jobs[i]
        BY <2>1, <3>2 DEF Builds
    <3> QED
        BY <1>1, <1>2, <2>1, <2>3, <2>5, <3>3, <3>4, QuietCovered
  <2>6. CASE Free(j) /\ Send(jobs[j].sock, [type |-> "error", chan |-> jobs[j].chan])
    <3> DEFINE m == [type |-> "error", chan |-> jobs[j].chan]
    <3>1. m \in Messages /\ m.type # "subscribed" /\ Send(jobs[j].sock, m)
        BY <1>5, <2>1, <2>6, MessageTypes
    <3> HIDE DEF m
    <3>2. inbox'[t] = inbox[t] \/ inbox'[t] = Append(inbox[t], m)
        BY <1>1, <1>5, <2>1, <3>1, Sent
    <3>3. \A c \in Channels : \A i \in SubscribeJobsOf(t, c)' : jobs'[i] = jobs[i]
        BY <1>1, <2>6, Freed DEF SubscribeJobsOf, NoJob
    <3>4. \A i \in Jobs : jobs[i].kind = "recheck" => jobs'[i] = jobs[i]
        BY <1>1, <2>1, <2>6, Freed DEF Builds
    <3> QED
        BY <1>1, <2>1, <2>3, <3>1, <3>2, <3>3, <3>4, QuietCovered
  <2> QED
    BY <1>6, <2>5, <2>6 DEF JobCheck
<1>7. CASE JobJoin(j) \/ JobCollect(j) \/ JobTell(j) \/ JobState(j)
  <2>1. /\ Builds(j) /\ jobs[j].step # "queued" /\ jobs[j].sock \in Sockets /\ jobs[j].chan \in Channels
        /\ UNCHANGED <<phase, subs, dropped, tooEarly>>
    BY <1>5, <1>7 DEF JobJoin, JobCollect, JobTell, JobState, Builds, Collected
  <2>2. Covered(t)
    BY <1>3, <2>1 DEF Revoking, RevokedInv
  <2>3. \A i \in Jobs \ {j} : jobs'[i] = jobs[i]
    BY <1>1, <1>7, <2>1 DEF JobJoin, JobCollect, JobTell, JobState, Free, TypeOK
  <2>4. jobs'[j] = NoJob \/ (jobs'[j].sock = jobs[j].sock /\ jobs'[j].chan = jobs[j].chan)
    <3>1. CASE JobJoin(j) \/ JobTell(j)
        BY <1>1, <2>1, <3>1, Stepped DEF JobJoin, JobTell
    <3>2. CASE JobState(j)
        BY <1>1, <3>2, Freed DEF JobState
    <3>3. CASE JobCollect(j)
        <4>1. jobs[j] \in SubscribeJobs
            BY <2>1, BuildingJob
        <4>2. jobs'[j] = [jobs[j] EXCEPT !.snap = Append(@, version[jobs[j].chan])]
            BY <1>1, <3>3 DEF JobCollect, TypeOK
        <4> QED
            BY <4>1, <4>2 DEF SubscribeJobs
    <3> QED
        BY <1>7, <3>1, <3>2, <3>3
  <2>5. PICK m \in Messages :
            /\ inbox'[t] = inbox[t] \/ inbox'[t] = Append(inbox[t], m)
            /\ m.type = "subscribed" => m.chan = jobs[j].chan /\ t = jobs[j].sock
    <3>1. CASE JobJoin(j) \/ JobCollect(j)
        BY <1>2, <3>1 DEF JobJoin, JobCollect
    <3>2. CASE JobTell(j)
        <4> DEFINE m == [type |-> "subscribed", chan |-> jobs[j].chan]
        <4>1. m \in Messages /\ m.chan = jobs[j].chan /\ Send(jobs[j].sock, m)
            BY <2>1, <3>2, MessageTypes DEF JobTell
        <4> HIDE DEF m
        <4>2. CASE t = jobs[j].sock
            BY <1>1, <2>1, <4>1, <4>2, Sent
        <4>3. CASE t # jobs[j].sock
            BY <1>1, <1>2, <2>1, <4>1, <4>3, Sent
        <4> QED
            BY <4>2, <4>3
    <3>3. CASE JobState(j)
        <4> DEFINE m == [type |-> "state", chan |-> jobs[j].chan, snap |-> jobs[j].snap]
        <4>1. m \in Messages /\ m.type # "subscribed" /\ Send(jobs[j].sock, m)
            BY <2>1, <3>3, BuildingJob, MessageTypes DEF JobState
        <4> HIDE DEF m
        <4> QED
            BY <1>1, <2>1, <4>1, Sent
    <3> QED
        BY <1>7, <3>1, <3>2, <3>3
  <2>6. \A c \in Channels : t \in group'[c] => t \in group[c] \/ (t = jobs[j].sock /\ c = jobs[j].chan)
    BY <1>1, <1>7, <2>1 DEF JobJoin, JobCollect, JobTell, JobState, TypeOK
  <2>7. \A i \in Jobs : jobs[i].kind = "recheck" => jobs'[i] = jobs[i]
    BY <2>1, <2>3 DEF Builds
  <2>8. ASSUME NEW c \in Channels \ {Organisation}
        PROVE  \/ \E i \in SubscribeJobsOf(t, c) : jobs[i].step # "queued"
               \/ /\ \A i \in SubscribeJobsOf(t, c)' : jobs'[i] = jobs[i] \/ jobs'[i].step = "queued"
                  /\ ~(m.type = "subscribed" /\ m.chan = c)
                  /\ t \in group'[c] => t \in group[c]
                  /\ c \in subs'[t] => c \in subs[t]
    <3>1. CASE t = jobs[j].sock /\ c = jobs[j].chan
        BY <2>1, <3>1 DEF SubscribeJobsOf, Builds
    <3>2. CASE ~(t = jobs[j].sock /\ c = jobs[j].chan)
        <4>1. j \notin SubscribeJobsOf(t, c)'
            BY <2>4, <3>2 DEF SubscribeJobsOf, NoJob
        <4>2. \A i \in SubscribeJobsOf(t, c)' : jobs'[i] = jobs[i]
            BY <2>3, <4>1 DEF SubscribeJobsOf
        <4> QED
            BY <2>1, <2>5, <2>6, <3>2, <4>2
    <3> QED
        BY <3>1, <3>2
  <2> QED
    BY <1>1, <2>2, <2>5, <2>7, <2>8, QuietCovered
<1>8. CASE InlineDone(j)
  <2>1. /\ jobs[j].kind = "inline" /\ Builds(j) /\ Free(j)
        /\ subs' = [subs EXCEPT ![jobs[j].sock] = @ \cup {jobs[j].chan}]
        /\ phase' = [phase EXCEPT ![jobs[j].sock] = "open"]
        /\ UNCHANGED <<group, inbox, dropped, tooEarly>>
    BY <1>8 DEF InlineDone, Builds
  <2>2. jobs[j].sock \in Sockets /\ jobs[j].chan = Organisation /\ phase[jobs[j].sock] = "connecting"
    BY <1>1, <1>5, <2>1 DEF JobSound
  <2>3. Covered(t)
    BY <1>1, <1>3, <2>1, <2>2 DEF Revoking, RevokedInv, TypeOK
  <2>4. \A c \in Channels \ {Organisation} : c \in subs'[t] => c \in subs[t]
    BY <1>1, <2>1, <2>2 DEF TypeOK
  <2>5. /\ \A c \in Channels : \A i \in SubscribeJobsOf(t, c)' : jobs'[i] = jobs[i]
        /\ \A i \in Jobs : jobs[i].kind = "recheck" => jobs'[i] = jobs[i]
    BY <1>1, <2>1, Freed DEF SubscribeJobsOf, NoJob
  <2> QED
    BY <1>1, <1>2, <2>1, <2>3, <2>4, <2>5, QuietCovered
<1> QED
    BY <1>4, <1>6, <1>7, <1>8

\* A recheck after the removal takes its channel away, and leaves the others to
\* be looked at.
LEMMA RecheckCovered ==
    ASSUME ShapeInv, ShapeInv', RevokedInv, NEW j \in Jobs, RecheckRef(j),
           NEW t \in Sockets, Revoking(t)'
    PROVE  Covered(t)'
<1>1. TypeOK /\ TypeOK'
    BY DEF ShapeInv
<1>2. /\ jobs[j].kind = "recheck" /\ jobs[j] \in RecheckJobs /\ jobs[j].sock \in Sockets
      /\ UNCHANGED <<roles, removal, phase, subs, dropped>>
    BY <1>1, JobTypes DEF RecheckRef, RecheckJobs
<1>3. PICK c \in jobs[j].refs : LooksAt(j, c)
    BY DEF RecheckRef, LooksAt
<1>4. c \in Channels
    BY <1>2 DEF RecheckJobs
<1>5. /\ tooEarly[t] => tooEarly'[t]
      /\ t = jobs[j].sock /\ removal = "open" => tooEarly'[t]
    BY <1>1, <1>2, <1>3 DEF LooksAt, TypeOK
<1>6. Covered(t) /\ (t = jobs[j].sock => ~roles) /\ phase[t] # "gone"
    BY <1>1, <1>2, <1>5 DEF Revoking, RevokedInv, TypeOK
<1>7. /\ \A i \in Jobs \ {j} : jobs'[i] = jobs[i]
      /\ jobs'[j].kind \notin {"subscribe", "inline"}
      /\ jobs[j].refs \ {c} # {} =>
            /\ jobs'[j].kind = "recheck" /\ jobs'[j].sock = jobs[j].sock
            /\ jobs'[j].refs = jobs[j].refs \ {c}
  <2> DEFINE x == IF jobs[j].refs \ {c} = {} THEN NoJob
                  ELSE [jobs[j] EXCEPT !.refs = jobs[j].refs \ {c}]
  <2>1. jobs' = [jobs EXCEPT ![j] = x]
    BY <1>3 DEF LooksAt
  <2>2. /\ x.kind \notin {"subscribe", "inline"}
        /\ jobs[j].refs \ {c} # {} =>
              x.kind = "recheck" /\ x.sock = jobs[j].sock /\ x.refs = jobs[j].refs \ {c}
    BY <1>2 DEF RecheckJobs, NoJob
  <2> HIDE DEF x
  <2>3. jobs'[j] = x /\ \A i \in Jobs \ {j} : jobs'[i] = jobs[i]
    BY <1>1, <2>1 DEF TypeOK
  <2> QED
    BY <2>2, <2>3
<1>8. \A k \in Channels : \A i \in SubscribeJobsOf(t, k)' : jobs'[i] = jobs[i]
    BY <1>7 DEF SubscribeJobsOf
<1>9. ASSUME NEW k \in Channels, ~(t = jobs[j].sock /\ k = c), Rechecked(t, k)
      PROVE  Rechecked(t, k)'
  <2>1. PICK i \in Jobs : jobs[i].kind = "recheck" /\ jobs[i].sock = t /\ k \in jobs[i].refs
    BY <1>9 DEF Rechecked
  <2>2. CASE i # j
    BY <1>7, <2>1, <2>2 DEF Rechecked
  <2>3. CASE i = j
    <3>1. k \in jobs[j].refs \ {c}
        BY <1>9, <2>1, <2>3
    <3>2. jobs'[j].kind = "recheck" /\ jobs'[j].sock = t /\ k \in jobs'[j].refs
        BY <1>7, <2>1, <2>3, <3>1
    <3> QED
        BY <3>2 DEF Rechecked
  <2> QED
    BY <2>2, <2>3
<1> DEFINE m == [type |-> "left", chan |-> c]
<1>10. m \in Messages /\ m.type = "left" /\ m.chan = c
    BY <1>4, MessageTypes
<1>11. CASE AllowSubscribe(c) /\ UNCHANGED <<group, inbox>>
  <2>1. ASSUME NEW k \in Channels \ {Organisation} PROVE StaysCovered(t, k)
    <3>1. ~(t = jobs[j].sock /\ k = c)
        BY <1>6, <1>11, <2>1 DEF AllowSubscribe
    <3>2. Rechecked(t, k) => Rechecked(t, k)'
        BY <1>9, <3>1
    <3>3. \A type : Waiting(t, type, k)' <=> Waiting(t, type, k)
        BY <1>11 DEF Waiting
    <3> QED
        BY <1>2, <1>8, <1>11, <3>2, <3>3 DEF StaysCovered
  <2> QED
    BY <1>1, <1>6, <1>11, <2>1, CoveredStays
<1>12. CASE /\ ~AllowSubscribe(c)
            /\ group' = [group EXCEPT ![c] = @ \ {jobs[j].sock}]
            /\ Send(jobs[j].sock, m)
  <2> HIDE DEF m
  <2>1. /\ t # jobs[j].sock => inbox'[t] = inbox[t]
        /\ t = jobs[j].sock => inbox'[t] = Append(inbox[t], m)
    BY <1>1, <1>2, <1>6, <1>10, <1>12, Sent
  <2>2. inbox'[t] = inbox[t] \/ inbox'[t] = Append(inbox[t], m)
    BY <2>1
  <2>3. /\ \A type, k : Waiting(t, type, k) => Waiting(t, type, k)'
        /\ \A type, k : Waiting(t, type, k)' =>
               Waiting(t, type, k) \/ (m.type = type /\ m.chan = k)
        /\ inbox'[t] = Append(inbox[t], m) => \A type, k :
               m.type = type /\ m.chan = k => Waiting(t, type, k)'
        /\ Range(inbox[t]) \subseteq Range(inbox'[t])
    BY <1>1, <1>10, <2>2, InboxGrows
  <2>4. /\ \A k \in Channels : t \in group'[k] => t \in group[k]
        /\ t = jobs[j].sock => t \notin group'[c]
    BY <1>1, <1>4, <1>12 DEF TypeOK
  <2>5. ASSUME NEW k \in Channels \ {Organisation} PROVE StaysCovered(t, k)
    <3>1. Waiting(t, "subscribed", k)' => Waiting(t, "subscribed", k)
        BY <1>10, <2>3
    <3>2. CASE t = jobs[j].sock /\ k = c
        <4>1. Waiting(t, "left", k)'
            BY <1>10, <2>1, <2>3, <3>2
        <4> QED
            BY <1>2, <1>8, <2>4, <3>1, <3>2, <4>1 DEF StaysCovered
    <3>3. CASE ~(t = jobs[j].sock /\ k = c)
        <4>1. Rechecked(t, k) => Rechecked(t, k)'
            BY <1>9, <3>3
        <4>2. Waiting(t, "left", k) => Waiting(t, "left", k)'
            BY <2>3
        <4> QED
            BY <1>2, <1>8, <2>4, <3>1, <4>1, <4>2 DEF StaysCovered
    <3> QED
        BY <3>2, <3>3
  <2> QED
    BY <1>1, <1>6, <2>3, <2>5, CoveredStays
<1> QED
    BY <1>3, <1>11, <1>12 DEF LooksAt

\* Every step leaves the sockets of a user without the role covered.
LEMMA RevokedKept ==
    ShapeInv /\ ShapeInv' /\ JoinedInv /\ RevokedInv /\ [Next]_vars => RevokedInv'
<1> SUFFICES ASSUME ShapeInv, ShapeInv', JoinedInv, RevokedInv, [Next]_vars,
                    NEW t \in Sockets, Revoking(t)'
             PROVE  Covered(t)'
    BY DEF RevokedInv
<1>1. TypeOK /\ TypeOK' /\ VersionsSound /\ VersionsSound'
    BY DEF ShapeInv
<1> DEFINE n == [type |-> "recheck"]
<1>2. n \in Messages /\ n.type = "recheck"
    BY ChannelsAssumption, MessageTypes
<1> HIDE DEF n
<1>3. ASSUME NEW s \in Sockets, Deliver(s) PROVE Covered(t)'
  <2>1. UNCHANGED <<roles, removal, phase, group, dropped>>
    BY <1>3 DEF Deliver
  <2>2. tooEarly[t] => tooEarly'[t]
    BY <1>1, <1>3 DEF Deliver, OnSubscribed, OnState, OnSubscribeError, OnLeft, OnUpdate,
       Recheck, TypeOK
  <2>3. Revoking(t) /\ Covered(t)
    BY <1>1, <2>1, <2>2 DEF Revoking, RevokedInv, TypeOK
  <2>4. CASE t = s
    BY <1>3, <2>3, <2>4, DeliverCovered
  <2>5. CASE t # s
    <3>1. inbox'[t] = inbox[t] /\ subs'[t] = subs[t]
        BY <1>1, <1>3, <2>5 DEF Deliver, OnSubscribed, OnState, OnSubscribeError, OnLeft,
           OnUpdate, Recheck, TypeOK
    <3>2. /\ \A c \in Channels : \A i \in SubscribeJobsOf(t, c)' : jobs'[i] = jobs[i]
          /\ \A i \in Jobs : jobs[i].kind = "recheck" => jobs'[i] = jobs[i]
      <4>1. CASE UNCHANGED jobs
        BY <4>1
      <4>2. CASE Enqueue([kind |-> "recheck", sock |-> s, refs |-> subs[s]])
        <5> DEFINE job == [kind |-> "recheck", sock |-> s, refs |-> subs[s]]
        <5>1. PICK j \in Jobs : jobs[j] = NoJob /\ jobs' = [jobs EXCEPT ![j] = job]
            BY <1>1, <4>2, Enqueued
        <5>2. job.kind = "recheck" /\ jobs'[j] = job /\ \A i \in Jobs \ {j} : jobs'[i] = jobs[i]
            BY <1>1, <5>1 DEF TypeOK
        <5> HIDE DEF job
        <5> QED
            BY <5>1, <5>2 DEF SubscribeJobsOf, NoJob
      <4> QED
        BY <1>3, <4>1, <4>2 DEF Deliver, OnSubscribed, OnState, OnSubscribeError, OnLeft,
           OnUpdate, Recheck
    <3>3. n.type # "subscribed"
        BY <1>2
    <3> QED
        BY <1>1, <1>2, <2>1, <2>3, <3>1, <3>2, <3>3, QuietCovered
  <2> QED
    BY <2>4, <2>5
<1>4. ASSUME UNCHANGED <<phase, group, subs, jobs, dropped, tooEarly>>,
             NEW m \in Messages, m.type # "subscribed",
             inbox'[t] = inbox[t] \/ inbox'[t] = Append(inbox[t], m), Covered(t)
      PROVE  Covered(t)'
    BY <1>1, <1>4, QuietCovered
<1>5. ASSUME NEW c \in Channels, Commit(c) \/ RemoveRolesCommits \/ UNCHANGED vars PROVE Covered(t)'
  <2>1. UNCHANGED <<phase, group, subs, jobs, inbox, dropped, tooEarly>>
    BY <1>5 DEF Commit, RemoveRolesCommits, vars
  <2>2. Revoking(t)
    BY <1>5, <2>1 DEF Revoking, Commit, RemoveRolesCommits, vars
  <2>3. n.type # "subscribed" /\ Covered(t)
    BY <1>2, <2>2 DEF RevokedInv
  <2> QED
    BY <1>2, <1>4, <2>1, <2>3
<1>6. ASSUME NEW c \in Channels, NEW v \in Versions, Publish(c, v) PROVE Covered(t)'
  <2> DEFINE m == [type |-> "update", chan |-> c, version |-> v]
  <2>1. /\ m \in Messages /\ m.type # "subscribed"
        /\ inbox'[t] = inbox[t] \/ inbox'[t] = Append(inbox[t], m)
    BY <1>1, <1>6, MessageTypes, Published
  <2> HIDE DEF m
  <2>2. UNCHANGED <<roles, removal, phase, group, subs, jobs, dropped, tooEarly>>
    BY <1>6 DEF Publish
  <2>3. Covered(t)
    BY <2>2 DEF Revoking, RevokedInv
  <2> QED
    BY <1>4, <2>1, <2>2, <2>3
<1>7. ASSUME RemoveRoles PROVE Covered(t)'
  <2>1. inbox[t] \in Seq(Messages) /\ phase[t] \in {"connecting", "open"}
    BY <1>1, <1>7 DEF RemoveRoles, Revoking, TypeOK
  <2>2. inbox'[t] = Append(inbox[t], n)
    BY <1>7, <2>1 DEF RemoveRoles, n
  <2>3. n \in Range(inbox'[t])
    BY <1>2, <2>1, <2>2, RangeOfAppend
  <2> QED
    BY <1>2, <2>3 DEF Covered
<1>8. ASSUME AddRoles PROVE FALSE
    BY <1>1, <1>8 DEF AddRoles, Revoking, VersionsSound
<1>9. ASSUME NEW s \in Sockets,
             \/ Connect(s) \/ Disconnect(s) \/ Crash(s) \/ GroupExpiry(s)
             \/ \E k \in Channels : Subscribe(s, k) \/ Leave(s, k)
      PROVE  Covered(t)'
    BY <1>9, SocketCovered
<1>10. ASSUME NEW j \in Jobs,
             \/ JobExpires(j) \/ JobDies(j) \/ JobCheck(j) \/ JobJoin(j) \/ JobCollect(j)
             \/ JobTell(j) \/ JobState(j) \/ InlineDone(j)
      PROVE  Covered(t)'
    BY <1>10, WorkCovered
<1>11. ASSUME NEW j \in Jobs, RecheckRef(j) PROVE Covered(t)'
    BY <1>11, RecheckCovered
<1>12. RemoveRolesCommits \/ UNCHANGED vars => Covered(t)'
    BY <1>5, ChannelsAssumption
<1>13. ASSUME NEW c \in Channels, Commit(c) \/ \E v \in Versions : Publish(c, v) PROVE Covered(t)'
    BY <1>5, <1>6, <1>13
<1> QED
    BY <1>3, <1>7, <1>8, <1>9, <1>10, <1>11, <1>12, <1>13 DEF Next, JobStep

-----------------------------------------------------------------------------
(* The theorems *)

\* Whatever the sockets, the workers and the other requests do, jobs and messages
\* are what they look like, groups are secured, patient clients are served and
\* revoked sockets are covered.
SubscriptionsInv == ShapeInv /\ JoinedInv /\ ServedInv /\ RevokedInv

\* Each part is kept with the help of the shape, and the recheck with the help of
\* the groups.
THEOREM SubscriptionsInvariant == Spec => []SubscriptionsInv
<1>1. Init => SubscriptionsInv
  <2> SUFFICES ASSUME Init PROVE SubscriptionsInv
    OBVIOUS
  <2>1. ShapeInv
    BY ShapeBegins
  <2>2. JoinedInv
    BY DEF Init, JoinedInv
  <2>3. ServedInv
    BY DEF Init, ServedInv, Served
  <2>4. RevokedInv
    BY DEF Init, RevokedInv, Revoking
  <2> QED
    BY <2>1, <2>2, <2>3, <2>4 DEF SubscriptionsInv
<1>2. SubscriptionsInv /\ [Next]_vars => SubscriptionsInv'
    BY ShapeKept, JoinedKept, ServedKept, RevokedKept DEF SubscriptionsInv
<1> QED
    BY <1>1, <1>2, PTL DEF Spec

\* No committed change passes a patient subscriber by (build_subscription joins
\* the group before it collects): what its client has not been told of is unsent
\* or in its inbox.
THEOREM NoUpdateIsLost == Spec => []NoUpdateLost
<1>1. SubscriptionsInv => NoUpdateLost
  <2> SUFFICES ASSUME SubscriptionsInv, NEW s \in Sockets, NEW c \in Channels,
                      patient[s], phase[s] = "open", removal = "none", c \in subs[s] \ asked[s]
               PROVE  \/ seen[s][c] = version[c]
                      \/ version[c] \in unsent[c]
                      \/ \E i \in DOMAIN inbox[s] :
                            inbox[s][i] = [type |-> "update", chan |-> c, version |-> version[c]]
    BY DEF NoUpdateLost
  <2>1. Fresh(s, c)
    BY DEF SubscriptionsInv, ServedInv, Served, Served1
  <2> QED
    BY <2>1 DEF Fresh, Range
<1> QED
    BY <1>1, SubscriptionsInvariant, PTL

\* What a consumer tracks and the groups its socket is in are the same
\* (channel_subs and the channel layer): for a patient client whose roles stay, and
\* in the other direction for all whose jobs were not killed half way.
THEOREM WhatIsTrackedIsJoined == Spec => []SubscriptionsAreTracked
<1>1. SubscriptionsInv => SubscriptionsAreTracked
  <2> SUFFICES ASSUME SubscriptionsInv PROVE SubscriptionsAreTracked
    OBVIOUS
  <2>1. TypeOK
    BY DEF SubscriptionsInv, ShapeInv
  <2>2. TrackedIsJoined
    BY DEF SubscriptionsInv, ServedInv, Served, Served1, TrackedIsJoined
  <2>3. JoinedIsTracked
    <3> SUFFICES ASSUME NEW s \in Sockets, NEW c \in Channels,
                        phase[s] = "open", s \in group[c], ~dropped[s]
                 PROVE  c \in subs[s] \/ Arriving(s, c)
        BY DEF JoinedIsTracked
    <3>1. Secured(s, c)
        BY DEF SubscriptionsInv, JoinedInv
    <3> QED
        BY <3>1 DEF Secured, Arriving, Waiting, IsAt
  <2> QED
    BY <2>1, <2>2, <2>3 DEF SubscriptionsAreTracked
<1> QED
    BY <1>1, SubscriptionsInvariant, PTL

\* A user who has lost the role is in no group that needs it once no job and no
\* message of its socket is left (remove_roles, recheck and recheck_job), unless a
\* check overtook the removal or a job was dropped.
THEOREM RevokedSubscriptionsEnd == Spec => []RevokedSubscriptionEnds
<1>1. SubscriptionsInv => RevokedSubscriptionEnds
  <2> SUFFICES ASSUME SubscriptionsInv,
                      NEW s \in Sockets, NEW c \in Channels \ {Organisation},
                      phase[s] = "open", ~roles, ~tooEarly[s], ~dropped[s],
                      inbox[s] = <<>>,
                      \A j \in Jobs : jobs[j] = NoJob \/ jobs[j].sock # s
               PROVE  s \notin group[c] /\ c \notin subs[s]
    BY DEF RevokedSubscriptionEnds
  <2>1. Revoking(s)
    BY DEF SubscriptionsInv, ShapeInv, VersionsSound, Revoking
  <2>2. Covered(s)
    BY <2>1 DEF SubscriptionsInv, RevokedInv
  <2>3. Range(inbox[s]) = {} /\ DOMAIN inbox[s] = {}
    BY DEF Range
  <2>4. ~Waiting(s, "left", c) /\ ~Rechecked(s, c)
    BY <2>3 DEF Waiting, Rechecked, NoJob
  <2> QED
    BY <2>2, <2>3, <2>4 DEF Covered
<1> QED
    BY <1>1, SubscriptionsInvariant, PTL
=============================================================================
