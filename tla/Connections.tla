---------------------------- MODULE Connections ----------------------------
(***************************************************************************)
(* The sessions and the sockets of one user: logging in and out            *)
(* (src/voteit/core/sessions.py, core/rest_api/views.py), the consumer's   *)
(* handshake, its Connection row and its closing (messaging/consumer.py,   *)
(* models.py, close.py), the jobs that reap rows (messaging/jobs.py), and  *)
(* the purge of active users that goes by those rows (src/voteit/active).  *)
(*                                                                         *)
(* Requests, consumers, jobs and the death of a process interleave at      *)
(* every cache, database and channel-layer call.  Time is counted in       *)
(* ticks; only its comparison with the configured windows matters.         *)
(***************************************************************************)
EXTENDS Integers, Sequences, FiniteSets, SequencesExt

CONSTANTS
    Sockets,          \* consumers; each connects at most once
    Keys,             \* session keys
    MaxTracked,       \* MAX_TRACKED_SESSIONS
    UpdateInterval,   \* VOTEIT_CONNECTION_UPDATE_INTERVAL
    OnlineWindow,     \* VOTEIT_CONNECTION_STALE_AFTER
    StaleWindow,      \* VOTEIT_CONNECTION_STALE_JOB_AFTER
    Retention,        \* VOTEIT_CONNECTION_RETENTION_DAYS
    PurgeWindows,     \* the "hours" an active-user purge may ask for
    MaxCloses         \* bound on the closes waiting for a consumer when a sweep begins

\* The oldest age that is told from older ones.
Cap == Retention + 1

ASSUME WindowsAssumption ==
    /\ UpdateInterval \in Nat /\ OnlineWindow \in Nat /\ StaleWindow \in Nat
    /\ Retention \in Nat /\ MaxCloses \in Nat
    /\ PurgeWindows \subseteq 0..Cap
    /\ UpdateInterval < OnlineWindow
    /\ OnlineWindow =< StaleWindow
    /\ StaleWindow =< Retention
ASSUME MaxTrackedAssumption == MaxTracked \in Nat \ {0}

VARIABLES
    alive,     \* per session key: is it in the session store
    login,     \* per key, the login that makes it: "none", "read", "write", "done"
    logout,    \* per key, the logout request made with it
    local,     \* per key, the tracked list its login or logout has read
    tracked,   \* the cached list of the user's session keys
    phase,     \* of each socket
    sess,      \* session of each socket
    row,       \* the Connection row of each socket: its code, or its absence
    idle,      \* ticks since the row's last_action
    quiet,     \* ticks since the socket was last heard
    handling,  \* sockets with a message handler that has not finished
    inbox,     \* closes on their way to each consumer; TRUE asks to flush the session
    sweep,     \* sockets close_sockets has still to send a close to
    before,    \* per key: sessions there were when its logout everywhere began
    lost,      \* keys written by another request since the list was read, or beyond its limit
    missed     \* sockets whose session ended where no close could reach them

sessions == <<alive, login, logout, local, tracked, before, lost>>
sockets == <<phase, sess, row, idle, quiet, handling, inbox>>
vars == <<sessions, sockets, sweep, missed>>

NoKey == "no key"
Everywhere == {"all read", "all closing", "all done"}
LogoutSteps == {"none", "own read", "own closing", "own done"} \cup Everywhere
Phases == {"new", "accepted", "joined", "open", "closing", "closed", "left", "gone"}
Rows == {"none", "open", "closed", "purged"}
ASSUME NoKeyAssumption == NoKey \notin Keys

TypeOK ==
    /\ alive \in [Keys -> BOOLEAN]
    /\ login \in [Keys -> {"none", "read", "write", "done"}]
    /\ logout \in [Keys -> LogoutSteps]
    /\ tracked \in Seq(Keys) /\ Len(tracked) =< MaxTracked
    /\ local \in [Keys -> Seq(Keys)] /\ \A k \in Keys : Len(local[k]) =< MaxTracked
    /\ phase \in [Sockets -> Phases]
    /\ sess \in [Sockets -> Keys \cup {NoKey}]
    /\ row \in [Sockets -> Rows]
    /\ idle \in [Sockets -> 0..Cap] /\ quiet \in [Sockets -> 0..Cap]
    /\ handling \subseteq Sockets
    /\ inbox \in [Sockets -> Seq(BOOLEAN)]
    /\ sweep \subseteq Sockets
    /\ before \in [Keys -> SUBSET Keys]
    /\ lost \subseteq Keys
    /\ missed \subseteq Sockets

Init ==
    /\ alive = [k \in Keys |-> FALSE]
    /\ login = [k \in Keys |-> "none"]
    /\ logout = [k \in Keys |-> "none"]
    /\ local = [k \in Keys |-> <<>>]
    /\ tracked = <<>>
    /\ phase = [s \in Sockets |-> "new"]
    /\ sess = [s \in Sockets |-> NoKey]
    /\ row = [s \in Sockets |-> "none"]
    /\ idle = [s \in Sockets |-> 0]
    /\ quiet = [s \in Sockets |-> 0]
    /\ handling = {}
    /\ inbox = [s \in Sockets |-> <<>>]
    /\ sweep = {}
    /\ before = [k \in Keys |-> {}]
    /\ lost = {}
    /\ missed = {}

-----------------------------------------------------------------------------
(* Rows and groups *)

\* Connection.objects.online(within) and .stale(within), on the rows of the user.
Online(within) == {s \in Sockets : row[s] = "open" /\ idle[s] < within}

\* Mutant of Stale: the complement of "online" among the rows that are closed.
StaleClosed(within) == {s \in Sockets : row[s] = "closed" /\ idle[s] >= within}

Stale(within) == {s \in Sockets : row[s] = "open" /\ idle[s] >= within}

\* get_inactive_qs: no row of the user, open or closed, has acted within the
\* window, so a purge takes the user's active mark away.
Inactive(within) ==
    \A s \in Sockets : row[s] \in {"open", "closed"} => idle[s] >= within

\* Sockets that have joined their groups and not left them, and can still read.
Reachable == {s \in Sockets : phase[s] \in {"joined", "open", "closing", "closed"}}
SessionGroup(k) == {s \in Reachable : sess[s] = k}
UserGroup == Reachable

\* The consumer dispatches events from the end of the handshake until it stops.
Dispatching(s) == phase[s] \in {"open", "closing", "closed"}

\* Mutant of UpdateConnection: a message only moves last_action, never the code.
UpdateKeepsCode(s, closed) ==
    /\ row' = [row EXCEPT ![s] = IF @ = "purged" \/ ~closed THEN @ ELSE "closed"]
    /\ idle' = [idle EXCEPT ![s] = IF closed \/ @ > UpdateInterval THEN 0 ELSE @]

\* update_connection: a code is always written, a plain touch only when the
\* last write is older than the interval; either overwrites the code.
UpdateConnection(s, closed) ==
    IF closed \/ idle[s] > UpdateInterval
    THEN /\ row' = [row EXCEPT ![s] = IF @ = "purged" THEN @
                                      ELSE IF closed THEN "closed" ELSE "open"]
         /\ idle' = [idle EXCEPT ![s] = 0]
    ELSE UNCHANGED <<row, idle>>

-----------------------------------------------------------------------------
(* Sessions *)

\* Write the cached list; keys that others wrote since it was read, and keys
\* beyond the limit, are lost.
SetTracked(k, keys, beyond) ==
    /\ tracked' = keys
    /\ lost' = lost \cup (Range(tracked) \ Range(local[k])) \cup Range(beyond)
    /\ local' = [local EXCEPT ![k] = <<>>]

\* login(): a new key, or, in a session that exists, the old one cycled.
\* Sockets opened with the old key belong to a session that is gone.
Login(k, old) ==
    /\ login[k] = "none"
    /\ old # NoKey => alive[old] /\ login[old] = "done" /\ logout[old] = "none"
    /\ alive' = [j \in Keys |-> IF j = k THEN TRUE ELSE alive[j] /\ j # old]
    /\ login' = [login EXCEPT ![k] = "read"]
    /\ missed' = missed \cup {s \in Sockets : sess[s] = old /\ old # NoKey}
    /\ UNCHANGED <<logout, local, tracked, before, lost, sockets,
                   sweep>>

\* remember_session, first half: cache.get.
RememberRead(k) ==
    /\ login[k] = "read"
    /\ local' = [local EXCEPT ![k] = tracked]
    /\ login' = [login EXCEPT ![k] = "write"]
    /\ UNCHANGED <<alive, logout, tracked, before, lost, sockets,
                   sweep, missed>>

\* A list of keys without one of them.
Without(keys, k) ==
    LET kept[i \in 0..Len(keys)] ==
            IF i = 0 THEN <<>>
            ELSE IF keys[i] = k THEN kept[i - 1] ELSE Append(kept[i - 1], keys[i])
    IN  kept[Len(keys)]

\* How many keys at the front are too many.
Surplus(keys) == IF Len(keys) > MaxTracked THEN Len(keys) - MaxTracked ELSE 0

\* The last MAX_TRACKED_SESSIONS keys.
Newest(keys) == SubSeq(keys, Surplus(keys) + 1, Len(keys))

\* remember_session, second half: cache.set of what was read and the new key.
RememberWrite(k) ==
    LET keys == Append(Without(local[k], k), k) IN
    /\ login[k] = "write"
    /\ SetTracked(k, Newest(keys), SubSeq(keys, 1, Surplus(keys)))
    /\ login' = [login EXCEPT ![k] = "done"]
    /\ UNCHANGED <<alive, logout, before, sockets, sweep, missed>>

\* The logout request, with and without "everywhere", up to the cache read of
\* end_tracked_sessions or forget_session.
LogoutRead(k, everywhere) ==
    /\ alive[k] /\ login[k] = "done" /\ logout[k] = "none"
    /\ logout' = [logout EXCEPT ![k] = IF everywhere THEN "all read" ELSE "own read"]
    /\ local' = [local EXCEPT ![k] = tracked]
    /\ before' = [before EXCEPT ![k] = {j \in Keys : everywhere /\ alive[j] /\ login[j] = "done"}]
    /\ UNCHANGED <<alive, login, tracked, lost, sockets, sweep, missed>>

\* Mutant of Ended: the sessions of other devices are left alone.
EndedHere(k) == {k}

\* end_tracked_sessions deletes every session it read; logout() flushes its own.
Ended(k) == IF logout[k] = "all read" THEN Range(local[k]) \cup {k} ELSE {k}

\* Then the list itself is deleted, or written back by forget_session without
\* the key.
LogoutEnd(k) ==
    /\ logout[k] \in {"all read", "own read"}
    /\ alive' = [j \in Keys |-> alive[j] /\ j \notin Ended(k)]
    /\ IF logout[k] = "all read"
       THEN /\ SetTracked(k, <<>>, <<>>)
            /\ logout' = [logout EXCEPT ![k] = "all closing"]
       ELSE /\ SetTracked(k, Without(local[k], k), <<>>)
            /\ logout' = [logout EXCEPT ![k] = "own closing"]
    /\ UNCHANGED <<login, before, sockets, sweep, missed>>

\* Mutant of Closed: an ordinary logout tells its tabs nothing.
ClosedEverywhere(k) == IF logout[k] = "all closing" THEN UserGroup ELSE {}

\* Whom a logout closes: the user's group, or the group of the session.
Closed(k) == IF logout[k] = "all closing" THEN UserGroup ELSE SessionGroup(k)

\* close_user_connections with flush_session, or close_session_connections.
LogoutClose(k) ==
    /\ logout[k] \in {"all closing", "own closing"}
    /\ inbox' = [s \in Sockets |->
                   IF s \in Closed(k) THEN Append(inbox[s], logout[k] = "all closing")
                   ELSE inbox[s]]
    /\ logout' = [logout EXCEPT ![k] = IF @ = "all closing" THEN "all done" ELSE "own done"]
    /\ UNCHANGED <<alive, login, local, tracked, before, lost, phase, sess,
                   row, idle, quiet, handling, sweep, missed>>

-----------------------------------------------------------------------------
(* Sockets *)

\* The user of a socket is resolved once, from the session, when it connects.
Accept(s, k) ==
    /\ phase[s] = "new" /\ alive[k]
    /\ phase' = [phase EXCEPT ![s] = "accepted"]
    /\ sess' = [sess EXCEPT ![s] = k]
    /\ UNCHANGED <<sessions, row, idle, quiet, handling, inbox, sweep, missed>>

\* post_authentication joins the user's and the session's group ...
Join(s) ==
    /\ phase[s] = "accepted"
    /\ phase' = [phase EXCEPT ![s] = "joined"]
    /\ missed' = IF alive[sess[s]] THEN missed ELSE missed \cup {s}
    /\ UNCHANGED <<sessions, sess, row, idle, quiet, handling, inbox, sweep>>

\* ... and then creates the row.
Register(s) ==
    /\ phase[s] = "joined"
    /\ phase' = [phase EXCEPT ![s] = "open"]
    /\ row' = [row EXCEPT ![s] = "open"]
    /\ idle' = [idle EXCEPT ![s] = 0]
    /\ quiet' = [quiet EXCEPT ![s] = 0]
    /\ UNCHANGED <<sessions, sess, handling, inbox, sweep, missed>>

\* A message from the client; its handler runs as a task of its own.
Receive(s) ==
    /\ phase[s] \in {"open", "closing"} /\ s \notin handling
    /\ handling' = handling \cup {s}
    /\ quiet' = [quiet EXCEPT ![s] = 0]
    /\ UNCHANGED <<sessions, phase, sess, row, idle, inbox, sweep, missed>>

\* receive_message touches the row when the handler is done, which may be
\* after the socket has been closed.
FinishHandler(s) ==
    /\ s \in handling
    /\ handling' = handling \ {s}
    /\ UpdateConnection(s, FALSE)
    /\ UNCHANGED <<sessions, phase, sess, quiet, inbox, sweep, missed>>

\* Mutant of Flushes: the flag is ignored.
NeverFlushes(s) == FALSE

\* Does the close at the head of the inbox ask for the session to be flushed.
Flushes(s) == Head(inbox[s])

\* close_connection: flush the session if asked to and stamp the row ...  No
\* close is sent for that: a socket of the session that joined after the logout
\* sent its own runs on.
HandleClose(s) ==
    /\ Dispatching(s) /\ inbox[s] # <<>>
    /\ alive' = [alive EXCEPT ![sess[s]] = @ /\ ~Flushes(s)]
    /\ UpdateConnection(s, TRUE)
    /\ inbox' = [inbox EXCEPT ![s] = Tail(@)]
    /\ phase' = [phase EXCEPT ![s] = IF @ = "open" THEN "closing" ELSE @]
    /\ missed' = IF Flushes(s) /\ alive[sess[s]]
                 THEN missed \cup {t \in Sockets \ {s} : sess[t] = sess[s] /\ inbox[t] = <<>>}
                 ELSE missed
    /\ UNCHANGED <<login, logout, local, tracked, before, lost, sess,
                   quiet, handling, sweep>>

\* ... then tell the client and close.
SendClose(s) ==
    /\ phase[s] = "closing"
    /\ phase' = [phase EXCEPT ![s] = "closed"]
    /\ UNCHANGED <<sessions, sess, row, idle, quiet, handling, inbox, sweep, missed>>

\* websocket_disconnect, whoever closed the socket: the row gets the code it
\* was given, or 1006; what is still in the inbox is never dispatched.
Disconnect(s) ==
    /\ Dispatching(s)
    /\ UpdateConnection(s, TRUE)
    /\ phase' = [phase EXCEPT ![s] = "left"]
    /\ inbox' = [inbox EXCEPT ![s] = <<>>]
    /\ UNCHANGED <<sessions, sess, quiet, handling, sweep, missed>>

\* The process dies with the consumer and its tasks: nothing is written.
Crash(s) ==
    /\ phase[s] \in {"accepted", "joined", "open", "closing", "closed"}
    /\ phase' = [phase EXCEPT ![s] = "gone"]
    /\ handling' = handling \ {s}
    /\ inbox' = [inbox EXCEPT ![s] = <<>>]
    /\ UNCHANGED <<sessions, sess, row, idle, quiet, sweep, missed>>

-----------------------------------------------------------------------------
(* Operators, jobs and time *)

\* close_sockets reads the addresses of the sockets that look online ...
SweepStart ==
    /\ sweep = {} /\ \A s \in Sockets : Len(inbox[s]) < MaxCloses
    /\ sweep' = Online(OnlineWindow)
    /\ sweep' # {}
    /\ UNCHANGED <<sessions, sockets, missed>>

\* ... and sends each one a close, which ends no session.
SweepSend(s) ==
    /\ s \in sweep
    /\ sweep' = sweep \ {s}
    /\ inbox' = IF s \in Reachable THEN [inbox EXCEPT ![s] = Append(@, FALSE)] ELSE inbox
    /\ UNCHANGED <<sessions, phase, sess, row, idle, quiet, handling, missed>>

\* close_stale_connections, then purge_old_connections.
StaleJob ==
    /\ row' = [s \in Sockets |->
                 IF s \in Stale(StaleWindow) \/ row[s] = "closed"
                 THEN IF idle[s] > Retention THEN "purged" ELSE "closed"
                 ELSE row[s]]
    /\ idle' = [s \in Sockets |-> IF row'[s] = "purged" THEN 0 ELSE idle[s]]
    /\ UNCHANGED <<sessions, phase, sess, quiet, handling, inbox, sweep, missed>>

Older(age) == IF age = Cap THEN age ELSE age + 1

\* Time passes.  A handler, of a message or of a close, takes less than a tick.
Tick ==
    /\ handling = {} /\ \A s \in Sockets : phase[s] # "closing"
    /\ \E s \in Sockets : row[s] \in {"open", "closed"} /\ idle[s] < Cap
    /\ idle' = [s \in Sockets |-> IF row[s] \in {"open", "closed"} THEN Older(idle[s]) ELSE idle[s]]
    /\ quiet' = [s \in Sockets |-> IF phase[s] = "open" THEN Older(quiet[s]) ELSE 0]
    /\ UNCHANGED <<sessions, phase, sess, row, handling, inbox, sweep, missed>>

SessionStep ==
    \/ \E k \in Keys, old \in Keys \cup {NoKey} : Login(k, old)
    \/ \E k \in Keys : RememberRead(k)
    \/ \E k \in Keys : RememberWrite(k)
    \/ \E k \in Keys, everywhere \in BOOLEAN : LogoutRead(k, everywhere)
    \/ \E k \in Keys : LogoutEnd(k)
    \/ \E k \in Keys : LogoutClose(k)

SocketStep ==
    \/ \E s \in Sockets, k \in Keys : Accept(s, k)
    \/ \E s \in Sockets : Join(s)
    \/ \E s \in Sockets : Register(s)
    \/ \E s \in Sockets : Receive(s)
    \/ \E s \in Sockets : FinishHandler(s)
    \/ \E s \in Sockets : HandleClose(s)
    \/ \E s \in Sockets : SendClose(s)
    \/ \E s \in Sockets : Disconnect(s)
    \/ \E s \in Sockets : Crash(s)

Next ==
    \/ SessionStep
    \/ SocketStep
    \/ SweepStart
    \/ \E s \in Sockets : SweepSend(s)
    \/ StaleJob
    \/ Tick

Spec == Init /\ [][Next]_vars

\* Requests and handlers run to their end, a consumer dispatches what it is
\* sent, the scheduler runs the job again and again, and time passes.  The
\* user, the operator, the network and the death of a process promise nothing.
Fairness ==
    /\ \A k \in Keys : WF_vars(RememberRead(k) \/ RememberWrite(k))
    /\ \A k \in Keys : WF_vars(LogoutEnd(k) \/ LogoutClose(k))
    /\ \A s \in Sockets : WF_vars(Join(s) \/ Register(s))
    /\ \A s \in Sockets : WF_vars(HandleClose(s)) /\ WF_vars(SendClose(s))
    /\ \A s \in Sockets : SF_vars(FinishHandler(s))
    /\ WF_vars(StaleJob)
    /\ SF_vars(Tick)

FairSpec == Spec /\ Fairness

-----------------------------------------------------------------------------
(* Properties *)

\* When a logout everywhere has ended what it read, every session there was when
\* it began has ended, unless the cached list had lost its key to an overlapping
\* request or to the limit.
LogoutEverywhereEndsSessions ==
    \A k \in Keys : logout[k] \in {"all closing", "all done"} =>
        \A j \in before[k] : ~alive[j] \/ j \in lost

\* Every session is in the cached list once its login is done, in whatever
\* order logins and logouts of other sessions read and write the list.
SessionsAreTracked ==
    \A k \in Keys : alive[k] /\ login[k] = "done" => k \in Range(tracked) \cup lost

\* A logout everywhere finds every session the cached list can know of, whatever
\* logins and logouts overlap with it.
EverySessionIsReached == TypeOK /\ SessionsAreTracked /\ LogoutEverywhereEndsSessions

\* No socket keeps running on a session that has ended: a close is in its
\* inbox or the logout has still to send it.  The code cannot reach a socket
\* that was accepted before the logout and joined its groups after it, nor one
\* whose session key was cycled by a new login, nor one that joined after the
\* closes were sent and whose session the close of another socket flushes.
NoSocketOutlivesSession ==
    \A s \in Sockets :
        phase[s] = "open" /\ ~alive[sess[s]] /\ s \notin missed =>
            \/ inbox[s] # <<>>
            \/ \E k \in Keys : logout[k] = "all closing"
            \/ logout[sess[s]] = "own closing"

\* A socket whose client was heard from recently is counted as online, also
\* after the stale job has closed its row by mistake.
HeardIsOnline ==
    \A s \in Sockets :
        /\ phase[s] = "open" /\ s \notin handling /\ row[s] # "purged"
        /\ quiet[s] < OnlineWindow - UpdateInterval
        => s \in Online(OnlineWindow)

\* A purge of inactive users spares everybody who has been heard from within
\* its window, less the throttle of the rows.
PurgeSparesTheHeard ==
    \A within \in PurgeWindows, s \in Sockets :
        /\ phase[s] = "open" /\ s \notin handling /\ row[s] # "purged"
        /\ quiet[s] < within - UpdateInterval
        => ~Inactive(within)

\* Whoever is heard counts as online and is not purged as inactive.
HeardCountsAsPresent == HeardIsOnline /\ PurgeSparesTheHeard

\* A socket that died with its process is not open in the table for ever.
DeadRowIsClosed ==
    \A s \in Sockets : (phase[s] = "gone" /\ row[s] = "open") ~> row[s] # "open"

\* A logout everywhere reaches every device with a live socket: its session
\* ends, unless the socket goes away first.
LiveDeviceIsLoggedOut ==
    \A s \in Sockets : (phase[s] = "open" /\ TRUE \in Range(inbox[s])) ~>
        (phase[s] \in {"left", "gone"} \/ \E k \in Keys : sess[s] = k /\ ~alive[k])
=============================================================================
