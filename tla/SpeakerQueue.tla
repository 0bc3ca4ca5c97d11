--------------------------- MODULE SpeakerQueue ---------------------------
(***************************************************************************)
(* One speaker list: the Speaker rows of the users who queue, speak or     *)
(* have spoken, and the order the queue is shown in, which the list        *)
(* methods simple, priority and gender_prio recompute.                     *)
(*                                                                         *)
(* SpeakerList.order is a cache of what the rows say.  Most requests lock  *)
(* the list's row before they change either, but what they decided before  *)
(* they had the lock comes from an unlocked read, and a save writes every  *)
(* column of the copy back.  A worker therefore reads in one step and      *)
(* commits in another; until two of them overlap, which overlapped         *)
(* remembers, this is the sequential program.                              *)
(*                                                                         *)
(* The meeting is upcoming or ongoing throughout and every user may speak; *)
(* one more user moderates.                                                *)
(***************************************************************************)
EXTENDS Integers, Sequences, FiniteSets, SequencesExt

CONSTANTS
    Users,          \* the users who may enter the list
    Method,         \* method_name of the speaker system
    SafePositions,  \* safe_positions of the speaker system
    MaxTimes,       \* max_times of the method's settings, 0 for no limit
    Prioritised,    \* the users whose gender tag is in priority_genders
    Workers,        \* the requests that can be served at the same time
    MaxRows,        \* bound on the Speaker rows ever created
    MaxSharedRows   \* the same bound once requests have overlapped

VARIABLES
    rows,     \* the Speaker rows by pk, which is also the order of created
    order,    \* SpeakerList.order
    open,     \* SpeakerList.is_open
    system,   \* SpeakerListSystem: its state, and whether this list is active
    request,  \* what each worker has read for the request it serves
    overlapped  \* history: two requests have been in flight at the same time

tables == <<rows, order, open, system, request>>
vars == <<tables, overlapped>>

ASSUME QueueAssumption ==
    /\ Method \in {"simple", "priority", "gender_prio"}
    /\ SafePositions \in Nat
    /\ MaxTimes \in Nat
    /\ MaxRows \in Nat /\ MaxSharedRows \in 0 .. MaxRows
    /\ Prioritised \subseteq Users

\* queued: not started; current: started, no seconds; spoken: has seconds;
\* gone: deleted.
Stages == {"queued", "current", "spoken", "gone"}
Idle == [op |-> "idle"]

Unfinished(rs) == {p \in DOMAIN rs : rs[p].stage \in {"queued", "current"}}
Current(rs) == {p \in DOMAIN rs : rs[p].stage = "current"}
UsersOf(rs, pks) == {rs[p].user : p \in pks}

\* The numbers in S by their key and, where that is equal, by themselves.
SortedBy(S, key) ==
    CHOOSE s \in [1 .. Cardinality(S) -> S] :
        \A i, j \in 1 .. Cardinality(S) :
            i < j => \/ key[s[i]] < key[s[j]]
                     \/ key[s[i]] = key[s[j]] /\ s[i] < s[j]

Without(ord, users) ==
    LET kept == SortedBy({i \in DOMAIN ord : ord[i] \notin users}, [i \in DOMAIN ord |-> i])
    IN [k \in DOMAIN kept |-> ord[kept[k]]]

\* The partial unique constraints of Speaker.Meta.
OneSpeaker(rs) == Cardinality(Current(rs)) <= 1
OneTurnEach(rs) == \A p, q \in Unfinished(rs) : rs[p].user = rs[q].user => p = q
Constraints(rs) == OneSpeaker(rs) /\ OneTurnEach(rs)

-----------------------------------------------------------------------------
(* The order of the list.                                                  *)

\* min(speaker.spoken_count, max_priority), max_priority unbounded when
\* MaxTimes is 0.
SpokenCount(rs, u) ==
    LET count == Cardinality({p \in DOMAIN rs : rs[p] = [user |-> u, stage |-> "spoken"]})
    IN IF MaxTimes > 0 /\ count > MaxTimes THEN MaxTimes ELSE count

\* Mutant: those who have spoken most come first.
BySpokenCountReversed(rs, incoming) ==
    LET sorted == SortedBy(DOMAIN incoming,
                           [i \in DOMAIN incoming |-> -SpokenCount(rs, incoming[i])])
    IN [k \in DOMAIN sorted |-> incoming[sorted[k]]]

\* Priority.reorder
BySpokenCount(rs, incoming) ==
    LET sorted == SortedBy(DOMAIN incoming,
                           [i \in DOMAIN incoming |-> SpokenCount(rs, incoming[i])])
    IN [k \in DOMAIN sorted |-> incoming[sorted[k]]]

\* Who comes after those in line: the first who is left or, after someone who
\* is not prioritised, the first prioritised one who has spoken as often.
Successor(rs, sorted, line) ==
    LET left == {i \in DOMAIN sorted : sorted[i] \notin Range(line)}
        first == Min(left)
        prio == {i \in left : /\ sorted[i] \in Prioritised
                              /\ SpokenCount(rs, sorted[i]) = SpokenCount(rs, sorted[first])}
    IN IF line # <<>> /\ Last(line) \notin Prioritised /\ prio # {}
       THEN sorted[Min(prio)] ELSE sorted[first]

\* Mutant: the last of the safe speakers does not count.
AlternatedFromScratch(rs, safe, sorted) ==
    LET line[k \in 0 .. Len(sorted)] ==
            IF k = 0 THEN <<>>
            ELSE LET before == line[k - 1] IN Append(before, Successor(rs, sorted, before))
    IN safe \o line[Len(sorted)]

\* GenderAndPriority.reorder: the line of the safe speakers and those after them.
Alternated(rs, safe, sorted) ==
    LET line[k \in 0 .. Len(sorted)] ==
            IF k = 0 THEN safe
            ELSE LET before == line[k - 1] IN Append(before, Successor(rs, sorted, before))
    IN line[Len(sorted)]

\* The safe speakers and, as ListMethod.reorder of the system's method yields
\* them, the others.
MethodReorder(rs, safe, incoming) ==
    CASE Method = "simple" -> safe \o incoming
      [] Method = "priority" -> safe \o BySpokenCount(rs, incoming)
      [] Method = "gender_prio" -> Alternated(rs, safe, BySpokenCount(rs, incoming))

\* Mutant: users the order does not know are skipped.
IncomingKnown(rs, ord) == Without(ord, Users \ UsersOf(rs, Unfinished(rs)))

\* Users with an unfinished row by their index in ord; those not in it come
\* last, in the order they were created.
Incoming(rs, ord) ==
    LET At(p) == {i \in DOMAIN ord : ord[i] = rs[p].user}
        sorted == SortedBy(Unfinished(rs),
                           [p \in DOMAIN rs |-> IF At(p) = {} THEN Len(ord) + 1 ELSE Min(At(p))])
    IN [k \in DOMAIN sorted |-> rs[sorted[k]].user]

\* Mutant: the current speaker takes up a safe position.
SafeCountShared(rs, incoming) ==
    IF SafePositions < Len(incoming) THEN SafePositions ELSE Len(incoming)

\* How many of the incoming order keep their place: one more than
\* safe_positions when the current speaker is among those.
SafeCount(rs, incoming) ==
    LET speaking == \E i \in DOMAIN incoming :
                        i <= SafePositions /\ incoming[i] \in UsersOf(rs, Current(rs))
        count == IF speaking THEN SafePositions + 1 ELSE SafePositions
    IN IF count < Len(incoming) THEN count ELSE Len(incoming)

\* SpeakerList.reorder
Reorder(rs, ord) ==
    LET incoming == Incoming(rs, ord)
        n == SafeCount(rs, incoming)
    IN MethodReorder(rs, SubSeq(incoming, 1, n), SubSeq(incoming, n + 1, Len(incoming)))

-----------------------------------------------------------------------------
(* The first half of a request: permissions, validation and the unlocked   *)
(* read of the row it is about.                                            *)

Init ==
    /\ rows = <<>>
    /\ order = <<>>
    /\ open = TRUE
    /\ system = [state |-> "active", active_list |-> FALSE]
    /\ request = [w \in Workers |-> Idle]
    /\ overlapped = FALSE

\* The bound on overlapping: a request that is not alone is taken only while
\* there are at most MaxSharedRows rows.
InFlight == {w \in Workers : request[w] # Idle}
MayOverlap == InFlight # {} => Len(rows) <= MaxSharedRows
RowBound == IF overlapped THEN MaxSharedRows ELSE MaxRows

Read(w, what) ==
    /\ request[w] = Idle
    /\ MayOverlap
    /\ request' = [request EXCEPT ![w] = what]
    /\ UNCHANGED <<rows, order, open, system>>

\* PERM_ENTER: is_list_open and not_currently_speaking.
ReadEnter(w, u) ==
    /\ open
    /\ u \notin UsersOf(rows, Current(rows))
    /\ Read(w, [op |-> "add", user |-> u])

\* CreateSpeakerSerializer.validate and PERM.ADD.
ReadCreate(w, u) ==
    /\ system.state = "active"
    /\ u \notin UsersOf(rows, Unfinished(rows))
    /\ Read(w, [op |-> "add", user |-> u])

\* SpeakerViewSet.get_queryset: the rows each action finds.
SpeakerFilter(op) ==
    CASE op = "start" -> {"queued"}
      [] op \in {"stop", "undo"} -> {"current"}
      [] op = "destroy" -> {"queued", "current", "spoken"}

\* get_object of start, stop, undo and destroy; start has PERM_START.
ReadSpeaker(w, op, p) ==
    /\ rows[p].stage \in SpeakerFilter(op)
    /\ op = "start" => system.active_list
    /\ Read(w, [op |-> op, pk |-> p])

\* get_object of the PATCH of a list.
ReadList(w) == Read(w, [op |-> "update", order |-> order])

\* check_no_active_speaker, before the agenda item of the list is closed.
ReadCloseItem(w) ==
    /\ Current(rows) = {}
    /\ Read(w, [op |-> "close_item"])

-----------------------------------------------------------------------------
(* The second half: the transaction that holds the lock of the list.       *)

Finish(w) == request' = [request EXCEPT ![w] = Idle]

\* enter and perform_create.  When the user has an unfinished row by now,
\* get_or_create finds it or the insert breaks a constraint: see Rollback.
AddSpeaker(w) ==
    LET u == request[w].user IN
    /\ request[w].op = "add"
    /\ Len(rows) < RowBound
    /\ u \notin UsersOf(rows, Unfinished(rows))
    /\ rows' = Append(rows, [user |-> u, stage |-> "queued"])
    /\ order' = Reorder(rows', order)
    /\ Finish(w)
    /\ UNCHANGED <<open, system>>

\* perform_destroy
DestroySpeaker(w) ==
    /\ request[w].op = "destroy"
    /\ rows' = [rows EXCEPT ![request[w].pk].stage = "gone"]
    /\ order' = Reorder(rows', order)
    /\ Finish(w)
    /\ UNCHANGED <<open, system>>

\* The rows after start has stopped the current speaker and saved its copy of
\* row p; the save inserts a row that is gone by now.
Started(rs, p) ==
    [q \in DOMAIN rs |->
        IF q = p THEN [rs[q] EXCEPT !.stage = "current"]
        ELSE IF q \in Current(rs) THEN [rs[q] EXCEPT !.stage = "spoken"]
        ELSE rs[q]]

StartSpeaker(w) ==
    /\ request[w].op = "start"
    /\ Constraints(Started(rows, request[w].pk))
    /\ rows' = Started(rows, request[w].pk)
    /\ order' = Without(order, UsersOf(rows, Current(rows)))
    /\ Finish(w)
    /\ UNCHANGED <<open, system>>

\* Mutant: the order keeps the speaker who is done.
StopSpeakerKept(w) ==
    /\ request[w].op = "stop"
    /\ rows' = [rows EXCEPT ![request[w].pk].stage = "spoken"]
    /\ Finish(w)
    /\ UNCHANGED <<order, open, system>>

StopSpeaker(w) ==
    LET p == request[w].pk IN
    /\ request[w].op = "stop"
    /\ rows' = [rows EXCEPT ![p].stage = "spoken"]
    /\ order' = Without(order, {rows[p].user})
    /\ Finish(w)
    /\ UNCHANGED <<open, system>>

\* undo saves its copy of the row and leaves the list alone.
UndoSpeaker(w) ==
    LET undone == [rows EXCEPT ![request[w].pk].stage = "queued"] IN
    /\ request[w].op = "undo"
    /\ Constraints(undone)
    /\ rows' = undone
    /\ Finish(w)
    /\ UNCHANGED <<order, open, system>>

\* PATCH of title or is_open: saves every column, order with them.
UpdateList(w, isOpen) ==
    /\ request[w].op = "update"
    /\ open' = isOpen
    /\ order' = request[w].order
    /\ Finish(w)
    /\ UNCHANGED <<rows, system>>

\* close_and_deactivate_when_ai_closes; it locks the list before it reads it.
CloseItem(w) ==
    /\ request[w].op = "close_item"
    /\ open' = FALSE
    /\ system' = [system EXCEPT !.active_list = FALSE]
    /\ Finish(w)
    /\ UNCHANGED <<rows, order>>

\* The request fails or finds nothing to do; so does one that a constraint
\* refuses, or that the database picks to break a deadlock: stop takes the
\* locks of the row and of the list in the other order than start.
Rollback(w) ==
    /\ request[w] # Idle
    /\ Finish(w)
    /\ UNCHANGED <<rows, order, open, system>>

-----------------------------------------------------------------------------
(* Requests that lock the list before they read anything, and those to the *)
(* system's own row, are one step; a worker must be free to serve them.    *)

Served == InFlight # Workers /\ MayOverlap

\* leave: speakers_in_queue().filter(user=request.user).delete()
Leave(p) ==
    /\ Served
    /\ rows[p].stage = "queued"
    /\ rows' = [rows EXCEPT ![p].stage = "gone"]
    /\ order' = Reorder(rows', order)
    /\ UNCHANGED <<open, system, request>>

\* shuffle, where f is the sample of order_list.
Shuffle(f) ==
    /\ Served
    /\ Current(rows) = {}
    /\ order' = Reorder(rows, [i \in DOMAIN order |-> order[f[i]]])
    /\ UNCHANGED <<rows, open, system, request>>

\* PATCH of active_list.
SetActiveList(active) ==
    /\ Served
    /\ system' = [system EXCEPT !.active_list = active]
    /\ UNCHANGED <<rows, order, open, request>>

Activate ==
    /\ Served
    /\ system.state = "inactive"
    /\ system' = [system EXCEPT !.state = "active"]
    /\ UNCHANGED <<rows, order, open, request>>

\* no_active_speaker looks at the active list, which may be another one.
Inactivate ==
    /\ Served
    /\ system.state = "active"
    /\ system.active_list => Current(rows) = {}
    /\ system' = [state |-> "inactive", active_list |-> FALSE]
    /\ UNCHANGED <<rows, order, open, request>>

Shuffles == \E f \in Injection(DOMAIN order, DOMAIN order) : Shuffle(f)

Step ==
    \/ \E w \in Workers :
          \/ \E u \in Users : ReadEnter(w, u) \/ ReadCreate(w, u)
          \/ \E p \in DOMAIN rows, op \in {"start", "stop", "undo", "destroy"} :
                ReadSpeaker(w, op, p)
          \/ ReadList(w)
          \/ ReadCloseItem(w)
          \/ AddSpeaker(w)
          \/ DestroySpeaker(w)
          \/ StartSpeaker(w)
          \/ StopSpeaker(w)
          \/ UndoSpeaker(w)
          \/ \E isOpen \in BOOLEAN : UpdateList(w, isOpen)
          \/ CloseItem(w)
          \/ Rollback(w)
    \/ \E p \in DOMAIN rows : Leave(p)
    \/ Shuffles
    \/ \E active \in BOOLEAN : SetActiveList(active)
    \/ Activate
    \/ Inactivate

\* Two requests are in flight, one of which may be served in a single step.
Overlap ==
    \/ \E v, w \in InFlight' : v # w
    \/ InFlight # {} /\ UNCHANGED request

Next == Step /\ overlapped' = (overlapped \/ Overlap)

Spec == Init /\ [][Next]_vars

-----------------------------------------------------------------------------
TypeOK ==
    /\ rows \in Seq([user : Users, stage : Stages])
    /\ Len(rows) <= MaxRows
    /\ order \in Seq(Users)
    /\ open \in BOOLEAN
    /\ overlapped \in BOOLEAN
    /\ system \in [state : {"active", "inactive"}, active_list : BOOLEAN]
    /\ \A w \in Workers :
          \/ request[w] \in {Idle, [op |-> "close_item"]}
          \/ request[w] \in [op : {"add"}, user : Users]
          \/ request[w] \in [op : {"start", "stop", "undo", "destroy"},
                             pk : DOMAIN rows]
          \/ request[w].op = "update" /\ request[w].order \in Seq(Users)

(* What holds as long as no two requests have overlapped.                  *)

InOrder(rs, ord) ==
    /\ IsInjective(ord)
    /\ Range(ord) = UsersOf(rs, Unfinished(rs))

\* The queue the clients are sent, order_list, is who queues or speaks by the
\* Speaker rows, each of them once.
QueueIsInOrder == ~overlapped => InOrder(rows, order)

Ahead(ord, u, v) ==
    \E i, j \in DOMAIN ord : i < j /\ ord[i] = u /\ ord[j] = v

InSafePosition(i) ==
    \/ i <= SafePositions
    \/ /\ i = SafePositions + 1
       /\ \E j \in 1 .. SafePositions : order[j] \in UsersOf(rows, Current(rows))

\* Only a shuffle puts a user ahead of one in a safe position, the one extra
\* position while someone in a safe position is speaking included.
SafeSpeakersNotOvertaken ==
    [][\/ Shuffles \/ overlapped'
       \/ \A i \in DOMAIN order, v \in Users :
             InSafePosition(i) /\ Ahead(order', v, order[i])
                => Ahead(order, v, order[i])]_vars

\* Unless the list is shuffled, a user is overtaken, by one in the queue or by
\* a newcomer, only if that one has spoken fewer times, or equally often with
\* gender_prio and a prioritised gender.
OvertakingHasAReason ==
    [][\/ Shuffles \/ overlapped'
       \/ \A u, v \in Users :
             u \in Range(order) /\ Ahead(order', v, u) /\ ~Ahead(order, v, u) =>
                \/ /\ Method # "simple"
                   /\ SpokenCount(rows', v) < SpokenCount(rows', u)
                \/ /\ Method = "gender_prio"
                   /\ SpokenCount(rows', v) = SpokenCount(rows', u)
                   /\ v \in Prioritised /\ u \notin Prioritised]_vars

\* "At least every second speaker from prioritized genders within same group":
\* of two in a row that are not prioritised, the second one in a position that
\* is not safe, no one prioritised who has spoken as often as the second waits
\* behind them.
EverySecondIsPrioritised ==
    Method = "gender_prio" /\ ~overlapped =>
    LET new == Reorder(rows, order)
        safe == SafeCount(rows, Incoming(rows, order))
    IN \A i, j \in DOMAIN new :
          /\ i >= safe /\ i + 1 < j
          /\ {new[i], new[i + 1]} \cap Prioritised = {}
          /\ SpokenCount(rows, new[j]) = SpokenCount(rows, new[i + 1])
          => new[j] \notin Prioritised

(* What holds whatever requests overlap.                                   *)

\* A start never has to be refused because another user speaks, as in "the old
\* speaker is simply stopped": the constraint only_one_ongoing_speaker backs
\* the lock up and is never what a request fails on.
StartReplacesSpeaker ==
    \A w \in Workers :
        request[w].op = "start" => OneSpeaker(Started(rows, request[w].pk))

\* The queue is what its rows say, and changing speakers never fails.
QueueIsSound == TypeOK /\ QueueIsInOrder /\ StartReplacesSpeaker

\* Overlapping requests can leave the order stale; whenever someone enters or
\* leaves the list it is right again.
ReorderRepairs ==
    [][(\/ Len(rows') > Len(rows)
        \/ \E p \in DOMAIN rows : rows'[p].stage = "gone" /\ rows[p].stage # "gone")
       => InOrder(rows', order')]_vars
=============================================================================
