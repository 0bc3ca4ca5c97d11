------------------------ MODULE PollVoting_proofs ------------------------
(***************************************************************************)
(* Proofs, for any number of users, votes, registers and overlapping       *)
(* requests, that the row of a poll stays consistent with itself.          *)
(*                                                                         *)
(* A request saves the copy of the row it has read, stale or not.  The     *)
(* argument is that every copy in flight is consistent, shows a state the  *)
(* event starts from, and that each event takes a consistent row to a      *)
(* consistent row; which of them is saved last does not matter.            *)
(***************************************************************************)
EXTENDS PollVoting, TLAPS

\* The columns of a row; nothing is said about the numbers in a ballot.
IsRow(row) ==
    /\ row = [state |-> row.state, er |-> row.er, ballot |-> row.ballot,
              abstains |-> row.abstains, result |-> row.result,
              withheld_result |-> row.withheld_result]
    /\ row.state \in PollStates
    /\ row.result \in BOOLEAN
    /\ row.withheld_result \in BOOLEAN

\* CountedExactlyWhenFinished of any copy of the row.
CountedRow(row) ==
    IF row.state \in CountedStates
    THEN row.result /\ row.ballot # NoBallot /\ row.er # NoRegister
    ELSE ~row.result /\ row.ballot = NoBallot /\ row.abstains = 0

\* ResultShownOnlyWhenFinished of any copy of the row.
ShownRow(row) ==
    (row.state \in CountedStates /\ ~row.withheld_result)
        <=> row.state = "finished"

RowOK(row) == IsRow(row) /\ CountedRow(row) /\ ShownRow(row)

\* What a request in flight holds: a consistent copy of the row, in a state
\* the event may be sent in.
RequestOK(q) ==
    /\ q.kind = "roles" => RowOK(q.row)
    /\ q.kind \in DOMAIN Sources =>
          RowOK(q.row) /\ q.row.state \in Sources[q.kind]

\* The inductive invariant.
RowInv ==
    /\ RowOK(poll)
    /\ request = [c \in Requests |-> request[c]]
    /\ \A c \in Requests : RequestOK(request[c])

-----------------------------------------------------------------------------
\* The events of Sources, by name.
LEMMA SourceNames ==
    DOMAIN Sources = {"make_upcoming", "make_ongoing", "unpublish", "cancel",
                      "close", "publish_result", "withhold_result", "update"}
BY DEF Sources

\* A request that is done holds nothing.
LEMMA IdleOK == RequestOK(Idle)
BY SourceNames DEF RequestOK, Idle

\* A step that leaves the row consistent and ends the request keeps RowInv.
LEMMA FinishedKeeps ==
    ASSUME RowInv, NEW c \in Requests, RowOK(poll'),
           request' = [request EXCEPT ![c] = Idle]
    PROVE  RowInv'
<1>1. \A d \in Requests : request'[d] = IF d = c THEN Idle ELSE request[d]
    BY DEF RowInv
<1>2. request' = [d \in Requests |-> request'[d]]
    BY DEF RowInv
<1>3. \A d \in Requests : RequestOK(request[d])
    BY DEF RowInv
<1>4. \A d \in Requests : RequestOK(request'[d])
    BY <1>1, <1>3, IdleOK
<1> QED
    BY <1>2, <1>4 DEF RowInv, RequestOK, RowOK, IsRow, CountedRow, ShownRow

\* The read of a request that may be sent keeps RowInv.
LEMMA ReadKeeps ==
    ASSUME RowInv, NEW c \in Requests, NEW q, RequestOK(q),
           request' = [request EXCEPT ![c] = q], poll' = poll
    PROVE  RowInv'
<1>1. \A d \in Requests : request'[d] = IF d = c THEN q ELSE request[d]
    BY DEF RowInv
<1>2. request' = [d \in Requests |-> request'[d]]
    BY DEF RowInv
<1>3. \A d \in Requests : RequestOK(request[d])
    BY DEF RowInv
<1>4. \A d \in Requests : RequestOK(request'[d])
    BY <1>1, <1>3
<1> QED
    BY <1>2, <1>4 DEF RowInv, RequestOK, RowOK, IsRow, CountedRow, ShownRow

-----------------------------------------------------------------------------
\* Poll.cleanup_removed_from_er_votes leaves no vote of anyone outside the
\* register, so with an empty one there is nothing to count.
LEMMA EmptyRegisterHasNoVotes ==
    ASSUME NEW row, row.er # NoRegister, DOMAIN row.er = {}
    PROVE  \A u \in Users : CleanedVotes(row)[u] \notin VoteData
BY VotingAssumption DEF CleanedVotes

\* The close event, whether the poll method raises or not, takes a consistent
\* row in a state it starts from to a consistent row.
LEMMA ClosedIsConsistent ==
    ASSUME NEW row, NEW raises \in BOOLEAN, RowOK(row),
           row.state \in {"ongoing", "failed", "canceled"}
    PROVE  RowOK(Closed(row, raises))
<1> DEFINE valid == \E u \in Users : CleanedVotes(row)[u] \in VoteData
           populated == row.er # NoRegister /\ DOMAIN row.er # {}
           ballot == Ballot(CleanedVotes(row), row.er)
           abstains == WeightOf(CleanedVotes(row), row.er, Abstain)
           counted == IF valid THEN Calculated(row, raises) ELSE row
<1>1. /\ ~row.result /\ row.ballot = NoBallot /\ row.abstains = 0
      /\ IsRow(row)
    BY DEF RowOK, CountedRow, CountedStates
<1>2. ballot # NoBallot
    BY VotingAssumption DEF Ballot, NoBallot
<1>3. row.er = NoRegister => Calculated(row, raises) = row
    BY DEF Calculated
<1>4. row.er # NoRegister =>
          Calculated(row, raises) =
              [row EXCEPT !.ballot = ballot, !.abstains = abstains,
                          !.result = ~raises]
    BY <1>1 DEF Calculated
<1>5. ~populated => counted = row
    BY <1>3, EmptyRegisterHasNoVotes
<1>6. CASE populated /\ valid /\ ~raises
  <2>1. counted = [state |-> row.state, er |-> row.er, ballot |-> ballot,
                   abstains |-> abstains, result |-> TRUE,
                   withheld_result |-> row.withheld_result]
    BY <1>1, <1>4, <1>6 DEF IsRow
  <2>2. counted.result
    BY <2>1
  <2>3. CASE row.withheld_result
    <3>1. Closed(row, raises) = [counted EXCEPT !.state = "withheld"]
      BY <1>6, <2>2, <2>3 DEF Closed
    <3> HIDE DEF counted, valid, ballot, abstains
    <3>2. Closed(row, raises) =
              [state |-> "withheld", er |-> row.er, ballot |-> ballot,
               abstains |-> abstains, result |-> TRUE,
               withheld_result |-> row.withheld_result]
      BY <2>1, <3>1
    <3> QED
      BY <1>1, <1>2, <1>6, <2>3, <3>2
      DEF RowOK, IsRow, CountedRow, ShownRow, CountedStates, PollStates
  <2>4. CASE ~row.withheld_result
    <3>1. Closed(row, raises) = [counted EXCEPT !.state = "finished"]
      BY <1>6, <2>2, <2>4 DEF Closed
    <3> HIDE DEF counted, valid, ballot, abstains
    <3>2. Closed(row, raises) =
              [state |-> "finished", er |-> row.er, ballot |-> ballot,
               abstains |-> abstains, result |-> TRUE,
               withheld_result |-> row.withheld_result]
      BY <2>1, <3>1
    <3> QED
      BY <1>1, <1>2, <1>6, <2>4, <3>2
      DEF RowOK, IsRow, CountedRow, ShownRow, CountedStates, PollStates
  <2> QED
    BY <2>3, <2>4
<1>7. CASE ~valid \/ ~populated
  <2>1. counted = row
    BY <1>5, <1>7
  <2>2. Closed(row, raises) = [row EXCEPT !.state = "no_result"]
    BY <1>7, <2>1 DEF Closed
  <2> QED
    BY <1>1, <2>2
    DEF RowOK, IsRow, CountedRow, ShownRow, CountedStates, PollStates
<1>8. CASE populated /\ valid /\ raises
  <2>1. counted = [state |-> row.state, er |-> row.er, ballot |-> ballot,
                   abstains |-> abstains, result |-> FALSE,
                   withheld_result |-> row.withheld_result]
    BY <1>1, <1>4, <1>8 DEF IsRow
  <2>2. Closed(row, raises) = [counted EXCEPT !.state = "failed",
                                 !.ballot = NoBallot, !.abstains = 0]
    <3>1. ~counted.result
      BY <2>1
    <3> QED
      BY <1>8, <3>1 DEF Closed
  <2> HIDE DEF counted, ballot, abstains
  <2>3. Closed(row, raises) =
            [state |-> "failed", er |-> row.er, ballot |-> NoBallot,
             abstains |-> 0, result |-> FALSE,
             withheld_result |-> row.withheld_result]
    BY <2>1, <2>2
  <2> QED
    BY <1>1, <2>3
    DEF RowOK, IsRow, CountedRow, ShownRow, CountedStates, PollStates
<1> QED
    BY <1>6, <1>7, <1>8

\* So does every event that only touches the row, and a PATCH.
LEMMA RowAfterIsConsistent ==
    ASSUME NEW row, NEW event \in RowEvents, RowOK(row),
           row.state \in Sources[event]
    PROVE  RowOK(RowAfter(event, row))
<1> USE DEF RowOK, IsRow, CountedRow, ShownRow, CountedStates, PollStates,
            RowAfter, Sources
<1>1. CASE event = "make_upcoming"
    BY <1>1
<1>2. CASE event = "unpublish"
    BY <1>2
<1>3. CASE event = "cancel"
    BY <1>3
<1>4. CASE event = "publish_result"
    BY <1>4
<1>5. CASE event = "withhold_result"
    BY <1>5
<1>6. CASE event = "update"
    BY <1>6
<1> QED
    BY <1>1, <1>2, <1>3, <1>4, <1>5, <1>6 DEF RowEvents

-----------------------------------------------------------------------------
\* A new poll is consistent and no request is in flight.
LEMMA InitRowInv == Init => RowInv
<1> SUFFICES ASSUME Init PROVE RowInv
    OBVIOUS
<1>1. RowOK(poll)
    BY DEF Init, RowOK, IsRow, CountedRow, ShownRow, CountedStates, PollStates
<1>2. request = [c \in Requests |-> request[c]]
    BY DEF Init
<1>3. \A c \in Requests : request[c] = Idle
    BY DEF Init
<1> QED
    BY <1>1, <1>2, <1>3, IdleOK DEF RowInv

\* Every step of every request keeps the invariant.
LEMMA NextRowInv == RowInv /\ [Next]_vars => RowInv'
<1> SUFFICES ASSUME RowInv, Step \/ UNCHANGED vars PROVE RowInv'
    BY DEF Next
<1> DEFINE Same == poll' = poll /\ request' = request
<1>1. ASSUME Same PROVE RowInv'
    BY <1>1 DEF RowInv, RequestOK, RowOK, IsRow, CountedRow, ShownRow
<1>2. CASE UNCHANGED vars
    BY <1>1, <1>2 DEF vars, tables
<1>3. CASE TriggerRegister
    BY <1>1, <1>3 DEF TriggerRegister
<1>4. CASE \E name \in Policies, meetingOngoing \in BOOLEAN :
              ChangePolicy(name, meetingOngoing)
    BY <1>1, <1>4 DEF ChangePolicy
<1>5. CASE \E new \in Registers : ChangeVoters(new)
    BY <1>1, <1>5 DEF ChangeVoters
<1>6. ASSUME NEW c \in Requests, ReadForNewRegister(c) PROVE RowInv'
  <2>1. RequestOK([kind |-> "roles", row |-> poll])
    BY SourceNames DEF RequestOK, RowInv
  <2> QED
    BY <1>6, <2>1, ReadKeeps DEF ReadForNewRegister
<1>7. ASSUME NEW c \in Requests, NEW new \in Registers, ApplyNewRegister(c, new)
      PROVE  RowInv'
  <2>1. RowOK(request[c].row) /\ RowOK(poll)
    BY <1>7 DEF ApplyNewRegister, RowInv, RequestOK
  <2>2. RowOK(poll')
    <3>1. CASE poll' = poll
      BY <2>1, <3>1
    <3>2. CASE /\ request[c].row.state = "ongoing"
               /\ poll' = [request[c].row EXCEPT !.er = latestER']
      BY <2>1, <3>2 DEF RowOK, IsRow, CountedRow, ShownRow, CountedStates
    <3> QED
      BY <1>7, <3>1, <3>2 DEF ApplyNewRegister
  <2>3. request' = [request EXCEPT ![c] = Idle]
    BY <1>7 DEF ApplyNewRegister
  <2> QED
    BY <2>2, <2>3, FinishedKeeps
<1>8. ASSUME NEW c \in Requests, NEW u \in Users,
             NEW v \in VoteData \cup {Abstain}, ValidateVote(c, u, v)
      PROVE  RowInv'
  <2>1. RequestOK([kind |-> "vote", user |-> u, vote |-> v])
    BY SourceNames DEF RequestOK
  <2> QED
    BY <1>8, <2>1, ReadKeeps DEF ValidateVote
<1>9. ASSUME NEW c \in Requests, StoreVote(c) \/ Rollback(c) PROVE RowInv'
  <2>1. RowOK(poll') /\ request' = [request EXCEPT ![c] = Idle]
    BY <1>9 DEF StoreVote, Rollback, RowInv
  <2> QED
    BY <2>1, FinishedKeeps
<1>10. ASSUME NEW c \in Requests, NEW event \in DOMAIN Sources,
              ReadPoll(c, event)
       PROVE  RowInv'
  <2>1. event # "roles"
    BY SourceNames
  <2>2. RequestOK([kind |-> event, row |-> poll])
    BY <1>10, <2>1 DEF RequestOK, RowInv, ReadPoll
  <2> QED
    BY <1>10, <2>2, ReadKeeps DEF ReadPoll
<1>11. ASSUME NEW c \in Requests, StartPoll(c) PROVE RowInv'
  <2>1. RowOK(request[c].row) /\ request[c].row.state \in Sources["make_ongoing"]
    BY <1>11, SourceNames DEF StartPoll, RowInv, RequestOK
  <2>2. RowOK(poll')
    BY <1>11, <2>1
    DEF StartPoll, Sources, RowOK, IsRow, CountedRow, ShownRow, CountedStates,
        PollStates
  <2>3. request' = [request EXCEPT ![c] = Idle]
    BY <1>11 DEF StartPoll
  <2> QED
    BY <2>2, <2>3, FinishedKeeps
<1>12. ASSUME NEW c \in Requests, NEW raises \in BOOLEAN, ClosePoll(c, raises)
       PROVE  RowInv'
  <2>1. RowOK(request[c].row) /\ request[c].row.state \in Sources["close"]
    BY <1>12, SourceNames DEF ClosePoll, RowInv, RequestOK
  <2>2. request[c].row.state \in {"ongoing", "failed", "canceled"}
    BY <2>1 DEF Sources
  <2>3. RowOK(Closed(request[c].row, raises))
    BY <2>1, <2>2, ClosedIsConsistent
  <2>4. /\ poll' = Closed(request[c].row, raises)
        /\ request' = [request EXCEPT ![c] = Idle]
    BY <1>12 DEF ClosePoll
  <2> QED
    BY <2>3, <2>4, FinishedKeeps
<1>13. ASSUME NEW c \in Requests, NEW event \in RowEvents, SavePoll(c, event)
       PROVE  RowInv'
  <2>1. RowOK(request[c].row) /\ request[c].row.state \in Sources[event]
    BY <1>13, SourceNames DEF SavePoll, RowInv, RequestOK, RowEvents
  <2>2. RowOK(RowAfter(event, request[c].row))
    BY <2>1, RowAfterIsConsistent
  <2>3. /\ poll' = RowAfter(event, request[c].row)
        /\ request' = [request EXCEPT ![c] = Idle]
    BY <1>13 DEF SavePoll
  <2> QED
    BY <2>2, <2>3, FinishedKeeps
<1> QED
  <2>1. CASE \E c \in Requests :
                \/ ReadForNewRegister(c)
                \/ \E new \in Registers : ApplyNewRegister(c, new)
                \/ \E u \in Users, v \in VoteData \cup {Abstain} :
                      ValidateVote(c, u, v)
                \/ StoreVote(c)
                \/ \E event \in DOMAIN Sources : ReadPoll(c, event)
                \/ StartPoll(c)
                \/ \E raises \in BOOLEAN : ClosePoll(c, raises)
                \/ \E event \in RowEvents : SavePoll(c, event)
                \/ Rollback(c)
    BY <2>1, <1>6, <1>7, <1>8, <1>9, <1>10, <1>11, <1>12, <1>13, Zenon
  <2> QED
    BY <1>2, <1>3, <1>4, <1>5, <2>1 DEF Step

\* However many requests overlap, and whichever copy is saved last, the row of
\* the poll holds a ballot and a result exactly when it says it was counted, and
\* get_result shows the result of a finished poll and of no other, a withheld one
\* included.
THEOREM PollRowsAreSound == Spec => []PollRowIsSound
<1>1. RowInv => CountedExactlyWhenFinished
    BY DEF RowInv, RowOK, CountedRow, CountedExactlyWhenFinished
<1>2. RowInv => ResultShownOnlyWhenFinished
    BY DEF RowInv, RowOK, ShownRow, ResultShownOnlyWhenFinished
<1>3. RowInv => PollRowIsSound
    BY <1>1, <1>2 DEF PollRowIsSound
<1> QED
    BY <1>3, InitRowInv, NextRowInv, PTL DEF Spec

-----------------------------------------------------------------------------
(* As long as no two requests overlap the copy a request has read is the    *)
(* row itself.                                                             *)

\* What the request in flight has read is still so.
Fresh(q) ==
    /\ q.kind \in DOMAIN Sources \cup {"roles"} => q.row = poll
    /\ q.kind = "vote" => poll.state = "ongoing"

\* RecountAgrees, whatever overlapped.
Recounted ==
    poll.state \in CountedStates =>
        /\ poll.ballot = Ballot(votes, poll.er)
        /\ poll.abstains = WeightOf(votes, poll.er, Abstain)

\* The inductive invariant of the runs without overlap.
SoloInv ==
    ~overlapped =>
        /\ ~TwoInFlight
        /\ \A c \in Requests : Fresh(request[c])
        /\ Recounted

\* Nothing is stale in a request that is done.
LEMMA IdleFresh == Fresh(Idle)
BY SourceNames DEF Fresh, Idle

\* When the only request in flight ends, none is left to be stale.
LEMMA SoloFinish ==
    ASSUME RowInv, SoloInv, ~overlapped, NEW c \in Requests, request[c] # Idle,
           request' = [request EXCEPT ![c] = Idle], ~TwoInFlight', Recounted'
    PROVE  SoloInv'
<1>1. \A d \in Requests : request'[d] = Idle
    BY DEF SoloInv, TwoInFlight, RowInv
<1>2. Fresh(Idle)'
    BY SourceNames DEF Fresh, Idle
<1>3. \A d \in Requests : Fresh(request[d])'
    BY <1>1, <1>2 DEF Fresh
<1> QED
    BY <1>3 DEF SoloInv

\* A request that reads the poll while no other is in flight has a fresh copy.
LEMMA SoloRead ==
    ASSUME RowInv, SoloInv, ~overlapped, NEW c \in Requests, NEW q, Fresh(q),
           request' = [request EXCEPT ![c] = q], ~TwoInFlight',
           poll' = poll, votes' = votes
    PROVE  SoloInv'
<1>1. \A d \in Requests : request'[d] = IF d = c THEN q ELSE request[d]
    BY DEF RowInv
<1>2. \A d \in Requests : Fresh(request'[d])
    BY <1>1 DEF SoloInv
<1>3. \A d \in Requests : Fresh(request[d])'
    BY <1>2 DEF Fresh
<1>4. Recounted'
    BY DEF SoloInv, Recounted
<1> QED
    BY <1>3, <1>4 DEF SoloInv

\* A fresh close counts the votes it leaves.
LEMMA CloseRecounts ==
    ASSUME RowInv, NEW c \in Requests, NEW raises \in BOOLEAN,
           request[c].row = poll, ClosePoll(c, raises)
    PROVE  Recounted'
<1> DEFINE cast == CleanedVotes(poll)
           valid == \E u \in Users : cast[u] \in VoteData
           populated == poll.er # NoRegister /\ DOMAIN poll.er # {}
           counted == IF valid THEN Calculated(poll, raises) ELSE poll
<1>1. poll.state \in Sources["close"] /\ RowOK(poll)
    BY SourceNames DEF ClosePoll, RowInv, RequestOK
<1>2. /\ ~poll.result /\ poll.ballot = NoBallot
      /\ IsRow(poll)
    BY <1>1 DEF Sources, RowOK, CountedRow, CountedStates
<1>3. poll' = Closed(poll, raises) /\ votes' = cast
    BY DEF ClosePoll
<1>4. CASE populated /\ valid /\ counted.result
  <2>1. /\ counted.ballot = Ballot(cast, poll.er)
        /\ counted.abstains = WeightOf(cast, poll.er, Abstain)
        /\ counted.er = poll.er
    BY <1>2, <1>4 DEF Calculated, IsRow
  <2>2. Calculated(poll, raises) =
            [poll EXCEPT !.ballot = Ballot(cast, poll.er),
                         !.abstains = WeightOf(cast, poll.er, Abstain),
                         !.result = ~raises]
    BY <1>2, <1>4 DEF Calculated
  <2>3. poll' = [counted EXCEPT !.state = IF poll.withheld_result THEN "withheld"
                                          ELSE "finished"]
    BY <1>3, <1>4 DEF Closed
  <2>4. counted = [state |-> poll.state, er |-> poll.er,
                   ballot |-> Ballot(cast, poll.er),
                   abstains |-> WeightOf(cast, poll.er, Abstain),
                   result |-> ~raises, withheld_result |-> poll.withheld_result]
    BY <1>2, <1>4, <2>2 DEF IsRow
  <2> HIDE DEF counted, cast, valid
  <2>5. /\ poll'.ballot = Ballot(cast, poll.er)
        /\ poll'.abstains = WeightOf(cast, poll.er, Abstain)
        /\ poll'.er = poll.er
    BY <2>3, <2>4
  <2>6. Ballot(votes, poll.er)' = Ballot(cast, poll.er)
    BY <1>3, <2>5
  <2>7. WeightOf(votes, poll.er, Abstain)' = WeightOf(cast, poll.er, Abstain)
    BY <1>3, <2>5
  <2> QED
    BY <2>5, <2>6, <2>7 DEF Recounted
<1>5. CASE ~(populated /\ valid /\ counted.result)
  <2>1. counted = [state |-> counted.state, er |-> counted.er,
                   ballot |-> counted.ballot, abstains |-> counted.abstains,
                   result |-> counted.result,
                   withheld_result |-> counted.withheld_result]
    BY <1>2 DEF Calculated, IsRow
  <2>2. \/ Closed(poll, raises) = [counted EXCEPT !.state = "no_result"]
        \/ Closed(poll, raises) = [counted EXCEPT !.state = "failed", !.ballot = NoBallot,
                                                  !.abstains = 0]
    BY <1>5 DEF Closed
  <2> HIDE DEF counted
  <2>3. poll'.state \in {"no_result", "failed"}
    BY <1>3, <2>1, <2>2
  <2> QED
    BY <2>3 DEF Recounted, CountedStates
<1> QED
    BY <1>4, <1>5

\* A fresh event that only touches the row keeps the count.
LEMMA RowAfterRecounts ==
    ASSUME RowInv, NEW c \in Requests, NEW event \in RowEvents, Recounted,
           request[c].row = poll, SavePoll(c, event)
    PROVE  Recounted'
<1>1. poll.state \in Sources[event] /\ IsRow(poll)
    BY SourceNames DEF SavePoll, RowInv, RequestOK, RowOK, RowEvents
<1>2. poll' = RowAfter(event, poll) /\ votes' = votes
    BY DEF SavePoll
<1>3. \/ poll'.state \notin CountedStates
      \/ /\ poll.state \in CountedStates
         /\ poll'.ballot = poll.ballot /\ poll'.abstains = poll.abstains
         /\ poll'.er = poll.er
    BY <1>1, <1>2 DEF RowAfter, IsRow, Sources, CountedStates, RowEvents
<1> QED
    BY <1>2, <1>3 DEF Recounted

\* A new poll has nothing in flight.
LEMMA InitSoloInv == Init => SoloInv
<1> SUFFICES ASSUME Init PROVE SoloInv
    OBVIOUS
<1>1. \A c \in Requests : request[c] = Idle
    BY DEF Init
<1>2. \A c \in Requests : Fresh(request[c])
    BY <1>1, IdleFresh
<1>3. Recounted
    BY DEF Init, Recounted, CountedStates
<1> QED
    BY <1>1, <1>2, <1>3 DEF SoloInv, TwoInFlight

\* Every step keeps what a run without overlap has.
LEMMA NextSoloInv == RowInv /\ SoloInv /\ [Next]_vars => SoloInv'
<1> SUFFICES ASSUME RowInv, SoloInv, [Next]_vars PROVE SoloInv'
    OBVIOUS
<1>1. CASE UNCHANGED vars
    BY <1>1 DEF vars, tables, SoloInv, TwoInFlight, Fresh, Recounted
<1>2. CASE overlapped'
    BY <1>2 DEF SoloInv
<1>3. CASE Next /\ ~overlapped'
  <2>1. Step /\ ~overlapped /\ ~TwoInFlight'
    BY <1>3 DEF Next
  <2>2. /\ \A c \in Requests : Fresh(request[c])
        /\ Recounted
    BY <2>1 DEF SoloInv
  <2>3. ASSUME poll' = poll, votes' = votes, request' = request PROVE SoloInv'
    BY <2>1, <2>2, <2>3 DEF SoloInv, Fresh, Recounted
  <2>4. CASE TriggerRegister
    BY <2>3, <2>4 DEF TriggerRegister
  <2>5. CASE \E name \in Policies, meetingOngoing \in BOOLEAN :
                ChangePolicy(name, meetingOngoing)
    BY <2>3, <2>5 DEF ChangePolicy
  <2>6. CASE \E new \in Registers : ChangeVoters(new)
    BY <2>3, <2>6 DEF ChangeVoters
  <2>7. ASSUME NEW c \in Requests, ReadForNewRegister(c) PROVE SoloInv'
    <3>1. Fresh([kind |-> "roles", row |-> poll])
      BY SourceNames DEF Fresh
    <3> QED
      BY <2>1, <2>7, <3>1, SoloRead DEF ReadForNewRegister
  <2>8. ASSUME NEW c \in Requests, NEW new \in Registers, ApplyNewRegister(c, new)
        PROVE  SoloInv'
    <3>1. request[c].row = poll /\ request[c] # Idle /\ RowOK(poll)
      BY <2>2, <2>8 DEF ApplyNewRegister, Fresh, Idle, RowInv
    <3>2. \/ poll' = poll
          \/ poll'.state = "ongoing"
      BY <2>8, <3>1 DEF ApplyNewRegister, RowOK, IsRow
    <3>3. Recounted'
      BY <2>2, <2>8, <3>2 DEF ApplyNewRegister, Recounted, CountedStates
    <3> QED
      BY <2>1, <2>8, <3>1, <3>3, SoloFinish DEF ApplyNewRegister
  <2>9. ASSUME NEW c \in Requests, NEW u \in Users,
               NEW v \in VoteData \cup {Abstain}, ValidateVote(c, u, v)
        PROVE  SoloInv'
    <3>1. Fresh([kind |-> "vote", user |-> u, vote |-> v])
      BY <2>9, SourceNames DEF Fresh, ValidateVote, MayVote
    <3> QED
      BY <2>1, <2>9, <3>1, SoloRead DEF ValidateVote
  <2>10. ASSUME NEW c \in Requests, StoreVote(c) PROVE SoloInv'
    <3>1. request[c] # Idle /\ poll.state = "ongoing"
      BY <2>2, <2>10 DEF StoreVote, Fresh, Idle
    <3>2. Recounted'
      BY <2>10, <3>1 DEF StoreVote, Recounted, CountedStates
    <3> QED
      BY <2>1, <2>10, <3>1, <3>2, SoloFinish DEF StoreVote
  <2>11. ASSUME NEW c \in Requests, Rollback(c) PROVE SoloInv'
    <3>1. Recounted'
      BY <2>2, <2>11 DEF Rollback, Recounted
    <3> QED
      BY <2>1, <2>11, <3>1, SoloFinish DEF Rollback
  <2>12. ASSUME NEW c \in Requests, NEW event \in DOMAIN Sources,
                ReadPoll(c, event)
         PROVE  SoloInv'
    <3>1. Fresh([kind |-> event, row |-> poll])
      BY SourceNames DEF Fresh
    <3> QED
      BY <2>1, <2>12, <3>1, SoloRead DEF ReadPoll
  <2>13. ASSUME NEW c \in Requests, StartPoll(c) PROVE SoloInv'
    <3>1. request[c].row = poll /\ request[c] # Idle /\ RowOK(poll)
      BY <2>2, <2>13, SourceNames DEF StartPoll, Fresh, Idle, RowInv
    <3>2. poll'.state = "ongoing"
      BY <2>13, <3>1 DEF StartPoll, RowOK, IsRow
    <3>3. Recounted'
      BY <3>2 DEF Recounted, CountedStates
    <3> QED
      BY <2>1, <2>13, <3>1, <3>3, SoloFinish DEF StartPoll
  <2>14. ASSUME NEW c \in Requests, NEW raises \in BOOLEAN, ClosePoll(c, raises)
         PROVE  SoloInv'
    <3>1. request[c].row = poll /\ request[c] # Idle
      BY <2>2, <2>14, SourceNames DEF ClosePoll, Fresh, Idle
    <3>2. Recounted'
      BY <2>14, <3>1, CloseRecounts
    <3> QED
      BY <2>1, <2>14, <3>1, <3>2, SoloFinish DEF ClosePoll
  <2>15. ASSUME NEW c \in Requests, NEW event \in RowEvents, SavePoll(c, event)
         PROVE  SoloInv'
    <3>1. request[c].row = poll /\ request[c] # Idle
      BY <2>2, <2>15, SourceNames DEF SavePoll, Fresh, Idle, RowEvents
    <3>2. Recounted'
      BY <2>2, <2>15, <3>1, RowAfterRecounts
    <3> QED
      BY <2>1, <2>15, <3>1, <3>2, SoloFinish DEF SavePoll
  <2>16. CASE \E c \in Requests :
                \/ ReadForNewRegister(c)
                \/ \E new \in Registers : ApplyNewRegister(c, new)
                \/ \E u \in Users, v \in VoteData \cup {Abstain} :
                      ValidateVote(c, u, v)
                \/ StoreVote(c)
                \/ \E event \in DOMAIN Sources : ReadPoll(c, event)
                \/ StartPoll(c)
                \/ \E raises \in BOOLEAN : ClosePoll(c, raises)
                \/ \E event \in RowEvents : SavePoll(c, event)
                \/ Rollback(c)
    BY <2>16, <2>7, <2>8, <2>9, <2>10, <2>11, <2>12, <2>13, <2>14, <2>15, Zenon
  <2> QED
    BY <2>1, <2>4, <2>5, <2>6, <2>16 DEF Step
<1> QED
    BY <1>1, <1>2, <1>3

\* As long as requests do not overlap, counting the stored votes of a counted
\* poll again gives its ballot, for any register, weights and votes.
THEOREM RecountOfSoloRuns == Spec => []RecountAgrees
<1>1. SoloInv => RecountAgrees
    BY DEF SoloInv, Recounted, RecountAgrees
<1> QED
    BY <1>1, InitRowInv, NextRowInv, InitSoloInv, NextSoloInv, PTL DEF Spec

-----------------------------------------------------------------------------
\* Only the store of a validated vote changes a vote otherwise than by removing
\* it.
LEMMA StoredBy ==
    ASSUME [Next]_vars, NEW u \in Users, VotesStored(u)
    PROVE  \E c \in Requests : StoreVote(c)
<1>1. ASSUME votes' = votes PROVE FALSE
    BY <1>1 DEF VotesStored
<1>2. ASSUME NEW c \in Requests, NEW raises \in BOOLEAN, ClosePoll(c, raises)
      PROVE  FALSE
    BY <1>2 DEF ClosePoll, CleanedVotes, VotesStored
<1>3. CASE UNCHANGED vars
    BY <1>1, <1>3 DEF vars, tables
<1>4. CASE Step
  <2>1. CASE TriggerRegister
    BY <1>1, <2>1 DEF TriggerRegister
  <2>2. CASE \E name \in Policies, meetingOngoing \in BOOLEAN :
                ChangePolicy(name, meetingOngoing)
    BY <1>1, <2>2 DEF ChangePolicy
  <2>3. CASE \E new \in Registers : ChangeVoters(new)
    BY <1>1, <2>3 DEF ChangeVoters
  <2>4. ASSUME NEW c \in Requests,
               \/ ReadForNewRegister(c)
               \/ \E new \in Registers : ApplyNewRegister(c, new)
               \/ \E w \in Users, v \in VoteData \cup {Abstain} : ValidateVote(c, w, v)
               \/ \E event \in DOMAIN Sources : ReadPoll(c, event)
               \/ StartPoll(c)
               \/ \E event \in RowEvents : SavePoll(c, event)
               \/ Rollback(c)
        PROVE  FALSE
    BY <1>1, <2>4
    DEF ReadForNewRegister, ApplyNewRegister, ValidateVote, ReadPoll, StartPoll,
        SavePoll, Rollback
  <2> QED
    BY <1>2, <1>4, <2>1, <2>2, <2>3, <2>4, Zenon DEF Step
<1> QED
    BY <1>3, <1>4 DEF Next

\* As long as requests do not overlap, a vote is stored or changed only while
\* the poll is ongoing.
THEOREM SoloVotesInTime == Spec => VotesOnlyWhileOngoing
<1>1. RowInv /\ SoloInv /\ [Next]_vars =>
          [~overlapped /\ (\E u \in Users : VotesStored(u)) =>
              poll.state = "ongoing"]_vars
  <2> SUFFICES ASSUME SoloInv, [Next]_vars, ~overlapped,
                      NEW u \in Users, VotesStored(u)
               PROVE  poll.state = "ongoing"
    OBVIOUS
  <2>1. PICK c \in Requests : StoreVote(c)
    BY StoredBy
  <2> QED
    BY <2>1 DEF StoreVote, SoloInv, Fresh
<1> QED
    BY <1>1, InitRowInv, NextRowInv, InitSoloInv, NextSoloInv, PTL
    DEF Spec, VotesOnlyWhileOngoing

\* A step that leaves the row's state and ballot alone is a stutter of the life
\* cycle.
LEMMA LifeStutters ==
    ASSUME poll'.state = poll.state, poll'.ballot = poll.ballot
    PROVE  [Life!LifeNext]_Life!lifeVars
BY DEF Life!lifeVars

\* A fresh close is the end of the life cycle.
LEMMA CloseEnds ==
    ASSUME RowInv, NEW c \in Requests, NEW raises \in BOOLEAN,
           request[c].row = poll, ClosePoll(c, raises)
    PROVE  Life!LifeNext
<1>1. poll.state \in {"ongoing", "failed", "canceled"} /\ RowOK(poll)
    BY SourceNames DEF ClosePoll, RowInv, RequestOK, Sources
<1>2. poll.ballot = NoBallot
    BY <1>1 DEF RowOK, CountedRow, CountedStates
<1>3. poll' = Closed(poll, raises)
    BY DEF ClosePoll
<1>4. RowOK(poll)'
    BY <1>1, <1>3, ClosedIsConsistent DEF RowOK, IsRow, CountedRow, ShownRow
<1>5. poll'.state \in {"finished", "withheld", "no_result", "failed"}
  <2> DEFINE valid == \E u \in Users : CleanedVotes(poll)[u] \in VoteData
             counted == IF valid THEN Calculated(poll, raises) ELSE poll
  <2>1. counted = [state |-> counted.state, er |-> counted.er,
                   ballot |-> counted.ballot, abstains |-> counted.abstains,
                   result |-> counted.result,
                   withheld_result |-> counted.withheld_result]
    BY <1>1 DEF Calculated, RowOK, IsRow
  <2>2. \/ Closed(poll, raises) = [counted EXCEPT !.state = "withheld"]
        \/ Closed(poll, raises) = [counted EXCEPT !.state = "finished"]
        \/ Closed(poll, raises) = [counted EXCEPT !.state = "no_result"]
        \/ Closed(poll, raises) = [counted EXCEPT !.state = "failed", !.ballot = NoBallot,
                                                  !.abstains = 0]
    BY DEF Closed
  <2> HIDE DEF counted
  <2> QED
    BY <1>3, <2>1, <2>2
<1>6. poll'.state \notin CountedStates => poll'.ballot = NoBallot
    BY <1>4 DEF RowOK, CountedRow
<1> QED
    BY <1>1, <1>2, <1>5, <1>6
    DEF Life!LifeNext, Life!End, Life!Decided, CountedStates

\* A fresh event on the row is a step of the life cycle.
LEMMA RowAfterLives ==
    ASSUME RowInv, NEW c \in Requests, NEW event \in RowEvents,
           request[c].row = poll, SavePoll(c, event)
    PROVE  [Life!LifeNext]_Life!lifeVars
<1>1. poll.state \in Sources[event] /\ IsRow(poll)
    BY SourceNames DEF SavePoll, RowInv, RequestOK, RowOK, RowEvents
<1>2. poll' = RowAfter(event, poll)
    BY DEF SavePoll
<1>3. CASE event = "update"
    BY <1>2, <1>3, LifeStutters DEF RowAfter
<1>4. CASE event \in {"make_upcoming", "unpublish"}
    BY <1>1, <1>2, <1>4
    DEF RowAfter, IsRow, Sources, Life!LifeNext, Life!Prepare, Life!Prepared
<1>5. CASE event = "cancel"
    BY <1>1, <1>2, <1>5
    DEF RowAfter, IsRow, Sources, Life!LifeNext, Life!Interrupt
<1>6. CASE event \in {"publish_result", "withhold_result"}
    BY <1>1, <1>2, <1>6
    DEF RowAfter, IsRow, Sources, Life!LifeNext, Life!HideOrShow, Life!Decided
<1> QED
    BY <1>3, <1>4, <1>5, <1>6 DEF RowEvents

\* As long as requests do not overlap, the row of the poll implements
\* PollLifecycle, with the ballot as its outcome.
THEOREM ImplementsLifecycle == Spec => KeepsLifecycle
<1>1. Init => Life!LifeInit
    BY DEF Init, Life!LifeInit
<1>2. RowInv /\ SoloInv /\ [Next]_vars => [overlapped \/ Life!LifeNext]_Life!lifeVars
  <2> SUFFICES ASSUME RowInv, SoloInv, [Next]_vars, ~overlapped
               PROVE  [Life!LifeNext]_Life!lifeVars
    OBVIOUS
  <2>1. \A c \in Requests : Fresh(request[c])
    BY DEF SoloInv
  <2>2. ASSUME poll' = poll PROVE [Life!LifeNext]_Life!lifeVars
    BY <2>2, LifeStutters
  <2>3. CASE UNCHANGED vars
    BY <2>2, <2>3 DEF vars, tables
  <2>4. CASE TriggerRegister
    BY <2>2, <2>4 DEF TriggerRegister
  <2>5. CASE \E name \in Policies, meetingOngoing \in BOOLEAN :
                ChangePolicy(name, meetingOngoing)
    BY <2>2, <2>5 DEF ChangePolicy
  <2>6. CASE \E new \in Registers : ChangeVoters(new)
    BY <2>2, <2>6 DEF ChangeVoters
  <2>7. ASSUME NEW c \in Requests,
               \/ ReadForNewRegister(c)
               \/ \E w \in Users, v \in VoteData \cup {Abstain} : ValidateVote(c, w, v)
               \/ StoreVote(c)
               \/ \E event \in DOMAIN Sources : ReadPoll(c, event)
               \/ Rollback(c)
        PROVE  [Life!LifeNext]_Life!lifeVars
    <3>1. poll' = poll
      BY <2>7 DEF ReadForNewRegister, ValidateVote, StoreVote, ReadPoll, Rollback
    <3> QED
      BY <2>2, <3>1
  <2>8. ASSUME NEW c \in Requests, NEW new \in Registers, ApplyNewRegister(c, new)
        PROVE  [Life!LifeNext]_Life!lifeVars
    <3>1. request[c].row = poll /\ IsRow(poll)
      BY <2>1, <2>8 DEF ApplyNewRegister, Fresh, RowInv, RowOK
    <3>2. poll'.state = poll.state /\ poll'.ballot = poll.ballot
      BY <2>8, <3>1 DEF ApplyNewRegister, IsRow
    <3> QED
      BY <3>2, LifeStutters
  <2>9. ASSUME NEW c \in Requests, StartPoll(c) PROVE [Life!LifeNext]_Life!lifeVars
    <3>1. /\ request[c].row = poll /\ IsRow(poll)
          /\ poll.state \in {"private", "upcoming"}
      BY <2>1, <2>9, SourceNames
      DEF StartPoll, Fresh, RowInv, RequestOK, RowOK, Sources
    <3>2. poll'.state = "ongoing" /\ poll'.ballot = poll.ballot
      BY <2>9, <3>1 DEF StartPoll, IsRow
    <3> QED
      BY <3>1, <3>2 DEF Life!LifeNext, Life!Open, Life!Prepared
  <2>10. ASSUME NEW c \in Requests, NEW raises \in BOOLEAN, ClosePoll(c, raises)
         PROVE  [Life!LifeNext]_Life!lifeVars
    <3>1. request[c].row = poll
      BY <2>1, <2>10, SourceNames DEF ClosePoll, Fresh
    <3> QED
      BY <2>10, <3>1, CloseEnds
  <2>11. ASSUME NEW c \in Requests, NEW event \in RowEvents, SavePoll(c, event)
         PROVE  [Life!LifeNext]_Life!lifeVars
    <3>1. request[c].row = poll
      BY <2>1, <2>11, SourceNames DEF SavePoll, Fresh, RowEvents
    <3> QED
      BY <2>11, <3>1, RowAfterLives
  <2>12. CASE \E c \in Requests :
                \/ ReadForNewRegister(c)
                \/ \E new \in Registers : ApplyNewRegister(c, new)
                \/ \E u \in Users, v \in VoteData \cup {Abstain} :
                      ValidateVote(c, u, v)
                \/ StoreVote(c)
                \/ \E event \in DOMAIN Sources : ReadPoll(c, event)
                \/ StartPoll(c)
                \/ \E raises \in BOOLEAN : ClosePoll(c, raises)
                \/ \E event \in RowEvents : SavePoll(c, event)
                \/ Rollback(c)
    BY <2>7, <2>8, <2>9, <2>10, <2>11, <2>12, Zenon
  <2> QED
    BY <2>3, <2>4, <2>5, <2>6, <2>12 DEF Next, Step
<1> QED
    BY <1>1, <1>2, InitRowInv, NextRowInv, InitSoloInv, NextSoloInv, PTL
    DEF Spec, KeepsLifecycle
=============================================================================
