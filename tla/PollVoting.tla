---------------------------- MODULE PollVoting ----------------------------
(***************************************************************************)
(* One poll: its row, the votes cast in it, the electoral register that    *)
(* says who may vote with what weight, and the count when it closes.       *)
(*                                                                         *)
(* The database runs at READ COMMITTED and no request locks the poll.  A   *)
(* request therefore has two steps: it reads the poll's row, and later     *)
(* commits what it decided from that copy.  Requests of other workers may  *)
(* commit in between, and model.save() writes every column of the copy     *)
(* back.  With one request in flight at a time this is the sequential      *)
(* program.                                                                *)
(*                                                                         *)
(* That the agenda item and the meeting are ongoing, which make_ongoing    *)
(* also asks for, is the subject of module MeetingWorkflow.                *)
(***************************************************************************)
EXTENDS Naturals, FiniteSets, FiniteSetsExt

CONSTANTS
    Users,        \* the users of the meeting
    VoteData,     \* the serialised votes the poll's method accepts
    Registers,    \* what ElectoralRegisterPolicy.get_voters may return: each a
                  \* function from the voters to their weights
    Requests,     \* the requests the workers can serve at the same time
    NoRegister,   \* electoral_register = None
    NoVote,       \* the user has no row in Vote
    Abstain       \* a Vote row with abstain = True

VARIABLES
    poll,       \* the columns of the poll's row
    votes,      \* the Vote row of each user
    policy,     \* Meeting.er_policy_name: auto_always or auto_before_poll
    voters,     \* what get_voters returns now
    latestER,   \* Meeting.latest_er
    request,    \* what each request in flight has read
    overlapped  \* whether two requests were ever in flight at once

tables == <<poll, votes, policy, voters, latestER, request>>
vars == <<tables, overlapped>>

ASSUME VotingAssumption ==
    /\ \A r \in Registers : DOMAIN r \subseteq Users
    /\ \A r \in Registers : \A u \in DOMAIN r : r[u] \in Nat
    /\ NoRegister \notin Registers
    /\ {NoVote, Abstain} \cap VoteData = {}
    /\ NoVote # Abstain
    /\ VoteData # {}

PollStates == {"private", "upcoming", "ongoing", "finished", "withheld",
               "canceled", "failed", "no_result"}
CountedStates == {"finished", "withheld"}

\* The states each event of PollStateMachine starts from.  "update" is the
\* PATCH of title or body, allowed while is_poll_in_permissive_state.
Sources ==
    [make_upcoming   |-> {"private"},
     make_ongoing    |-> {"private", "upcoming"},
     unpublish       |-> {"upcoming"},
     cancel          |-> {"ongoing"},
     close           |-> {"ongoing", "failed", "canceled"},
     publish_result  |-> {"withheld"},
     withhold_result |-> {"finished"},
     update          |-> {"private", "upcoming"}]

Policies == {"auto_always", "auto_before_poll"}

\* ballot_data = None
NoBallot == <<>>

Idle == [kind |-> "idle"]

Rows == [state : PollStates, er : Registers \cup {NoRegister},
         ballot : [VoteData -> Nat] \cup {NoBallot}, abstains : Nat,
         result : BOOLEAN, withheld_result : BOOLEAN]

TypeOK ==
    /\ poll \in Rows
    /\ votes \in [Users -> VoteData \cup {NoVote, Abstain}]
    /\ policy \in Policies
    /\ voters \in Registers
    /\ latestER \in Registers \cup {NoRegister}
    /\ request \in [Requests ->
          {Idle}
          \cup [kind : {"vote"}, user : Users, vote : VoteData \cup {Abstain}]
          \cup [kind : DOMAIN Sources \cup {"roles"}, row : Rows]]
    /\ overlapped \in BOOLEAN

\* A poll as PollCreateSerializer leaves it, in a meeting without a register.
Init ==
    /\ poll \in [state : {"private"}, er : {NoRegister}, ballot : {NoBallot},
                 abstains : {0}, result : {FALSE}, withheld_result : BOOLEAN]
    /\ votes = [u \in Users |-> NoVote]
    /\ policy \in Policies
    /\ voters \in Registers
    /\ latestER = NoRegister
    /\ request = [c \in Requests |-> Idle]
    /\ overlapped = FALSE

-----------------------------------------------------------------------------
(* Electoral registers.                                                    *)

\* ElectoralRegisterPolicy.new_er_needed in an ongoing meeting.
NewRegisterNeeded(name, new) ==
    IF latestER = NoRegister
    THEN name = "auto_always" \/ DOMAIN new # {}
    ELSE new # latestER

\* Meeting.latest_er after create_er.
RegisterAfterCreate(name, new) ==
    IF NewRegisterNeeded(name, new) THEN new ELSE latestER

\* PATCH of the meeting's er_policy_name, refused while a poll is ongoing.
\* auto_always creates a register at once, if the meeting is ongoing.
ChangePolicy(name, meetingOngoing) ==
    /\ name # policy
    /\ poll.state # "ongoing"
    /\ policy' = name
    /\ latestER' = IF name = "auto_always" /\ meetingOngoing
                   THEN RegisterAfterCreate(name, voters) ELSE latestER
    /\ UNCHANGED <<poll, votes, voters, request>>

\* trigger_create, for the policies that allow it.
TriggerRegister ==
    /\ policy = "auto_before_poll"
    /\ NewRegisterNeeded(policy, voters)
    /\ latestER' = voters
    /\ UNCHANGED <<poll, votes, policy, voters, request>>

\* The role potential_voter is given or taken, and no register is made of it:
\* under auto_before_poll, or because new_er_needed sees a meeting that is not
\* ongoing.
ChangeVoters(new) ==
    /\ new # voters
    /\ voters' = new
    /\ UNCHANGED <<poll, votes, policy, latestER, request>>

\* Under auto_always the request that changes the role goes on to read the
\* poll, which it will give the new register.
ReadForNewRegister(c) ==
    /\ policy = "auto_always"
    /\ request[c] = Idle
    /\ request' = [request EXCEPT ![c] = [kind |-> "roles", row |-> poll]]
    /\ UNCHANGED <<poll, votes, policy, voters, latestER>>

\* auto_always._maybe_create_and_update: ElectoralRegisterPolicy.apply saves
\* the row it has read if the poll was ongoing in it.
ApplyNewRegister(c, new) ==
    LET row == request[c].row IN
    /\ request[c].kind = "roles"
    /\ new # voters
    /\ voters' = new
    /\ latestER' = RegisterAfterCreate("auto_always", new)
    /\ poll' = IF latestER' # latestER /\ row.state = "ongoing"
               THEN [row EXCEPT !.er = latestER']
               ELSE poll
    /\ request' = [request EXCEPT ![c] = Idle]
    /\ UNCHANGED <<votes, policy>>

-----------------------------------------------------------------------------
(* Votes.                                                                  *)

\* Mutant: PERM.ADD without is_poll_ongoing.
MayVoteAnytime(u) ==
    /\ poll.er # NoRegister
    /\ u \in DOMAIN poll.er

\* VoteAddSerializer.validate_poll: is_poll_ongoing and is_voter.
MayVote(u) ==
    /\ poll.state = "ongoing"
    /\ poll.er # NoRegister
    /\ u \in DOMAIN poll.er

ValidateVote(c, u, v) ==
    /\ request[c] = Idle
    /\ MayVote(u)
    /\ request' = [request EXCEPT ![c] = [kind |-> "vote", user |-> u, vote |-> v]]
    /\ UNCHANGED <<poll, votes, policy, voters, latestER>>

\* VoteAddSerializer.create.  Vote.save asks once more whether the user is in
\* the register, of the copy of the poll that validate_poll has read.
StoreVote(c) ==
    /\ request[c].kind = "vote"
    /\ votes' = [votes EXCEPT ![request[c].user] = request[c].vote]
    /\ request' = [request EXCEPT ![c] = Idle]
    /\ UNCHANGED <<poll, policy, voters, latestER>>

-----------------------------------------------------------------------------
(* The count.                                                              *)

\* weights.get(v.user_id, 1)
Weight(er, u) == IF u \in DOMAIN er THEN er[u] ELSE 1

WeightOf(cast, er, v) ==
    MapThenSumSet(LAMBDA u : Weight(er, u), {u \in Users : cast[u] = v})

\* Poll.finalize_vote_data
Ballot(cast, er) == [v \in VoteData |-> WeightOf(cast, er, v)]

\* Poll.cleanup_removed_from_er_votes
CleanedVotes(row) ==
    IF row.er = NoRegister THEN votes
    ELSE [u \in Users |-> IF u \in DOMAIN row.er THEN votes[u] ELSE NoVote]

\* Poll.calculate_result; it may raise in the poll method.
Calculated(row, raises) ==
    LET cast == CleanedVotes(row) IN
    IF row.result \/ row.ballot # NoBallot \/ row.er = NoRegister THEN row
    ELSE [row EXCEPT !.ballot = Ballot(cast, row.er),
                     !.abstains = WeightOf(cast, row.er, Abstain),
                     !.result = ~raises]

\* Mutant: on_enter_failed does not clear the partial ballot.
ClosedKeepingPartial(row, raises) ==
    LET valid == \E u \in Users : CleanedVotes(row)[u] \in VoteData
        populated == row.er # NoRegister /\ DOMAIN row.er # {}
        counted == IF valid THEN Calculated(row, raises) ELSE row
    IN CASE populated /\ valid /\ counted.result ->
                [counted EXCEPT !.state = IF row.withheld_result THEN "withheld"
                                          ELSE "finished"]
         [] ~valid \/ ~populated -> [counted EXCEPT !.state = "no_result"]
         [] OTHER -> [counted EXCEPT !.state = "failed"]

\* on_close, the automatic transition out of closed, and on_enter_failed.
Closed(row, raises) ==
    LET valid == \E u \in Users : CleanedVotes(row)[u] \in VoteData
        populated == row.er # NoRegister /\ DOMAIN row.er # {}
        counted == IF valid THEN Calculated(row, raises) ELSE row
    IN CASE populated /\ valid /\ counted.result ->
                [counted EXCEPT !.state = IF row.withheld_result THEN "withheld"
                                          ELSE "finished"]
         [] ~valid \/ ~populated -> [counted EXCEPT !.state = "no_result"]
         [] OTHER -> [counted EXCEPT !.state = "failed", !.ballot = NoBallot,
                                     !.abstains = 0]

-----------------------------------------------------------------------------
(* Events sent to the poll's state machine, and updates of the poll.       *)

\* get_object, and the check that the event is allowed in the state it shows.
ReadPoll(c, event) ==
    /\ request[c] = Idle
    /\ poll.state \in Sources[event]
    /\ request' = [request EXCEPT ![c] = [kind |-> event, row |-> poll]]
    /\ UNCHANGED <<poll, votes, policy, voters, latestER>>

\* ElectoralRegisterPolicy.apply when the poll starts; the pre_apply of
\* auto_before_poll creates the register first.
StartPoll(c) ==
    LET row == request[c].row IN
    /\ request[c].kind = "make_ongoing"
    /\ latestER' = IF policy = "auto_before_poll"
                   THEN RegisterAfterCreate(policy, voters) ELSE latestER
    /\ poll' = [row EXCEPT !.state = "ongoing",
                           !.er = IF latestER' = NoRegister THEN row.er
                                  ELSE latestER']
    /\ request' = [request EXCEPT ![c] = Idle]
    /\ UNCHANGED <<votes, policy, voters>>

ClosePoll(c, raises) ==
    LET row == request[c].row IN
    /\ request[c].kind = "close"
    /\ votes' = CleanedVotes(row)
    /\ poll' = Closed(row, raises)
    /\ request' = [request EXCEPT ![c] = Idle]
    /\ UNCHANGED <<policy, voters, latestER>>

\* Mutant: withhold_result drops the ballot with the result it hides.
RowAfterBallotDropped(event, row) ==
    CASE event = "make_upcoming" -> [row EXCEPT !.state = "upcoming"]
      [] event = "unpublish" -> [row EXCEPT !.state = "private"]
      [] event = "cancel" -> [row EXCEPT !.state = "canceled"]
      [] event = "publish_result" ->
            [row EXCEPT !.state = "finished", !.withheld_result = FALSE]
      [] event = "withhold_result" ->
            [row EXCEPT !.state = "withheld", !.withheld_result = TRUE,
                        !.ballot = NoBallot]
      [] event = "update" -> row

\* The events that only touch the row, on_publish_result and
\* on_withhold_result included.
RowAfter(event, row) ==
    CASE event = "make_upcoming" -> [row EXCEPT !.state = "upcoming"]
      [] event = "unpublish" -> [row EXCEPT !.state = "private"]
      [] event = "cancel" -> [row EXCEPT !.state = "canceled"]
      [] event = "publish_result" ->
            [row EXCEPT !.state = "finished", !.withheld_result = FALSE]
      [] event = "withhold_result" ->
            [row EXCEPT !.state = "withheld", !.withheld_result = TRUE]
      [] event = "update" -> row

SavePoll(c, event) ==
    /\ request[c].kind = event
    /\ poll' = RowAfter(event, request[c].row)
    /\ request' = [request EXCEPT ![c] = Idle]
    /\ UNCHANGED <<votes, policy, voters, latestER>>

\* The worker dies or the request raises: its transaction is rolled back.
Rollback(c) ==
    /\ request[c] # Idle
    /\ request' = [request EXCEPT ![c] = Idle]
    /\ UNCHANGED <<poll, votes, policy, voters, latestER>>

RowEvents == {"make_upcoming", "unpublish", "cancel", "publish_result",
              "withhold_result", "update"}

Step ==
    \/ TriggerRegister
    \/ \E name \in Policies, meetingOngoing \in BOOLEAN :
          ChangePolicy(name, meetingOngoing)
    \/ \E new \in Registers : ChangeVoters(new)
    \/ \E c \in Requests :
          \/ ReadForNewRegister(c)
          \/ \E new \in Registers : ApplyNewRegister(c, new)
          \/ \E u \in Users, v \in VoteData \cup {Abstain} : ValidateVote(c, u, v)
          \/ StoreVote(c)
          \/ \E event \in DOMAIN Sources : ReadPoll(c, event)
          \/ StartPoll(c)
          \/ \E raises \in BOOLEAN : ClosePoll(c, raises)
          \/ \E event \in RowEvents : SavePoll(c, event)
          \/ Rollback(c)

\* overlapped is a history variable: it tells the sequential runs of the program
\* from the others and restricts nothing.
TwoInFlight ==
    \E c, d \in Requests : c # d /\ request[c] # Idle /\ request[d] # Idle

Next == Step /\ overlapped' = (overlapped \/ TwoInFlight')

Spec == Init /\ [][Next]_vars

-----------------------------------------------------------------------------
(* What holds whatever requests overlap.                                   *)

\* The ballot and the result are in the row exactly when the row says the poll
\* was counted, with the register they were counted by; what a failed count
\* left behind is gone, so that close can be sent again.
CountedExactlyWhenFinished ==
    IF poll.state \in CountedStates
    THEN poll.result /\ poll.ballot # NoBallot /\ poll.er # NoRegister
    ELSE ~poll.result /\ poll.ballot = NoBallot /\ poll.abstains = 0

\* PollDetailSerializer.get_result shows the result of a counted poll unless
\* withheld_result is set: it shows none before the poll is finished, the
\* withheld state included, and does show it then.
ResultShownOnlyWhenFinished ==
    (poll.state \in CountedStates /\ ~poll.withheld_result)
        <=> poll.state = "finished"

\* The row never contradicts itself about its count.
PollRowIsSound == CountedExactlyWhenFinished /\ ResultShownOnlyWhenFinished

(* What holds as long as requests do not overlap.                          *)

\* Counting the stored votes again by the poll's register gives the ballot
\* that was stored: no vote was added, changed or left uncounted since.
RecountAgrees ==
    ~overlapped /\ poll.state \in CountedStates =>
        /\ poll.ballot = Ballot(votes, poll.er)
        /\ poll.abstains = WeightOf(votes, poll.er, Abstain)

\* A vote is stored or changed only while the poll is ongoing.
VotesStored(u) == votes'[u] \notin {votes[u], NoVote}
VotesOnlyWhileOngoing ==
    [][~overlapped /\ (\E u \in Users : VotesStored(u)) => poll.state = "ongoing"]_vars

Life == INSTANCE PollLifecycle WITH
            state <- poll.state, outcome <- poll.ballot, Undecided <- NoBallot

\* Seen from outside the poll keeps the promises of PollLifecycle: the ballot is
\* written once, by the close event, and never replaced.
KeepsLifecycle ==
    Life!LifeInit /\ [][overlapped \/ Life!LifeNext]_Life!lifeVars

(* What the comments and tests say, overlapping requests included.         *)

\* A vote is stored or changed only while the poll is ongoing.
LateVotesRefused ==
    [][(\E u \in Users : VotesStored(u)) => poll.state = "ongoing"]_vars
=============================================================================
