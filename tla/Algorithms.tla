---------------------------- MODULE Algorithms ----------------------------
(***************************************************************************)
(* The pure computations of the server, run on one input each: a poll      *)
(* method counts a poll, the subscribe job packs the sections of a new     *)
(* subscriber, a commit groups what its transaction published, a meeting   *)
(* is imported into another, a file of invites is imported.                *)
(***************************************************************************)
EXTENDS PollMethods, Outbox, ExportImport, InviteImport

CONSTANTS
    Polls,          \* polls to count
    PollVoters,     \* who voted in them, by number
    Weights,        \* vote weights of the voters
    StateTasks,     \* sections and the budget to pack them in
    Transactions,   \* what a transaction published
    Imports,        \* imports: source, target, options, who is active, how
    InviteFiles     \* files of invites, and the invites there are before

VARIABLES
    task,     \* the input
    done,     \* whether it was computed
    result    \* what was computed from it

taskVars == <<task, done, result>>

ASSUME AlgorithmsAssumption ==
    /\ IsFiniteSet(PollVoters) /\ PollVoters \subseteq Nat
    /\ Weights \subseteq [PollVoters -> Nat]
    /\ \A poll \in Polls :
          /\ poll.method \in {"simple", "combined_simple", "majority", "dutt", "schulze",
                              "repeated_schulze", "irv", "repeated_irv", "scottish_stv"}
          /\ IsFiniteSet(poll.proposals) /\ Deny \notin poll.proposals
          /\ {poll.stars, poll.min, poll.max} \subseteq Nat
          /\ poll.winners = NoWinners => poll.method = "repeated_schulze"
          /\ poll.winners # NoWinners => poll.winners \in Nat
    /\ \A data \in Transactions : Published(data)
    /\ \A input \in StateTasks : Collected(input.sections) /\ input.budget \in Nat

\* What the Schulze library makes of a ballot without ratings is not known:
\* ballots have some, and keep some through the rounds.
Countable(poll) ==
    {b \in BallotsOf(poll) :
        /\ poll.method = "schulze" => DOMAIN b # {}
        /\ poll.method = "repeated_schulze" => DOMAIN b = SchulzeOptions(poll)}

\* The votes on a poll; voters of the same weight are told apart by nothing
\* but their ballots, and take them in one order.
VotesOn(poll, weight) ==
    LET ballots == FoldSet(LAMBDA b, s : Append(s, b), <<>>, Countable(poll)) IN
    {[v \in PollVoters |-> ballots[i[v]]] :
     i \in {f \in [PollVoters -> DOMAIN ballots] :
               \A v, w \in PollVoters : v < w /\ weight[v] = weight[w] => f[v] <= f[w]}}

TaskInit ==
    /\ \/ \E poll \in {p \in Polls : StartCheck(p)}, weight \in Weights :
             task \in [kind : {"poll"}, poll : {poll}, votes : VotesOn(poll, weight),
                      weight : {weight}]
       \/ task \in [kind : {"state"}, input : StateTasks]
       \/ task \in [kind : {"commit"}, input : Transactions]
       \/ task \in [kind : {"invites"}, input : InviteFiles]
       \/ task \in [kind : {"import"}, input : {i \in Imports : ValidContext(i.ctx)}]
    /\ done = FALSE
    /\ result = <<>>

CountPoll ==
    /\ task.kind = "poll" /\ ~done
    /\ result' \in CalculateResult(task.poll, Counter(task.votes, task.weight))
    /\ done' = TRUE
    /\ UNCHANGED task

PackState ==
    /\ task.kind = "state" /\ ~done
    /\ result' = IterBundles(task.input.sections, task.input.budget)
    /\ done' = TRUE
    /\ UNCHANGED task

CommitTransaction ==
    /\ task.kind = "commit" /\ ~done
    /\ result' = Collapse(task.input)
    /\ done' = TRUE
    /\ UNCHANGED task

ImportMeeting ==
    /\ task.kind = "import" /\ ~done
    /\ LET i == task.input IN
       result' = IF i.by = "clone" THEN Clone(i.source, i.target, i.ctx, i.active)
                 ELSE ImportFile(i.source, i.target, i.ctx, i.active)
    /\ done' = TRUE
    /\ UNCHANGED task

ImportInviteFile ==
    /\ task.kind = "invites" /\ ~done
    /\ LET i == task.input IN
       result' = ImportInvites(i.format, i.columns, i.lines, i.invites)
    /\ done' = TRUE
    /\ UNCHANGED task

TaskNext == CountPoll \/ PackState \/ CommitTransaction \/ ImportMeeting \/ ImportInviteFile

TaskSpec == TaskInit /\ [][TaskNext]_taskVars

-----------------------------------------------------------------------------

Done(kind) == done /\ task.kind = kind

Seats(poll) ==
    CASE poll.method = "combined_simple" -> Cardinality(poll.proposals)
      [] poll.method = "repeated_schulze" ->
            IF poll.winners = NoWinners THEN 0 ELSE poll.winners
      [] poll.method \in {"repeated_irv", "scottish_stv"} -> poll.winners
      [] OTHER -> 1

\* Poll.set_proposals_from_result can act on every result: no proposal is both
\* approved and denied, only proposals of the poll are decided (never the
\* option to deny), and no more are approved than the poll has winners.
VerdictIsSound ==
    Done("poll") =>
        /\ result.approved \cap result.denied = {}
        /\ result.approved \cup result.denied \subseteq task.poll.proposals
        /\ Cardinality(result.approved) <= Seats(task.poll)
        /\ result.failed => result.approved \cup result.denied = {}

\* Whether the voter of a ballot with ratings or a ranking puts c before d.
PutsBefore(b, c, d) ==
    IF task.poll.method \in {"schulze", "repeated_schulze"}
    THEN c \in DOMAIN b /\ (d \in DOMAIN b => b[c] > b[d])
    ELSE \E i \in DOMAIN b : b[i] = c /\ \A j \in 1..i : b[j] # d

Options == SchulzeOptions(task.poll)

\* What every voter puts behind another option is not approved unless that
\* option is, and never when it is the option to deny: by Schulze and by
\* instant runoff, once or repeatedly, whatever is decided by lot.  (When no vote
\* has any weight all options are level, and Schulze draws one.)
UnanimityRespected ==
    /\ Done("poll")
    /\ task.poll.method \in {"schulze", "repeated_schulze", "irv", "repeated_irv"}
    /\ \E v \in PollVoters : task.weight[v] > 0
    =>  \A c, d \in Options :
            /\ \A v \in PollVoters : PutsBefore(task.votes[v], c, d)
            /\ d \in result.approved
            => c \in result.approved

Majority(c, d) ==
    LET weight(S) == MapThenSumSet(LAMBDA v : task.weight[v], S) IN
    weight({v \in PollVoters : PutsBefore(task.votes[v], c, d)})
        > weight({v \in PollVoters : PutsBefore(task.votes[v], d, c)})

\* The options that beat c, by the weight of the voters.
Better(c) == {d \in Options : Majority(d, c)}

\* When the majorities put the options in an order, the Schulze polls approve
\* the first of that order, as many as the poll has winners, and none that
\* comes after the option to deny ("Will produce Condorcet winner").
MajorityOrderDecides ==
    /\ Done("poll")
    /\ task.poll.method \in {"schulze", "repeated_schulze"} /\ Seats(task.poll) > 0
    /\ {Cardinality(Better(c)) : c \in Options} = 0..Cardinality(Options) - 1
    => result.approved = {c \in Options \ {Deny} :
                             Cardinality(Better(c)) < Seats(task.poll) /\ Deny \notin Better(c)}

\* The verdict follows the ballots where they leave no choice: no option wins over
\* one that all put before it, and an order by majorities decides.
VerdictFollowsBallots == UnanimityRespected /\ MajorityOrderDecides

\* A new subscriber is sent all of the state and knows when it has it, in bundles
\* that outgrow the budget only with a message nobody can split.
StateIsPacked ==
    Done("state") =>
        /\ CarriesEverything(task.input.sections, result)
        /\ WithinBudget(result, task.input.budget)

\* Grouping changes neither what a target is sent of an action nor its order,
\* however the messages of a transaction were mixed.
GroupingKeepsStreams == Done("commit") => KeepsEveryStream(task.input, result)

\* Packing and grouping deliver what was handed to them.
OutboxKeepsMessages == StateIsPacked /\ GroupingKeepsStreams

\* An import that is not rolled back brings over what the source says, to the
\* letter of the options: each reaction to the copy of what it was a reaction
\* to, each amendment on the copy of its paragraph, each delegation; and no row
\* of the target refers to one of the source, or of another item, afterwards.
ImportKeepsContent ==
    Done("import") =>
        LET i == task.input IN
        /\ result = i.target \/ KeepsContent(i.source, i.target, i.ctx, i.active, result)
        /\ Closed(result)

\* Who is in an accepted file is invited with the roles and the group role of
\* their own line, whatever lines come before it and however many are dropped;
\* nobody else's invite changes.  (Lines without any user data are exempted, and
\* the groups of lines that leave an identity column empty.)
LinesGetTheirInvites ==
    Done("invites") =>
        LET i == task.input IN
        EveryLineIsInvited(i.format, i.columns, i.lines, i.invites, result)
=============================================================================
