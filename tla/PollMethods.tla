---------------------------- MODULE PollMethods ----------------------------
(***************************************************************************)
(* The poll methods: what a poll must look like to start, which ballots a  *)
(* voter may cast, and what the method makes of the counted ballots.       *)
(*                                                                         *)
(* A poll is a record: its method, its proposals and the settings of the   *)
(* method.  The votes are a function from the voters who did not abstain   *)
(* to ballots.  A ballot is what vote_to_str stores: for simple one of     *)
(* "yes" and "no"; for majority a proposal; for combined_simple the sets   *)
(* of proposals answered with yes and with no; for dutt how often each     *)
(* proposal was picked; for schulze the rating of each option that was     *)
(* rated; for the ranked methods a sequence of proposals.                  *)
(*                                                                         *)
(* A method may draw lots, so that it has a set of possible results.  The  *)
(* libraries that hold the elections (py3votecore, stvpoll) are modelled   *)
(* from how the methods call them and read their results.                  *)
(***************************************************************************)
EXTENDS Integers, Sequences, FiniteSets, SequencesExt, FiniteSetsExt

CONSTANT NoWinners    \* winners is None: the proposals are only sorted

\* The option to deny all proposals, which has no row.
Deny == 0

NoVerdict == [approved |-> {}, denied |-> {}, failed |-> FALSE, scores |-> <<>>]

\* The calculation raised, and the poll cannot be closed with this method.
Failed == [NoVerdict EXCEPT !.failed = TRUE]

Verdict(approved, denied) ==
    [NoVerdict EXCEPT !.approved = approved, !.denied = denied]

-----------------------------------------------------------------------------
(* Counting: Poll.finalize_vote_data.                                      *)

\* Equal ballots share a key, under which the weights of their voters add up.
Counter(votes, weight) ==
    [b \in {votes[v] : v \in DOMAIN votes} |->
        MapThenSumSet(LAMBDA v : weight[v], {v \in DOMAIN votes : votes[v] = b})]

\* How often the ballots were cast that satisfy Test.
Count(counter, Test(_)) ==
    MapThenSumSet(LAMBDA b : counter[b], {b \in DOMAIN counter : Test(b)})

-----------------------------------------------------------------------------
(* Yes or no, one of two, and pick several.                                *)

\* Approved or denied by the larger count, left open when they are equal.
YesNo(yes, no, pk) ==
    Verdict(IF yes > no THEN {pk} ELSE {}, IF yes < no THEN {pk} ELSE {})

SimpleResult(poll, counter) ==
    LET pk == CHOOSE q \in poll.proposals : TRUE IN
    {YesNo(Count(counter, LAMBDA b : b = "yes"), Count(counter, LAMBDA b : b = "no"), pk)}

\* A proposal in both lists counts as a yes.
CountVotes(pk, counter) ==
    [yes |-> Count(counter, LAMBDA b : pk \in b.yes),
     no |-> Count(counter, LAMBDA b : pk \notin b.yes /\ pk \in b.no)]

CombinedSimpleResult(poll, counter) ==
    LET results == [pk \in poll.proposals |-> CountVotes(pk, counter)] IN
    {Verdict({pk \in poll.proposals : results[pk].yes > results[pk].no},
             {pk \in poll.proposals : results[pk].yes < results[pk].no})}

\* Of more than two distinct choices nothing is made.  When only one proposal
\* was chosen, one of the others is denied.
MajorityResult(poll, counter) ==
    LET chosen == DOMAIN counter IN
    CASE chosen = {} -> {NoVerdict}
      [] Cardinality(chosen) > 2 -> {Failed}
      [] Cardinality(chosen) = 1 ->
            {Verdict(chosen, {other}) : other \in poll.proposals \ chosen}
      [] OTHER ->
            LET more == {q \in chosen : \A o \in chosen \ {q} : counter[q] > counter[o]} IN
            {IF more = {} THEN NoVerdict ELSE Verdict(more, chosen \ more)}

\* reformat_counter: picks are counted and nothing is approved or denied.
DuttScores(poll, counter) ==
    [pk \in poll.proposals |-> MapThenSumSet(LAMBDA b : counter[b] * b[pk], DOMAIN counter)]

DuttResult(poll, counter) == {[NoVerdict EXCEPT !.scores = DuttScores(poll, counter)]}

-----------------------------------------------------------------------------
(* Schulze and repeated Schulze.                                           *)

\* SchulzeMethod: the candidates are the options somebody rated; those a ballot
\* leaves out come after those it rates.
RatedOptions(counter) == UNION {DOMAIN b : b \in DOMAIN counter}

Rating(b, c) == IF c \in DOMAIN b THEN b[c] ELSE -1

Prefers(counter, c, d) == Count(counter, LAMBDA b : Rating(b, c) > Rating(b, d))

\* The weakest link of the strongest path of majorities from c to d, by way of
\* one candidate more in each round.
StrongPaths(counter) ==
    LET all == RatedOptions(counter)
        direct == [pair \in all \X all |->
                      LET p == Prefers(counter, pair[1], pair[2]) IN
                      IF p > Prefers(counter, pair[2], pair[1]) THEN p ELSE 0]
        via(path, k) ==
            [pair \in all \X all |->
                Max({path[pair], Min({path[<<pair[1], k>>], path[<<k, pair[2]>>]})})] IN
    FoldLeft(via, direct, SetToSeq(all))

\* Whoever no other candidate has a stronger path to; a tie is broken by lot.
SchulzeWinners(counter) ==
    LET path == StrongPaths(counter)
        all == RatedOptions(counter) IN
    {c \in all : \A d \in all : path[<<c, d>>] >= path[<<d, c>>]}

\* Mutant: the option to deny is approved like a proposal.
SchulzeVerdictOfAny(winner, counter) ==
    Verdict({winner}, RatedOptions(counter) \ {Deny, winner})

\* The option to deny wins over all proposals.
SchulzeVerdict(winner, counter) ==
    Verdict({winner} \ {Deny}, RatedOptions(counter) \ {Deny, winner})

SchulzeResult(poll, counter) ==
    {SchulzeVerdict(winner, counter) : winner \in SchulzeWinners(counter)}

\* Mutant: the elected option stays on the ballots.
NobodyElected(counter, gone) == counter

\* The ballots without the options that were elected.
WithoutElected(counter, gone) ==
    LET rest(b) == [c \in DOMAIN b \ gone |-> b[c]] IN
    [r \in {rest(b) : b \in DOMAIN counter} |-> Count(counter, LAMBDA b : rest(b) = r)]

\* One more round of every possible election so far; the option to deny ends
\* it when it wins.
SchulzeRound(poll, counter, elections) ==
    UNION {IF poll.deny /\ Contains(rounds, Deny) THEN {rounds}
           ELSE {Append(rounds, w) : w \in SchulzeWinners(WithoutElected(counter, ToSet(rounds)))} :
           rounds \in elections}

RoundsToDo(poll) ==
    IF poll.winners = NoWinners THEN Cardinality(poll.proposals) ELSE poll.winners

RepeatedSchulzeRounds(poll, counter) ==
    FoldLeft(LAMBDA elections, i : SchulzeRound(poll, counter, elections),
             {<<>>}, [i \in 1..RoundsToDo(poll) |-> i])

\* A poll that sorts approves and denies nothing.
RepeatedSchulzeResult(poll, counter) ==
    {IF poll.winners = NoWinners THEN NoVerdict
     ELSE LET approved == ToSet(rounds) \ {Deny} IN
          Verdict(approved, RatedOptions(counter) \ (approved \cup {Deny})) :
     rounds \in RepeatedSchulzeRounds(poll, counter)}

-----------------------------------------------------------------------------
(* Ranked ballots.                                                         *)

\* Ballots cast; an empty ballot is one too.
BallotCount(counter) == Count(counter, LAMBDA b : TRUE)

FirstPreferences(counter, standing, c) ==
    Count(counter, LAMBDA b : LET left == {i \in DOMAIN b : b[i] \in standing} IN
                              left # {} /\ b[Min(left)] = c)

\* IRV of the library: whoever more than half of all ballots have first is
\* elected, otherwise one of those with the fewest goes; without lots a tie
\* ends the election.  {} when nobody can get a majority any more.
IRVElected(poll, counter, candidates) ==
    LET first(standing, c) == FirstPreferences(counter, standing, c)
        quota == BallotCount(counter) \div 2 + 1
        elected[standing \in SUBSET candidates] ==
            LET over == {c \in standing : first(standing, c) >= quota}
                last == {c \in standing :
                            \A d \in standing : first(standing, c) <= first(standing, d)} IN
            CASE over # {} -> {over}
              [] Cardinality(standing) <= 1 -> {{}}
              [] Cardinality(last) > 1 /\ ~poll.allow_random -> {{}}
              [] OTHER -> UNION {elected[standing \ {c}] : c \in last} IN
    elected[candidates]

\* finalize_stv_result: the winners are approved, and the others denied when
\* all seats were filled.  The ballot that ranks nothing is stored as "", and
\* reading the numbers of "" raises.
FinalizeStvResult(poll, counter, elections) ==
    IF <<>> \in DOMAIN counter THEN {Failed}
    ELSE {Verdict(won, IF Cardinality(won) = poll.winners THEN poll.proposals \ won ELSE {}) :
          won \in elections}

IRVResult(poll, counter) ==
    FinalizeStvResult(poll, counter, IRVElected(poll, counter, poll.proposals))

\* RepeatedIRVPoll: an IRV among those who are standing, for every seat, until
\* one is incomplete.
RepeatedIRVRound(poll, counter, elections) ==
    UNION {{won \cup next : next \in IRVElected(poll, counter, poll.proposals \ won)} :
           won \in elections}

RepeatedIRVResult(poll, counter) ==
    FinalizeStvResult(poll, counter,
        FoldLeft(LAMBDA elections, i : RepeatedIRVRound(poll, counter, elections),
                 {{}}, [i \in 1..poll.winners |-> i]))

\* The library fills the seats, or some of them.
ScottishSTVResult(poll, counter) ==
    FinalizeStvResult(poll, counter,
        {won \in SUBSET poll.proposals : Cardinality(won) <= poll.winners})

-----------------------------------------------------------------------------
(* What a poll needs to start (start_check), and the ballots voters may    *)
(* cast (the vote schemas and validate_vote).                              *)

Size(poll) == Cardinality(poll.proposals)

SimpleStart(poll) == Size(poll) = 1
SimpleBallots(poll) == {"yes", "no"}

CombinedSimpleStart(poll) == Size(poll) > 0
CombinedSimpleBallots(poll) == [yes : SUBSET poll.proposals, no : SUBSET poll.proposals]

MajorityStart(poll) == Size(poll) >= 2
MajorityBallots(poll) == poll.proposals

\* min and max picks or rankings; no maximum is 0.
Within(poll, n) == n >= poll.min /\ (poll.max # 0 => n <= poll.max)

DuttStart(poll) == Size(poll) >= poll.min /\ Size(poll) >= 2

\* A ballot may pick a proposal twice.
DuttBallots(poll) ==
    {b \in [poll.proposals -> 0..2] :
        Within(poll, MapThenSumSet(LAMBDA q : b[q], poll.proposals))}

SchulzeOptions(poll) == poll.proposals \cup (IF poll.deny THEN {Deny} ELSE {})

SchulzeStart(poll) == Size(poll) >= IF poll.deny THEN 2 ELSE 3

\* Options may be left out; ratings are bounded by the stars the page offers.
SchulzeBallots(poll) ==
    UNION {[rated -> 0..poll.stars] : rated \in SUBSET SchulzeOptions(poll)}

RepeatedSchulzeStart(poll) ==
    /\ SchulzeStart(poll)
    /\ poll.winners # NoWinners => Size(poll) >= poll.winners + IF poll.deny THEN 0 ELSE 1

IRVStart(poll) == Size(poll) >= 3
RepeatedIRVStart(poll) == Size(poll) >= 3 /\ Size(poll) >= poll.min
ScottishSTVStart(poll) == Size(poll) >= poll.winners + 1 /\ poll.winners >= 1

\* Proposals may be left out, all of them too.
RankedBallots(poll) == {b \in SeqOf(poll.proposals, Size(poll)) : IsInjective(b)}

RepeatedIRVBallots(poll) == {b \in RankedBallots(poll) : Within(poll, Len(b))}

-----------------------------------------------------------------------------
(* The registry of poll methods.                                           *)

StartCheck(poll) ==
    CASE poll.method = "simple" -> SimpleStart(poll)
      [] poll.method = "combined_simple" -> CombinedSimpleStart(poll)
      [] poll.method = "majority" -> MajorityStart(poll)
      [] poll.method = "dutt" -> DuttStart(poll)
      [] poll.method = "schulze" -> SchulzeStart(poll)
      [] poll.method = "repeated_schulze" -> RepeatedSchulzeStart(poll)
      [] poll.method = "irv" -> IRVStart(poll)
      [] poll.method = "repeated_irv" -> RepeatedIRVStart(poll)
      [] poll.method = "scottish_stv" -> ScottishSTVStart(poll)

BallotsOf(poll) ==
    CASE poll.method = "simple" -> SimpleBallots(poll)
      [] poll.method = "combined_simple" -> CombinedSimpleBallots(poll)
      [] poll.method = "majority" -> MajorityBallots(poll)
      [] poll.method = "dutt" -> DuttBallots(poll)
      [] poll.method \in {"schulze", "repeated_schulze"} -> SchulzeBallots(poll)
      [] poll.method = "repeated_irv" -> RepeatedIRVBallots(poll)
      [] OTHER -> RankedBallots(poll)

\* calculate_result of the poll's method
CalculateResult(poll, counter) ==
    CASE poll.method = "simple" -> SimpleResult(poll, counter)
      [] poll.method = "combined_simple" -> CombinedSimpleResult(poll, counter)
      [] poll.method = "majority" -> MajorityResult(poll, counter)
      [] poll.method = "dutt" -> DuttResult(poll, counter)
      [] poll.method = "schulze" -> SchulzeResult(poll, counter)
      [] poll.method = "repeated_schulze" -> RepeatedSchulzeResult(poll, counter)
      [] poll.method = "irv" -> IRVResult(poll, counter)
      [] poll.method = "repeated_irv" -> RepeatedIRVResult(poll, counter)
      [] poll.method = "scottish_stv" -> ScottishSTVResult(poll, counter)
=============================================================================
