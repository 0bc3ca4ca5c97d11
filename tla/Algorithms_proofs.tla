------------------------- MODULE Algorithms_proofs -------------------------
(***************************************************************************)
(* Proofs about the counting of polls, for any proposals, voters, weights, *)
(* ballots and settings, and whichever lots are drawn: the verdict is one  *)
(* that can be acted on, and follows the ballots where they leave no       *)
(* choice.                                                                 *)
(*                                                                         *)
(* The invariant says that the poll could start, that its voters cast      *)
(* ballots of its method, and that the result is one of the method; the    *)
(* rest is about the methods.  Counts are sums over finite sets, so the    *)
(* lemmas on sums of Electorate_proofs carry them.  A fold over rounds is  *)
(* restated as the chain of what each round makes of the last, and a       *)
(* runoff as a function of those who are standing; what is said of every   *)
(* round then goes up the chain, or down the sets.  Strong paths keep what *)
(* the direct links have and joining two paths keeps: that a path which    *)
(* all votes back follows the ratings of every ballot, and that no path    *)
(* leads back to a candidate that beats all others.                        *)
(*                                                                         *)
(* The last part is about the messages that leave the server, for any      *)
(* messages, budgets and overheads: packing and grouping deliver what was  *)
(* handed to them.  A fold over a list is again a chain.  While sections   *)
(* are packed, every bundle fits with what is at hand, and the entries so  *)
(* far, with what is at hand, carry the payloads that were taken.          *)
(***************************************************************************)
EXTENDS Electorate_proofs, Algorithms

-----------------------------------------------------------------------------
(* Ballots                                                                 *)

\* The functions from one finite set to another are finitely many.
LEMMA FiniteFunctions ==
    ASSUME NEW S, IsFiniteSet(S), NEW T, IsFiniteSet(T)
    PROVE  IsFiniteSet([S -> T])
<1> DEFINE P == {s \in SUBSET S : IsFiniteSet([s -> T])}
<1>1. ASSUME NEW s \in SUBSET S, \A x \in s : s \ {x} \in P PROVE s \in P
  <2>1. CASE s = {}
    <3>1. [s -> T] \in SUBSET {[x \in {} |-> 0]}
        BY <2>1
    <3> QED
        BY <3>1, FS_Singleton, FS_Subset
  <2>2. CASE s # {}
    <3>1. PICK x \in s : TRUE
        BY <2>2
    <3> DEFINE A == [s \ {x} -> T] \X T
               with(p) == [y \in s |-> IF y = x THEN p[2] ELSE p[1][y]]
               f == [p \in A |-> with(p)]
    <3>2. IsFiniteSet(A)
        BY <1>1, FS_Product
    <3>3. f \in [A -> [s -> T]]
        OBVIOUS
    <3>4. ASSUME NEW g \in [s -> T] PROVE \E p \in A : f[p] = g
        <4> DEFINE p == <<[y \in s \ {x} |-> g[y]], g[x]>>
        <4>1. p \in A
            OBVIOUS
        <4>2. with(p) = g
            OBVIOUS
        <4> QED
            BY <4>1, <4>2
    <3>5. f \in Surjection(A, [s -> T])
        <4> HIDE DEF f, A
        <4> QED
            BY <3>3, <3>4 DEF Surjection
    <3> QED
        BY <3>2, <3>5, FS_Surjection
  <2> QED
    BY <2>1, <2>2
<1> HIDE DEF P
<1>2. S \in P
  <2>1. P \in SUBSET SUBSET S
    BY DEF P
  <2> QED
    BY <1>1, <2>1, SetInduction
<1> QED
    BY <1>2 DEF P

\* The values of a function on a finite set are finitely many.
LEMMA FiniteValues ==
    ASSUME NEW S, IsFiniteSet(S), NEW f
    PROVE  IsFiniteSet({f[x] : x \in S})
<1> DEFINE g == [x \in S |-> f[x]]
<1>1. g \in Surjection(S, {f[x] : x \in S})
    BY DEF Surjection
<1> HIDE DEF g
<1> QED
    BY <1>1, FS_Surjection

\* The sequences over a finite set up to a length are finitely many.
LEMMA FiniteSequences ==
    ASSUME NEW S, IsFiniteSet(S), NEW n \in Nat
    PROVE  IsFiniteSet(SeqOf(S, n))
<1> DEFINE f == [m \in 0..n |-> [1..m -> S]]
<1>1. IsFiniteSet(0..n) /\ \A m \in 0..n : IsFiniteSet(1..m)
    BY FS_Interval
<1>2. \A m \in 0..n : IsFiniteSet(f[m])
    BY <1>1, FiniteFunctions
<1>3. SeqOf(S, n) = UNION {f[m] : m \in 0..n}
    BY DEF SeqOf
<1> HIDE DEF f
<1>4. IsFiniteSet({f[m] : m \in 0..n})
    BY <1>1, FiniteValues
<1> QED
    BY <1>2, <1>3, <1>4, FS_UNION

\* What a poll of the meeting looks like.
LEMMA PollTypes ==
    ASSUME NEW poll \in Polls
    PROVE  /\ IsFiniteSet(poll.proposals) /\ Cardinality(poll.proposals) \in Nat
           /\ IsFiniteSet(SchulzeOptions(poll))
           /\ poll.stars \in Nat /\ poll.min \in Nat /\ poll.max \in Nat
           /\ poll.winners # NoWinners => poll.winners \in Nat
<1>1. /\ IsFiniteSet(poll.proposals)
      /\ poll.stars \in Nat /\ poll.min \in Nat /\ poll.max \in Nat
      /\ poll.winners # NoWinners => poll.winners \in Nat
    BY AlgorithmsAssumption
<1>2. IsFiniteSet(SchulzeOptions(poll))
    BY <1>1, FS_Singleton, FS_EmptySet, FS_Union DEF SchulzeOptions
<1> QED
    BY <1>1, <1>2, FS_CardinalityType

\* A poll has finitely many ballots.
LEMMA FiniteBallots ==
    ASSUME NEW poll \in Polls
    PROVE  IsFiniteSet(BallotsOf(poll))
<1> DEFINE all == poll.proposals
           options == SchulzeOptions(poll)
<1>1. IsFiniteSet(all) /\ IsFiniteSet(options) /\ Cardinality(all) \in Nat
    BY PollTypes
<1>2. IsFiniteSet(SimpleBallots(poll))
  <2>1. IsFiniteSet({"yes"} \cup {"no"})
    BY FS_Singleton, FS_Union
  <2>2. SimpleBallots(poll) = {"yes"} \cup {"no"}
    BY DEF SimpleBallots
  <2> QED
    BY <2>1, <2>2
<1>3. IsFiniteSet(CombinedSimpleBallots(poll))
  <2> DEFINE A == (SUBSET all) \X (SUBSET all)
             f == [p \in A |-> [yes |-> p[1], no |-> p[2]]]
  <2>1. IsFiniteSet(A)
    BY <1>1, FS_SUBSET, FS_Product
  <2>2. f \in Surjection(A, CombinedSimpleBallots(poll))
    <3>1. f \in [A -> CombinedSimpleBallots(poll)]
        BY DEF CombinedSimpleBallots
    <3>2. ASSUME NEW b \in CombinedSimpleBallots(poll) PROVE \E p \in A : f[p] = b
        <4>1. <<b.yes, b.no>> \in A /\ f[<<b.yes, b.no>>] = b
            BY DEF CombinedSimpleBallots
        <4> QED
            BY <4>1
    <3> HIDE DEF f, A
    <3> QED
        BY <3>1, <3>2 DEF Surjection
  <2> HIDE DEF f, A
  <2> QED
    BY <2>1, <2>2, FS_Surjection
<1>4. IsFiniteSet(MajorityBallots(poll))
    BY <1>1 DEF MajorityBallots
<1>5. IsFiniteSet(DuttBallots(poll))
  <2>1. IsFiniteSet([all -> 0..2])
    <3>1. 0 \in Int /\ 2 \in Int
        OBVIOUS
    <3>2. IsFiniteSet(0..2)
        BY <3>1, FS_Interval, Zenon
    <3> QED
        BY <1>1, <3>2, FiniteFunctions
  <2>2. DuttBallots(poll) \in SUBSET [all -> 0..2]
    BY DEF DuttBallots
  <2> QED
    BY <2>1, <2>2, FS_Subset
<1>6. IsFiniteSet(SchulzeBallots(poll))
  <2> DEFINE f == [rated \in SUBSET options |-> [rated -> 0..poll.stars]]
  <2>1. IsFiniteSet(SUBSET options) /\ \A rated \in SUBSET options : IsFiniteSet(rated)
    BY <1>1, FS_SUBSET, FS_Subset
  <2>2. \A rated \in SUBSET options : IsFiniteSet(f[rated])
    <3>1. IsFiniteSet(0..poll.stars)
        BY PollTypes, FS_Interval
    <3> QED
        BY <2>1, <3>1, FiniteFunctions
  <2>3. SchulzeBallots(poll) = UNION {f[rated] : rated \in SUBSET options}
    BY DEF SchulzeBallots
  <2> HIDE DEF f
  <2>4. IsFiniteSet({f[rated] : rated \in SUBSET options})
    BY <2>1, FiniteValues
  <2> QED
    BY <2>2, <2>3, <2>4, FS_UNION
<1>7. IsFiniteSet(RankedBallots(poll))
  <2>1. IsFiniteSet(SeqOf(all, Cardinality(all)))
    BY <1>1, FiniteSequences
  <2>2. RankedBallots(poll) \in SUBSET SeqOf(all, Cardinality(all))
    BY DEF RankedBallots, Size
  <2> QED
    BY <2>1, <2>2, FS_Subset
<1>8. IsFiniteSet(RepeatedIRVBallots(poll))
  <2>1. RepeatedIRVBallots(poll) \in SUBSET RankedBallots(poll)
    BY DEF RepeatedIRVBallots
  <2> QED
    BY <1>7, <2>1, FS_Subset
<1> QED
    BY <1>2, <1>3, <1>4, <1>5, <1>6, <1>7, <1>8 DEF BallotsOf

\* The element that CHOOSE takes, as a function on the subsets of S.
Chosen(S) == [s \in SUBSET S |-> CHOOSE x \in s : TRUE]

\* The element that CHOOSE takes from a set is one of it.
LEMMA ChosenChooses ==
    ASSUME NEW S
    PROVE  Chooses(Chosen(S), S)
<1> SUFFICES ASSUME NEW s \in SUBSET S, s # {} PROVE (CHOOSE x \in s : TRUE) \in s
    BY DEF Chosen, Chooses
<1> QED
    OBVIOUS

\* The ballots of a poll as VotesOn lists them.
Listed(S) == FoldSet(LAMBDA b, s : Append(s, b), <<>>, S)
ListStep(h, s) ==
    IF s = {} THEN <<>>
    ELSE Append(h[s \ {CHOOSE x \in s : TRUE}], CHOOSE x \in s : TRUE)

\* The elements of a finite set, listed, are a sequence of them.
LEMMA ListedIs ==
    ASSUME NEW S, IsFiniteSet(S)
    PROVE  Listed(S) \in Seq(S)
<1> DEFINE C == Chosen(S)
           F == [p \in S \X Seq(S) |-> Append(p[2], p[1])]
<1>1. Chooses(C, S) /\ F \in [S \X Seq(S) -> Seq(S)] /\ <<>> \in Seq(S)
    BY ChosenChooses
<1>2. PICK g : IsFold(F, <<>>, C, S, g)
  <2> HIDE DEF C, F
  <2> QED
    BY <1>1, FoldExists
<1>3. \A s \in SUBSET S : g[s] \in Seq(S)
  <2> HIDE DEF C, F
  <2> QED
    BY <1>1, <1>2, FoldType
<1>4. ASSUME NEW s \in SUBSET S PROVE FoldStep(F, <<>>, C, g, s) = ListStep(g, s)
  <2>1. CASE s = {}
    BY <2>1 DEF FoldStep, ListStep
  <2>2. CASE s # {}
    <3> DEFINE x == CHOOSE x \in s : TRUE
    <3>1. x \in s /\ C[s] = x
        BY <2>2 DEF Chosen
    <3> HIDE DEF x
    <3>2. F[<<x, g[s \ {x}]>>] = Append(g[s \ {x}], x)
        BY <1>3, <3>1
    <3> HIDE DEF F, C
    <3> QED
        BY <2>2, <3>1, <3>2 DEF FoldStep, ListStep, x
  <2> QED
    BY <2>1, <2>2
<1>5. g = [s \in SUBSET S |-> ListStep(g, s)]
  <2> HIDE DEF F, C
  <2> QED
    BY <1>2, <1>4 DEF IsFold
<1> DEFINE h == CHOOSE h : h = [s \in SUBSET S |-> ListStep(h, s)]
<1>6. h = [s \in SUBSET S |-> ListStep(h, s)]
    BY <1>5
<1>7. Listed(S) = h[S]
    BY DEF Listed, FoldSet, MapThenFoldSet, ListStep
<1> HIDE DEF h
<1> DEFINE P == {s \in SUBSET S : h[s] \in Seq(S)}
<1>8. ASSUME NEW s \in SUBSET S, \A x \in s : s \ {x} \in P PROVE s \in P
  <2>1. h[s] = ListStep(h, s)
    BY <1>6
  <2>2. CASE s = {}
    <3>1. h[s] = <<>> /\ <<>> \in Seq(S)
        BY <2>1, <2>2 DEF ListStep
    <3> QED
        BY <3>1
  <2>3. CASE s # {}
    <3>1. PICK x \in s : x = CHOOSE y \in s : TRUE
        BY <2>3
    <3>2. h[s \ {x}] \in Seq(S)
        BY <1>8
    <3>3. h[s] = Append(h[s \ {x}], x)
        BY <2>1, <2>3, <3>1 DEF ListStep
    <3>4. Append(h[s \ {x}], x) \in Seq(S)
        BY <3>2
    <3> QED
        BY <3>3, <3>4
  <2> QED
    BY <2>2, <2>3
<1>9. S \in P
  <2>1. P \in SUBSET SUBSET S
    OBVIOUS
  <2> HIDE DEF P
  <2> QED
    BY <1>8, <2>1, SetInduction
<1> QED
    BY <1>7, <1>9

\* The votes on a poll are ballots that can be counted.
LEMMA VotesAre ==
    ASSUME NEW poll \in Polls, NEW weight, NEW votes \in VotesOn(poll, weight)
    PROVE  votes \in [PollVoters -> Countable(poll)]
<1> DEFINE ballots == Listed(Countable(poll))
<1>1. ballots \in Seq(Countable(poll))
  <2>1. IsFiniteSet(Countable(poll))
    <3>1. Countable(poll) \in SUBSET BallotsOf(poll)
        BY DEF Countable
    <3> QED
        BY <3>1, FiniteBallots, FS_Subset
  <2> QED
    BY <2>1, ListedIs
<1>2. PICK i \in [PollVoters -> DOMAIN ballots] : votes = [v \in PollVoters |-> ballots[i[v]]]
    BY DEF VotesOn, Listed
<1> HIDE DEF ballots
<1>3. \A v \in PollVoters : ballots[i[v]] \in Countable(poll)
    BY <1>1
<1> QED
    BY <1>2, <1>3

-----------------------------------------------------------------------------
(* Counting                                                                *)

\* The sums of the model are sums over finite sets.
LEMMA SumIs ==
    ASSUME NEW f, NEW S
    PROVE  MapThenSumSet(LAMBDA x : f[x], S) = Sum(f, S)
    BY DEF MapThenSumSet, Sum, SumFunctionOnSet, FoldFunctionOnSet

\* How the ballots of a poll were cast: finitely many, and how often each.
Tally(counter) == IsFiniteSet(DOMAIN counter) /\ Counts(counter, DOMAIN counter)

\* The ballots that were cast, and who cast one of them.
Cast(votes) == {votes[v] : v \in PollVoters}
CastBy(votes, b) == {v \in PollVoters : votes[v] = b}

\* A ballot counts for the weights of those who cast it.
LEMMA CounterIs ==
    ASSUME NEW B, NEW votes \in [PollVoters -> B], NEW weight \in Weights
    PROVE  LET counter == Counter(votes, weight) IN
           /\ Tally(counter) /\ DOMAIN counter = Cast(votes)
           /\ DOMAIN counter \subseteq B
           /\ \A b \in DOMAIN counter : counter[b] = Sum(weight, CastBy(votes, b))
<1> DEFINE counter == Counter(votes, weight)
<1>1. /\ DOMAIN counter = {votes[v] : v \in PollVoters}
      /\ \A b \in DOMAIN counter : counter[b] = Sum(weight, {v \in PollVoters : votes[v] = b})
    BY SumIs DEF Counter
<1>2. IsFiniteSet(PollVoters) /\ Counts(weight, PollVoters)
    BY AlgorithmsAssumption DEF Counts
<1> HIDE DEF counter
<1>3. IsFiniteSet(DOMAIN counter)
    BY <1>1, <1>2, FiniteValues
<1>4. ASSUME NEW b \in DOMAIN counter PROVE counter[b] \in Nat
  <2>1. Sum(weight, {v \in PollVoters : votes[v] = b}) \in Nat
    BY <1>2, SumRule
  <2> QED
    BY <1>1, <2>1
<1>5. Tally(counter)
    BY <1>3, <1>4 DEF Tally, Counts
<1> QED
    BY <1>1, <1>5 DEF counter, Cast, CastBy

-----------------------------------------------------------------------------
(* Verdicts                                                                *)

\* What set_proposals_from_result needs of a result.
SoundVerdict(poll, r) ==
    /\ r.approved \cap r.denied = {}
    /\ r.approved \cup r.denied \subseteq poll.proposals
    /\ Cardinality(r.approved) <= Seats(poll)
    /\ r.failed => r.approved \cup r.denied = {}

\* A set whose elements are all the same has no more than one.
LEMMA AtMostOne ==
    ASSUME NEW S, \A x, y \in S : x = y
    PROVE  Cardinality(S) \in Nat /\ Cardinality(S) <= 1
<1>1. CASE S = {}
    BY <1>1, FS_EmptySet
<1>2. CASE S # {}
  <2>1. PICK x : S = {x}
    BY <1>2
  <2> QED
    BY <2>1, FS_Singleton
<1> QED
    BY <1>1, <1>2

\* How many proposals a poll may approve.
LEMMA SeatsAre ==
    ASSUME NEW poll \in Polls
    PROVE  /\ Seats(poll) \in Nat
           /\ poll.method \in {"simple", "majority", "dutt", "schulze", "irv"} => Seats(poll) = 1
<1>1. /\ poll.winners # NoWinners => poll.winners \in Nat
      /\ poll.winners = NoWinners => poll.method = "repeated_schulze"
      /\ Cardinality(poll.proposals) \in Nat
    BY PollTypes, AlgorithmsAssumption
<1> QED
    BY <1>1 DEF Seats

\* Nothing decided is sound, and so is a failure.
LEMMA NoVerdictSound ==
    ASSUME NEW poll \in Polls
    PROVE  SoundVerdict(poll, NoVerdict) /\ SoundVerdict(poll, Failed)
           /\ \A s : SoundVerdict(poll, [NoVerdict EXCEPT !.scores = s])
<1>1. Cardinality({}) <= Seats(poll)
    BY SeatsAre, FS_EmptySet
<1> QED
    BY <1>1 DEF SoundVerdict, NoVerdict, Failed

\* A verdict that decides each proposal once and fills no more than the seats is sound.
LEMMA VerdictSound ==
    ASSUME NEW poll \in Polls, NEW A \in SUBSET poll.proposals, NEW B \in SUBSET poll.proposals,
           A \cap B = {}, Cardinality(A) <= Seats(poll)
    PROVE  SoundVerdict(poll, Verdict(A, B))
    BY DEF SoundVerdict, Verdict, NoVerdict

\* One proposal is not both approved and denied.
LEMMA SimpleSound ==
    ASSUME NEW poll \in Polls, poll.method = "simple", SimpleStart(poll),
           NEW counter, Tally(counter), NEW r \in SimpleResult(poll, counter)
    PROVE  SoundVerdict(poll, r)
<1> DEFINE pk == CHOOSE q \in poll.proposals : TRUE
           yes == Sum(counter, {b \in DOMAIN counter : b = "yes"})
           no == Sum(counter, {b \in DOMAIN counter : b = "no"})
<1>1. pk \in poll.proposals
  <2>1. poll.proposals # {}
    BY FS_EmptySet DEF SimpleStart, Size
  <2> QED
    BY <2>1
<1>2. r = YesNo(yes, no, pk)
    BY SumIs DEF SimpleResult, Count
<1>3. yes \in Nat /\ no \in Nat
    BY SumRule DEF Tally
<1> HIDE DEF pk, yes, no
<1> DEFINE A == IF yes > no THEN {pk} ELSE {}
           B == IF yes < no THEN {pk} ELSE {}
<1>4. A \in SUBSET poll.proposals /\ B \in SUBSET poll.proposals /\ A \cap B = {}
    BY <1>1, <1>3
<1>5. Cardinality(A) <= Seats(poll)
  <2>1. Cardinality(A) \in Nat /\ Cardinality(A) <= 1
    BY AtMostOne
  <2> QED
    BY <2>1, SeatsAre
<1>6. r = Verdict(A, B)
    BY <1>2 DEF YesNo
<1> HIDE DEF A, B
<1> QED
    BY <1>4, <1>5, <1>6, VerdictSound

\* Each of several proposals is approved or denied, not both.
LEMMA CombinedSimpleSound ==
    ASSUME NEW poll \in Polls, poll.method = "combined_simple",
           NEW counter, Tally(counter), NEW r \in CombinedSimpleResult(poll, counter)
    PROVE  SoundVerdict(poll, r)
<1> DEFINE yes(pk) == Sum(counter, {b \in DOMAIN counter : pk \in b.yes})
           no(pk) == Sum(counter, {b \in DOMAIN counter : pk \notin b.yes /\ pk \in b.no})
           A == {pk \in poll.proposals : yes(pk) > no(pk)}
           B == {pk \in poll.proposals : yes(pk) < no(pk)}
<1>1. \A pk : CountVotes(pk, counter) = [yes |-> yes(pk), no |-> no(pk)]
    BY SumIs DEF CountVotes, Count
<1>2. r = Verdict(A, B)
  <2> DEFINE results == [pk \in poll.proposals |-> CountVotes(pk, counter)]
  <2>1. r = Verdict({pk \in poll.proposals : results[pk].yes > results[pk].no},
                    {pk \in poll.proposals : results[pk].yes < results[pk].no})
    BY DEF CombinedSimpleResult
  <2>2. \A pk \in poll.proposals : results[pk].yes = yes(pk) /\ results[pk].no = no(pk)
    <3> HIDE DEF yes, no
    <3> QED
        BY <1>1
  <2> HIDE DEF results, yes, no
  <2>3. /\ {pk \in poll.proposals : results[pk].yes > results[pk].no} = A
        /\ {pk \in poll.proposals : results[pk].yes < results[pk].no} = B
    BY <2>2
  <2> HIDE DEF A, B
  <2> QED
    BY <2>1, <2>3
<1>3. \A pk : yes(pk) \in Nat /\ no(pk) \in Nat
    BY SumRule DEF Tally
<1> HIDE DEF yes, no
<1>4. A \in SUBSET poll.proposals /\ B \in SUBSET poll.proposals /\ A \cap B = {}
    BY <1>3
<1>5. Cardinality(A) <= Seats(poll)
  <2>1. Cardinality(A) <= Cardinality(poll.proposals)
    BY <1>4, PollTypes, FS_Subset
  <2> HIDE DEF A
  <2> QED
    BY <2>1 DEF Seats
<1> HIDE DEF A, B
<1> QED
    BY <1>2, <1>4, <1>5, VerdictSound

\* Of two choices that were cast, one has more votes.
LEMMA MajoritySound ==
    ASSUME NEW poll \in Polls, poll.method = "majority",
           NEW counter, Tally(counter), DOMAIN counter \subseteq poll.proposals,
           NEW r \in MajorityResult(poll, counter)
    PROVE  SoundVerdict(poll, r)
<1> DEFINE chosen == DOMAIN counter
           more == {q \in chosen : \A o \in chosen \ {q} : counter[q] > counter[o]}
<1>1. CASE r \in {NoVerdict, Failed}
    BY <1>1, NoVerdictSound
<1>2. CASE \E other \in poll.proposals \ chosen :
              r = Verdict(chosen, {other}) /\ Cardinality(chosen) = 1
  <2>1. PICK other \in poll.proposals \ chosen :
           r = Verdict(chosen, {other}) /\ Cardinality(chosen) = 1
    BY <1>2
  <2>2. Cardinality(chosen) <= Seats(poll)
    BY <2>1, SeatsAre
  <2>3. chosen \in SUBSET poll.proposals /\ {other} \in SUBSET poll.proposals
        /\ chosen \cap {other} = {}
    OBVIOUS
  <2> HIDE DEF chosen
  <2> QED
    BY <2>1, <2>2, <2>3, VerdictSound
<1>3. CASE r = Verdict(more, chosen \ more)
  <2>1. \A p, q \in more : p = q
    BY DEF Tally, Counts
  <2>2. Cardinality(more) <= Seats(poll)
    <3> HIDE DEF more
    <3>1. Cardinality(more) \in Nat /\ Cardinality(more) <= 1
        BY <2>1, AtMostOne
    <3> QED
        BY <3>1, SeatsAre
  <2>3. more \in SUBSET poll.proposals /\ chosen \ more \in SUBSET poll.proposals
        /\ more \cap (chosen \ more) = {}
    OBVIOUS
  <2> HIDE DEF more, chosen
  <2> QED
    BY <1>3, <2>2, <2>3, VerdictSound
<1> QED
    BY <1>1, <1>2, <1>3 DEF MajorityResult

\* One option wins, and is approved when it is a proposal.
LEMMA SchulzeSound ==
    ASSUME NEW poll \in Polls, poll.method = "schulze",
           NEW counter, RatedOptions(counter) \subseteq SchulzeOptions(poll),
           NEW r \in SchulzeResult(poll, counter)
    PROVE  SoundVerdict(poll, r)
<1>1. PICK winner \in SchulzeWinners(counter) : r = SchulzeVerdict(winner, counter)
    BY DEF SchulzeResult
<1>2. winner \in RatedOptions(counter)
    BY DEF SchulzeWinners
<1> DEFINE A == {winner} \ {Deny}
           B == RatedOptions(counter) \ {Deny, winner}
<1>3. A \in SUBSET poll.proposals /\ B \in SUBSET poll.proposals /\ A \cap B = {}
    BY <1>2 DEF SchulzeOptions
<1>4. Cardinality(A) <= Seats(poll)
  <2>1. Cardinality(A) \in Nat /\ Cardinality(A) <= 1
    BY AtMostOne
  <2> QED
    BY <2>1, SeatsAre
<1>5. r = Verdict(A, B)
    BY <1>1 DEF SchulzeVerdict
<1> HIDE DEF A, B
<1> QED
    BY <1>3, <1>4, <1>5, VerdictSound

-----------------------------------------------------------------------------
(* Rounds                                                                  *)

\* What holds at 0 and from each number to the next holds up to n.
LEMMA Upwards ==
    ASSUME NEW n \in Nat, NEW P, 0 \in P, \A k \in 1..n : k - 1 \in P => k \in P
    PROVE  \A k \in 0..n : k \in P
<1> DEFINE Wrong == {k \in 0..n : k \notin P}
<1>1. SUFFICES ASSUME NEW k \in 0..n, k \notin P PROVE FALSE
    OBVIOUS
<1>2. PICK l \in Wrong : \A m \in Wrong : l <= m
  <2>1. Wrong \in SUBSET Nat /\ Wrong # {}
    BY <1>1
  <2> HIDE DEF Wrong
  <2> QED
    BY <2>1, LeastNumber
<1>3. l \in 1..n
    BY <1>2
<1>4. l - 1 \in 0..n /\ l - 1 \notin Wrong
    BY <1>2, <1>3
<1> QED
    BY <1>2, <1>3, <1>4

\* The greatest of some numbers up to n is one of them.
LEMMA GreatestIs ==
    ASSUME NEW n \in Nat, NEW s \in SUBSET (1..n), s # {}
    PROVE  Max(s) \in s /\ \A x \in s : x <= Max(s)
<1> DEFINE below == {n - x : x \in s}
<1>1. PICK l \in below : \A m \in below : l <= m
  <2>1. below \in SUBSET Nat
    OBVIOUS
  <2>2. PICK x \in s : TRUE
    OBVIOUS
  <2>3. n - x \in below
    OBVIOUS
  <2> HIDE DEF below
  <2> QED
    BY <2>1, <2>3, LeastNumber
<1>2. PICK x \in s : l = n - x
    BY <1>1
<1>3. \A y \in s : x >= y
  <2> SUFFICES ASSUME NEW y \in s PROVE x >= y
    OBVIOUS
  <2>1. n - x <= n - y
    BY <1>1, <1>2
  <2> QED
    BY <2>1
<1>4. Max(s) \in s /\ \A y \in s : Max(s) >= y
    BY <1>3 DEF Max
<1> QED
    BY <1>4

\* One step of FoldLeft over the numbers up to n, and h is what it makes of each
\* set of them.
RoundStep(F, base, h, s) == IF s = {} THEN base ELSE F[<<Max(s), h[s \ {Max(s)}]>>]
IsRounds(F, base, n, h) == h = [s \in SUBSET (1..n) |-> RoundStep(F, base, h, s)]

\* The recursion of FoldLeft has a solution.
LEMMA RoundsExist ==
    ASSUME NEW n \in Nat, NEW D, NEW base \in D, NEW F \in [(1..n) \X D -> D]
    PROVE  \E h : IsRounds(F, base, n, h) /\ \A s \in SUBSET (1..n) : h[s] \in D
<1> DEFINE S == 1..n
           C == [s \in SUBSET S |-> Max(s)]
<1>1. Chooses(C, S) /\ IsFiniteSet(S)
  <2>1. IsFiniteSet(S)
    BY FS_Interval
  <2>2. \A s \in SUBSET S : s # {} => Max(s) \in s
    BY GreatestIs
  <2> QED
    BY <2>1, <2>2 DEF Chooses
<1>2. PICK h : IsFold(F, base, C, S, h)
  <2> HIDE DEF C, S
  <2> QED
    BY <1>1, FoldExists
<1>3. \A s \in SUBSET S : h[s] \in D
  <2> HIDE DEF C, S
  <2>1. F \in [S \X D -> D]
    BY DEF S
  <2> QED
    BY <1>1, <1>2, <2>1, FoldType
<1>4. \A s \in SUBSET S : FoldStep(F, base, C, h, s) = RoundStep(F, base, h, s)
    BY DEF FoldStep, RoundStep
<1> HIDE DEF C
<1>5. h = [s \in SUBSET S |-> RoundStep(F, base, h, s)]
    BY <1>2, <1>4 DEF IsFold
<1> QED
    BY <1>3, <1>5 DEF IsRounds

\* The numbers up to k, and the one that FoldLeft takes first.
LEMMA UpTo ==
    ASSUME NEW n \in Nat
    PROVE  /\ 1..0 = {} /\ 1..n \in SUBSET (1..n)
           /\ \A k \in 1..n : /\ 1..k \in SUBSET (1..n) /\ 1..k # {}
                              /\ Max(1..k) = k /\ (1..k) \ {k} = 1..(k-1)
<1>1. ASSUME NEW k \in 1..n
      PROVE  /\ 1..k \in SUBSET (1..n) /\ 1..k # {}
             /\ Max(1..k) = k /\ (1..k) \ {k} = 1..(k-1)
  <2>1. 1..k \in SUBSET (1..n) /\ k \in 1..k /\ k \in Nat
    OBVIOUS
  <2>2. 1..k # {} /\ 1..k \in SUBSET (1..k)
    BY <2>1
  <2>3. Max(1..k) \in 1..k /\ k <= Max(1..k)
    BY <2>1, <2>2, GreatestIs
  <2>4. Max(1..k) = k
    BY <2>1, <2>3
  <2>5. (1..k) \ {k} = 1..(k-1)
    OBVIOUS
  <2> QED
    BY <2>1, <2>2, <2>4, <2>5
<1> QED
    BY <1>1

\* The elements of a sequence are no more than it is long.
LEMMA FewElements ==
    ASSUME NEW S, NEW s \in Seq(S)
    PROVE  IsFiniteSet(ToSet(s)) /\ Cardinality(ToSet(s)) <= Len(s) /\ ToSet(s) \subseteq S
<1> DEFINE f == [i \in 1..Len(s) |-> s[i]]
<1>1. DOMAIN s = 1..Len(s) /\ Len(s) \in Nat /\ \A i \in 1..Len(s) : s[i] \in S
    OBVIOUS
<1>2. f \in Surjection(1..Len(s), ToSet(s))
    BY <1>1 DEF ToSet, Surjection
<1>3. IsFiniteSet(1..Len(s)) /\ Cardinality(1..Len(s)) = Len(s)
  <2>1. 1 \in Int /\ Len(s) \in Int /\ (IF 1 > Len(s) THEN 0 ELSE Len(s) - 1 + 1) = Len(s)
    BY <1>1
  <2> QED
    BY <2>1, FS_Interval
<1>4. ToSet(s) \subseteq S
    BY <1>1 DEF ToSet
<1> HIDE DEF f
<1> QED
    BY <1>2, <1>3, <1>4, FS_Surjection

\* The ballots without some options rate the others.
LEMMA OptionsLeft ==
    ASSUME NEW counter, NEW gone
    PROVE  RatedOptions(WithoutElected(counter, gone)) = RatedOptions(counter) \ gone
<1> DEFINE rest(b) == [c \in DOMAIN b \ gone |-> b[c]]
           left == WithoutElected(counter, gone)
<1>1. DOMAIN left = {rest(b) : b \in DOMAIN counter}
    BY DEF WithoutElected
<1>2. \A b : DOMAIN rest(b) = DOMAIN b \ gone
    OBVIOUS
<1> HIDE DEF left, rest
<1>3. UNION {DOMAIN b : b \in DOMAIN left} = (UNION {DOMAIN b : b \in DOMAIN counter}) \ gone
  <2>1. ASSUME NEW c \in UNION {DOMAIN b : b \in DOMAIN left}
        PROVE  c \in (UNION {DOMAIN b : b \in DOMAIN counter}) \ gone
    <3>1. PICK ballot \in DOMAIN counter : c \in DOMAIN rest(ballot)
        BY <1>1
    <3>2. c \in DOMAIN ballot /\ c \notin gone
        BY <1>2, <3>1
    <3>3. DOMAIN ballot \in {DOMAIN b : b \in DOMAIN counter}
        BY <3>1
    <3> QED
        BY <3>2, <3>3
  <2>2. ASSUME NEW c \in (UNION {DOMAIN b : b \in DOMAIN counter}) \ gone
        PROVE  c \in UNION {DOMAIN b : b \in DOMAIN left}
    <3>1. PICK b \in DOMAIN counter : c \in DOMAIN b
        BY <2>2
    <3>2. rest(b) \in DOMAIN left /\ c \in DOMAIN rest(b)
        BY <1>1, <1>2, <2>2, <3>1
    <3> QED
        BY <3>2
  <2> QED
    BY <2>1, <2>2
<1> QED
    BY <1>3 DEF RatedOptions, left

\* The elections of one more round are those of the round before, with a winner more
\* or with the option to deny among them.
LEMMA OneMoreRound ==
    ASSUME NEW poll, NEW counter, NEW E \in SUBSET Seq(RatedOptions(counter)),
           NEW r \in SchulzeRound(poll, counter, E)
    PROVE  \/ r \in E /\ poll.deny /\ Contains(r, Deny)
           \/ \E rounds \in E :
                 \E w \in SchulzeWinners(WithoutElected(counter, ToSet(rounds))) :
                    /\ ~(poll.deny /\ Contains(rounds, Deny))
                    /\ r = Append(rounds, w) /\ w \in RatedOptions(counter) \ ToSet(rounds)
<1>1. PICK rounds \in E :
         r \in IF poll.deny /\ Contains(rounds, Deny) THEN {rounds}
               ELSE {Append(rounds, w) :
                        w \in SchulzeWinners(WithoutElected(counter, ToSet(rounds)))}
    BY DEF SchulzeRound
<1>2. CASE poll.deny /\ Contains(rounds, Deny)
    BY <1>1, <1>2
<1>3. CASE ~(poll.deny /\ Contains(rounds, Deny))
  <2>1. PICK w \in SchulzeWinners(WithoutElected(counter, ToSet(rounds))) : r = Append(rounds, w)
    BY <1>1, <1>3
  <2>2. w \in RatedOptions(WithoutElected(counter, ToSet(rounds)))
    BY DEF SchulzeWinners
  <2>3. RatedOptions(WithoutElected(counter, ToSet(rounds)))
           \subseteq RatedOptions(counter) \ ToSet(rounds)
    BY OptionsLeft
  <2> QED
    BY <1>3, <2>1, <2>2, <2>3
<1> QED
    BY <1>2, <1>3

\* The possible elections after each round.
LEMMA SchulzeRoundsAre ==
    ASSUME NEW poll, RoundsToDo(poll) \in Nat, NEW counter
    PROVE  \E e : /\ e[0] = {<<>>}
                  /\ \A k \in 1..RoundsToDo(poll) : e[k] = SchulzeRound(poll, counter, e[k-1])
                  /\ \A k \in 0..RoundsToDo(poll) : e[k] \in SUBSET Seq(RatedOptions(counter))
                  /\ e[RoundsToDo(poll)] = RepeatedSchulzeRounds(poll, counter)
<1> DEFINE n == RoundsToDo(poll)
           D == SUBSET Seq(RatedOptions(counter))
           base == {<<>>}
           F == [p \in (1..n) \X D |-> SchulzeRound(poll, counter, p[2])]
           step(h, s) == IF s = {} THEN base ELSE SchulzeRound(poll, counter, h[s \ {Max(s)}])
           rec(h) == h = [s \in SUBSET (1..n) |-> step(h, s)]
<1>1. base \in D
  <2>1. <<>> \in Seq(RatedOptions(counter))
    OBVIOUS
  <2> QED
    BY <2>1
<1>2. F \in [(1..n) \X D -> D]
  <2>1. ASSUME NEW E \in D, NEW r \in SchulzeRound(poll, counter, E)
        PROVE  r \in Seq(RatedOptions(counter))
    <3>1. CASE r \in E
        BY <3>1
    <3>2. ASSUME NEW rounds \in E, NEW w \in RatedOptions(counter), r = Append(rounds, w)
          PROVE  r \in Seq(RatedOptions(counter))
        <4>1. rounds \in Seq(RatedOptions(counter))
            OBVIOUS
        <4> QED
            BY <3>2, <4>1
    <3> QED
        BY <3>1, <3>2, OneMoreRound
  <2>2. \A E \in D : SchulzeRound(poll, counter, E) \in D
    BY <2>1
  <2> HIDE DEF D, n
  <2> QED
    BY <2>2
<1>3. PICK g : IsRounds(F, base, n, g) /\ \A s \in SUBSET (1..n) : g[s] \in D
  <2> HIDE DEF D, F, base
  <2> QED
    BY <1>1, <1>2, RoundsExist
<1>4. rec(g)
  <2>1. ASSUME NEW s \in SUBSET (1..n) PROVE RoundStep(F, base, g, s) = step(g, s)
    <3>1. CASE s = {}
        BY <3>1 DEF RoundStep
    <3>2. CASE s # {}
        <4>1. Max(s) \in 1..n /\ s \ {Max(s)} \in SUBSET (1..n)
            BY <3>2, GreatestIs
        <4>2. g[s \ {Max(s)}] \in D
            BY <1>3, <4>1
        <4> HIDE DEF D, n
        <4>3. F[<<Max(s), g[s \ {Max(s)}]>>] = SchulzeRound(poll, counter, g[s \ {Max(s)}])
            BY <4>1, <4>2
        <4> HIDE DEF F
        <4> QED
            BY <3>2, <4>3 DEF RoundStep
    <3> QED
        BY <3>1, <3>2
  <2> HIDE DEF F, step, D, n, base
  <2> QED
    BY <1>3, <2>1 DEF IsRounds
<1> DEFINE h == CHOOSE h : rec(h)
<1>5. rec(h)
  <2> HIDE DEF rec
  <2> QED
    BY <1>4
<1>6. RepeatedSchulzeRounds(poll, counter) = h[1..n]
  <2>1. DOMAIN [i \in 1..n |-> i] = 1..n
    OBVIOUS
  <2> QED
    BY <2>1 DEF RepeatedSchulzeRounds, FoldLeft, MapThenFoldSet
<1> HIDE DEF h
<1> DEFINE e == [k \in 0..n |-> h[1..k]]
<1>7. e[0] = base
  <2>1. 1..0 = {} /\ {} \in SUBSET (1..n)
    OBVIOUS
  <2> QED
    BY <1>5, <2>1
<1>8. ASSUME NEW k \in 1..n PROVE e[k] = SchulzeRound(poll, counter, e[k-1])
  <2>1. /\ 1..k \in SUBSET (1..n) /\ 1..k # {}
        /\ Max(1..k) = k /\ (1..k) \ {k} = 1..(k-1)
    BY UpTo
  <2>2. k \in 0..n /\ k - 1 \in 0..n
    OBVIOUS
  <2>3. h[1..k] = step(h, 1..k)
    BY <1>5, <2>1
  <2> HIDE DEF n
  <2> QED
    BY <2>1, <2>2, <2>3
<1>9. \A k \in 0..n : e[k] \in D
  <2> DEFINE P == {k \in 0..n : e[k] \in D}
  <2>1. 0 \in P
    <3>1. 0 \in 0..n
        OBVIOUS
    <3> HIDE DEF e, D, n, base
    <3> QED
        BY <1>1, <1>7, <3>1
  <2>2. ASSUME NEW k \in 1..n, k - 1 \in P PROVE k \in P
    <3>1. F[<<k, e[k-1]>>] \in D /\ F[<<k, e[k-1]>>] = SchulzeRound(poll, counter, e[k-1])
        <4> HIDE DEF D, n, e
        <4>1. <<k, e[k-1]>> \in (1..n) \X D
            BY <2>2 DEF P
        <4>2. F[<<k, e[k-1]>>] = SchulzeRound(poll, counter, e[k-1])
            BY <4>1
        <4> HIDE DEF F
        <4> QED
            BY <1>2, <4>1, <4>2
    <3>2. k \in 0..n /\ e[k] = SchulzeRound(poll, counter, e[k-1])
        BY <1>8
    <3> HIDE DEF D, n, e, F
    <3> QED
        BY <3>1, <3>2
  <2> HIDE DEF P, n
  <2>3. \A k \in 0..n : k \in P
    BY <2>1, <2>2, Upwards DEF n
  <2> QED
    BY <2>3 DEF P
<1>10. e[n] = RepeatedSchulzeRounds(poll, counter)
    BY <1>6
<1> HIDE DEF e
<1> QED
    BY <1>7, <1>8, <1>9, <1>10

\* After k rounds no more than k options were elected.
LEMMA RoundsElectFew ==
    ASSUME NEW poll, NEW n \in Nat, NEW counter, NEW e,
           e[0] = {<<>>},
           \A k \in 1..n : e[k] = SchulzeRound(poll, counter, e[k-1]),
           \A k \in 0..n : e[k] \in SUBSET Seq(RatedOptions(counter))
    PROVE  \A k \in 0..n : \A r \in e[k] : Len(r) <= k
<1> DEFINE P == {k \in 0..n : \A r \in e[k] : Len(r) <= k}
<1>1. 0 \in P
    OBVIOUS
<1>2. ASSUME NEW k \in 1..n, k - 1 \in P PROVE k \in P
  <2>1. k - 1 \in 0..n /\ e[k-1] \in SUBSET Seq(RatedOptions(counter))
    OBVIOUS
  <2>2. ASSUME NEW r \in e[k] PROVE Len(r) <= k
    <3>1. r \in SchulzeRound(poll, counter, e[k-1])
        OBVIOUS
    <3>2. CASE r \in e[k-1]
        <4>1. r \in Seq(RatedOptions(counter)) /\ Len(r) <= k - 1
            BY <1>2, <2>1, <3>2
        <4>2. Len(r) \in Nat
            BY <4>1
        <4> QED
            BY <4>1, <4>2
    <3>3. ASSUME NEW rounds \in e[k-1], NEW w, r = Append(rounds, w) PROVE Len(r) <= k
        <4>1. rounds \in Seq(RatedOptions(counter)) /\ Len(rounds) <= k - 1
            BY <1>2, <2>1
        <4>2. Len(r) = Len(rounds) + 1 /\ Len(rounds) \in Nat
            BY <3>3, <4>1
        <4> QED
            BY <4>1, <4>2
    <3> QED
        BY <2>1, <3>1, <3>2, <3>3, OneMoreRound
  <2>3. k \in 0..n
    OBVIOUS
  <2> QED
    BY <2>2, <2>3
<1> HIDE DEF P
<1>3. \A k \in 0..n : k \in P
    BY <1>1, <1>2, Upwards
<1> QED
    BY <1>3 DEF P

\* The options that win the rounds are approved when they are proposals.
LEMMA RepeatedSchulzeSound ==
    ASSUME NEW poll \in Polls, poll.method = "repeated_schulze",
           NEW counter, RatedOptions(counter) \subseteq SchulzeOptions(poll),
           NEW r \in RepeatedSchulzeResult(poll, counter)
    PROVE  SoundVerdict(poll, r)
<1>1. PICK rounds \in RepeatedSchulzeRounds(poll, counter) :
         r = IF poll.winners = NoWinners THEN NoVerdict
             ELSE Verdict(ToSet(rounds) \ {Deny},
                          RatedOptions(counter) \ ((ToSet(rounds) \ {Deny}) \cup {Deny}))
    BY DEF RepeatedSchulzeResult
<1>2. CASE poll.winners = NoWinners
    BY <1>1, <1>2, NoVerdictSound
<1>3. CASE poll.winners # NoWinners
  <2> DEFINE n == RoundsToDo(poll)
             A == ToSet(rounds) \ {Deny}
             B == RatedOptions(counter) \ (A \cup {Deny})
  <2>1. n \in Nat /\ n = Seats(poll)
    BY <1>3, PollTypes DEF RoundsToDo, Seats
  <2>2. PICK e : /\ e[0] = {<<>>}
                 /\ \A k \in 1..n : e[k] = SchulzeRound(poll, counter, e[k-1])
                 /\ \A k \in 0..n : e[k] \in SUBSET Seq(RatedOptions(counter))
                 /\ e[n] = RepeatedSchulzeRounds(poll, counter)
    BY <2>1, SchulzeRoundsAre
  <2> HIDE DEF n
  <2>3. \A k \in 0..n : \A q \in e[k] : Len(q) <= k
    BY <2>1, <2>2, RoundsElectFew
  <2>4. rounds \in Seq(RatedOptions(counter)) /\ Len(rounds) <= n
    BY <2>1, <2>2, <2>3
  <2>5. /\ IsFiniteSet(ToSet(rounds)) /\ Cardinality(ToSet(rounds)) <= Len(rounds)
        /\ ToSet(rounds) \subseteq RatedOptions(counter)
    BY <2>4, FewElements
  <2>6. Cardinality(A) <= Seats(poll)
    <3>1. Cardinality(A) <= Cardinality(ToSet(rounds)) /\ IsFiniteSet(A)
        BY <2>5, FS_Subset
    <3>2. Cardinality(A) \in Nat /\ Cardinality(ToSet(rounds)) \in Nat /\ Len(rounds) \in Nat
        BY <2>4, <2>5, <3>1, FS_CardinalityType
    <3> HIDE DEF A
    <3> QED
        BY <2>1, <2>4, <2>5, <3>1, <3>2
  <2>7. A \in SUBSET poll.proposals /\ B \in SUBSET poll.proposals /\ A \cap B = {}
    BY <2>5 DEF SchulzeOptions
  <2>8. r = Verdict(A, B)
    BY <1>1, <1>3
  <2> HIDE DEF A, B
  <2> QED
    BY <2>6, <2>7, <2>8, VerdictSound
<1> QED
    BY <1>2, <1>3

-----------------------------------------------------------------------------
(* Functions on all subsets that are made from those on subsets with one   *)
(* element less.                                                           *)

IsFallen(F, S, h) == h = [s \in SUBSET S |-> F[<<s, [c \in s |-> h[s \ {c}]]>>]]

\* Two of them are the same where both are defined.
LEMMA FallenAgree ==
    ASSUME NEW S, IsFiniteSet(S), NEW F,
           NEW A \in SUBSET S, NEW f, IsFallen(F, A, f),
           NEW B \in SUBSET S, NEW g, IsFallen(F, B, g)
    PROVE  \A s \in SUBSET (A \cap B) : f[s] = g[s]
<1> DEFINE P == {s \in SUBSET (A \cap B) : f[s] = g[s]}
<1>1. ASSUME NEW s \in SUBSET (A \cap B), \A x \in s : s \ {x} \in P PROVE s \in P
  <2>1. f[s] = F[<<s, [c \in s |-> f[s \ {c}]]>>] /\ g[s] = F[<<s, [c \in s |-> g[s \ {c}]]>>]
    <3>1. s \in SUBSET A /\ s \in SUBSET B
        OBVIOUS
    <3> QED
        BY <3>1 DEF IsFallen
  <2>2. \A c \in s : f[s \ {c}] = g[s \ {c}]
    BY <1>1
  <2>3. [c \in s |-> f[s \ {c}]] = [c \in s |-> g[s \ {c}]]
    BY <2>2
  <2> QED
    BY <2>1, <2>3
<1>2. IsFiniteSet(A \cap B) /\ P \in SUBSET SUBSET (A \cap B)
    BY FS_Subset
<1> HIDE DEF P
<1>3. \A s \in SUBSET (A \cap B) : s \in P
    BY <1>1, <1>2, SetInduction
<1> QED
    BY <1>3 DEF P

\* There is one.
LEMMA FallenExists ==
    ASSUME NEW S, IsFiniteSet(S), NEW F
    PROVE  \E h : IsFallen(F, S, h)
<1> DEFINE P == {s \in SUBSET S : \E h : IsFallen(F, s, h)}
<1>1. ASSUME NEW s \in SUBSET S, \A x \in s : s \ {x} \in P PROVE s \in P
  <2> DEFINE part(x) == CHOOSE f : IsFallen(F, s \ {x}, f)
             out(t) == CHOOSE x \in s \ t : TRUE
             last == F[<<s, [c \in s |-> part(c)[s \ {c}]]>>]
             h == [t \in SUBSET s |-> IF t = s THEN last ELSE part(out(t))[t]]
  <2>1. \A x \in s : IsFallen(F, s \ {x}, part(x))
    BY <1>1
  <2>2. \A x \in s : \A t \in SUBSET (s \ {x}) : h[t] = part(x)[t]
    <3> SUFFICES ASSUME NEW x \in s, NEW t \in SUBSET (s \ {x}) PROVE h[t] = part(x)[t]
        OBVIOUS
    <3>1. t # s /\ out(t) \in s \ t /\ t \in SUBSET s
        OBVIOUS
    <3> DEFINE y == out(t)
    <3>2. IsFallen(F, s \ {x}, part(x)) /\ IsFallen(F, s \ {y}, part(y))
        BY <2>1, <3>1
    <3>3. h[t] = part(y)[t]
        BY <3>1
    <3> HIDE DEF part, h, y, out
    <3>4. s \ {x} \in SUBSET S /\ s \ {y} \in SUBSET S /\ t \in SUBSET ((s \ {x}) \cap (s \ {y}))
        BY <3>1 DEF y
    <3>5. part(x)[t] = part(y)[t]
        BY <3>2, <3>4, FallenAgree
    <3> QED
        BY <3>3, <3>5
  <2>3. ASSUME NEW t \in SUBSET s PROVE h[t] = F[<<t, [c \in t |-> h[t \ {c}]]>>]
    <3>1. CASE t = s
        <4>1. \A c \in s : h[s \ {c}] = part(c)[s \ {c}]
            BY <2>2
        <4>2. h[s] = last
            OBVIOUS
        <4> HIDE DEF part, h
        <4>3. [c \in s |-> part(c)[s \ {c}]] = [c \in s |-> h[s \ {c}]]
            BY <4>1
        <4> QED
            BY <3>1, <4>2, <4>3
    <3>2. CASE t # s
        <4>1. PICK x \in s : t \in SUBSET (s \ {x})
            BY <3>2
        <4>2. \A u \in SUBSET (s \ {x}) : h[u] = part(x)[u]
            BY <2>2
        <4>3. IsFallen(F, s \ {x}, part(x))
            BY <2>1
        <4> HIDE DEF part, h
        <4>4. part(x)[t] = F[<<t, [c \in t |-> part(x)[t \ {c}]]>>]
            BY <4>1, <4>3 DEF IsFallen
        <4>5. \A c \in t : h[t \ {c}] = part(x)[t \ {c}]
            BY <4>1, <4>2
        <4>6. [c \in t |-> part(x)[t \ {c}]] = [c \in t |-> h[t \ {c}]]
            BY <4>5
        <4> QED
            BY <4>1, <4>2, <4>4, <4>6
    <3> QED
        BY <3>1, <3>2
  <2>4. h = [t \in SUBSET s |-> h[t]]
    OBVIOUS
  <2> HIDE DEF h
  <2>5. IsFallen(F, s, h)
    BY <2>3, <2>4 DEF IsFallen
  <2> QED
    BY <2>5
<1>2. P \in SUBSET SUBSET S
    OBVIOUS
<1> HIDE DEF P
<1>3. S \in P
    BY <1>1, <1>2, SetInduction
<1> QED
    BY <1>3 DEF P

\* Its values are in D when F stays in D.
LEMMA FallenType ==
    ASSUME NEW S, IsFiniteSet(S), NEW D, NEW F, NEW h, IsFallen(F, S, h),
           \A s \in SUBSET S : \A f \in [s -> D] : F[<<s, f>>] \in D
    PROVE  \A s \in SUBSET S : h[s] \in D
<1> DEFINE P == {s \in SUBSET S : h[s] \in D}
<1>1. ASSUME NEW s \in SUBSET S, \A x \in s : s \ {x} \in P PROVE s \in P
  <2>1. h[s] = F[<<s, [c \in s |-> h[s \ {c}]]>>]
    BY DEF IsFallen
  <2>2. [c \in s |-> h[s \ {c}]] \in [s -> D]
    BY <1>1
  <2> QED
    BY <2>1, <2>2
<1>2. P \in SUBSET SUBSET S
    OBVIOUS
<1> HIDE DEF P
<1>3. \A s \in SUBSET S : s \in P
    BY <1>1, <1>2, SetInduction
<1> QED
    BY <1>3 DEF P

-----------------------------------------------------------------------------
(* Instant runoff                                                          *)

\* The ballots that have c first among those who are standing.
HaveFirst(counter, standing, c) ==
    {b \in DOMAIN counter : LET left == {i \in DOMAIN b : b[i] \in standing} IN
                            left # {} /\ b[Min(left)] = c}

\* First preferences are a sum over ballots.
LEMMA FirstIs ==
    ASSUME NEW counter, NEW standing, NEW c
    PROVE  FirstPreferences(counter, standing, c) = Sum(counter, HaveFirst(counter, standing, c))
    BY SumIs DEF FirstPreferences, Count, HaveFirst

\* So are the ballots.
LEMMA BallotCountIs ==
    ASSUME NEW counter
    PROVE  BallotCount(counter) = Sum(counter, DOMAIN counter)
<1>1. {b \in DOMAIN counter : TRUE} = DOMAIN counter
    OBVIOUS
<1> QED
    BY <1>1, SumIs DEF BallotCount, Count

\* One round of instant runoff, and what comes of it when f is what comes of
\* the rounds after each of those standing has left.
Quota(counter) == BallotCount(counter) \div 2 + 1
OverQuota(counter, standing) ==
    {c \in standing : FirstPreferences(counter, standing, c) >= Quota(counter)}
FewestFirst(counter, standing) ==
    {c \in standing : \A d \in standing :
        FirstPreferences(counter, standing, c) <= FirstPreferences(counter, standing, d)}
Runoff(poll, counter, standing, f) ==
    CASE OverQuota(counter, standing) # {} -> {OverQuota(counter, standing)}
      [] Cardinality(standing) <= 1 -> {{}}
      [] Cardinality(FewestFirst(counter, standing)) > 1 /\ ~poll.allow_random -> {{}}
      [] OTHER -> UNION {f[c] : c \in FewestFirst(counter, standing)}

\* Only one proposal is over the quota.
LEMMA OneOverQuota ==
    ASSUME NEW counter, Tally(counter), NEW standing
    PROVE  \A c, d \in OverQuota(counter, standing) : c = d
<1> SUFFICES ASSUME NEW c \in OverQuota(counter, standing), NEW d \in OverQuota(counter, standing),
                    c # d
             PROVE  FALSE
    OBVIOUS
<1> DEFINE A == HaveFirst(counter, standing, c)
           B == HaveFirst(counter, standing, d)
           n == Sum(counter, DOMAIN counter)
<1>1. A \cap B = {} /\ A \cup B \in SUBSET DOMAIN counter
    BY DEF HaveFirst
<1>2. Sum(counter, A) >= Quota(counter) /\ Sum(counter, B) >= Quota(counter)
    BY FirstIs DEF OverQuota
<1> HIDE DEF A, B
<1>3. IsFiniteSet(A) /\ IsFiniteSet(B) /\ Counts(counter, A \cup B) /\ Counts(counter, DOMAIN counter)
  <2>1. A \in SUBSET DOMAIN counter /\ B \in SUBSET DOMAIN counter /\ IsFiniteSet(DOMAIN counter)
    BY <1>1 DEF Tally
  <2>2. IsFiniteSet(A) /\ IsFiniteSet(B)
    BY <2>1, FS_Subset
  <2> QED
    BY <1>1, <2>2 DEF Tally, Counts
<1>4. Sum(counter, A \cup B) = Sum(counter, A) + Sum(counter, B)
    BY <1>1, <1>3, SumUnion
<1>5. Sum(counter, A \cup B) <= n
    BY <1>1, <1>3, SumSubset DEF Tally
<1>6. Sum(counter, A) \in Nat /\ Sum(counter, B) \in Nat /\ n \in Nat
  <2>1. A \in SUBSET DOMAIN counter /\ B \in SUBSET DOMAIN counter
        /\ DOMAIN counter \in SUBSET DOMAIN counter
    BY <1>1
  <2> QED
    BY <1>3, <2>1, SumRule DEF Tally
<1>7. Quota(counter) = n \div 2 + 1
    BY BallotCountIs DEF Quota
<1> HIDE DEF n
<1>8. 2 * (n \div 2 + 1) > n
    BY <1>6
<1>9. n \div 2 \in Nat
    BY <1>6
<1> QED
    BY <1>2, <1>4, <1>5, <1>6, <1>7, <1>8, <1>9

\* Who may be elected: nobody, or one of those who are standing.
Electable(candidates) ==
    {E \in SUBSET SUBSET candidates : \A won \in E : \A c, d \in won : c = d}

\* What comes of the election for every set of proposals that are left.
Outcomes(poll, counter, candidates, h) ==
    /\ h = [s \in SUBSET candidates |-> Runoff(poll, counter, s, [c \in s |-> h[s \ {c}]])]
    /\ \A s \in SUBSET candidates : h[s] \in Electable(candidates)
    /\ IRVElected(poll, counter, candidates) = h[candidates]

\* The election is decided round by round, and elects one at most.
LEMMA RunoffIs ==
    ASSUME NEW poll, NEW counter, Tally(counter), NEW candidates, IsFiniteSet(candidates)
    PROVE  \E h : Outcomes(poll, counter, candidates, h)
<1> DEFINE D == Electable(candidates)
           Dom == {q \in (SUBSET candidates) \X UNION {[s -> D] : s \in SUBSET candidates} :
                      q[2] \in [q[1] -> D]}
           F == [q \in Dom |-> Runoff(poll, counter, q[1], q[2])]
           over(s) == OverQuota(counter, s)
           last(s) == FewestFirst(counter, s)
           step(h, s) == CASE over(s) # {} -> {over(s)}
                           [] Cardinality(s) <= 1 -> {{}}
                           [] Cardinality(last(s)) > 1 /\ ~poll.allow_random -> {{}}
                           [] OTHER -> UNION {h[s \ {c}] : c \in last(s)}
           rec(h) == h = [s \in SUBSET candidates |-> step(h, s)]
<1>1. ASSUME NEW s \in SUBSET candidates, NEW f \in [s -> D]
      PROVE  F[<<s, f>>] = Runoff(poll, counter, s, f)
  <2>1. <<s, f>> \in Dom
    OBVIOUS
  <2> HIDE DEF Dom, D
  <2> QED
    BY <2>1
<1>2. ASSUME NEW s \in SUBSET candidates, NEW f \in [s -> D]
      PROVE  Runoff(poll, counter, s, f) \in D
  <2>1. {over(s)} \in D
    <3>1. \A c, d \in over(s) : c = d
        BY OneOverQuota
    <3>2. over(s) \in SUBSET candidates
        BY DEF OverQuota
    <3> HIDE DEF over
    <3> QED
        BY <3>1, <3>2 DEF Electable
  <2>2. {{}} \in D
    BY DEF Electable
  <2>3. UNION {f[c] : c \in last(s)} \in D
    <3>1. \A c \in last(s) : f[c] \in D
        BY DEF FewestFirst
    <3> HIDE DEF last
    <3> QED
        BY <3>1 DEF Electable
  <2> HIDE DEF D
  <2> QED
    BY <2>1, <2>2, <2>3 DEF Runoff
<1>3. PICK g : IsFallen(F, candidates, g)
  <2> HIDE DEF F
  <2> QED
    BY FallenExists
<1>4. \A s \in SUBSET candidates : \A f \in [s -> D] : F[<<s, f>>] \in D
    BY <1>1, <1>2
<1> HIDE DEF F
<1>5. \A s \in SUBSET candidates : g[s] \in D
  <2> HIDE DEF D
  <2> QED
    BY <1>3, <1>4, FallenType
<1>6. rec(g)
  <2>1. ASSUME NEW s \in SUBSET candidates
        PROVE  F[<<s, [c \in s |-> g[s \ {c}]]>>] = step(g, s)
    <3> DEFINE f == [c \in s |-> g[s \ {c}]]
    <3>1. f \in [s -> D]
        BY <1>5
    <3>2. F[<<s, f>>] = Runoff(poll, counter, s, f)
        BY <1>1, <3>1
    <3>3. {f[c] : c \in last(s)} = {g[s \ {c}] : c \in last(s)}
        BY DEF FewestFirst
    <3> HIDE DEF f
    <3>4. Runoff(poll, counter, s, f) = step(g, s)
        BY <3>3 DEF Runoff
    <3> QED
        BY <3>2, <3>4 DEF f
  <2> HIDE DEF step
  <2> QED
    BY <1>3, <2>1 DEF IsFallen
<1> DEFINE h == CHOOSE h : rec(h)
<1>7. rec(h)
  <2> HIDE DEF rec
  <2> QED
    BY <1>6
<1>8. IRVElected(poll, counter, candidates) = h[candidates]
    BY DEF IRVElected, OverQuota, FewestFirst, Quota
<1> HIDE DEF h
<1> DEFINE P == {s \in SUBSET candidates : h[s] \in D}
<1>9. ASSUME NEW s \in SUBSET candidates
      PROVE  Runoff(poll, counter, s, [c \in s |-> h[s \ {c}]]) = h[s]
  <2> DEFINE f == [c \in s |-> h[s \ {c}]]
  <2>1. {f[c] : c \in last(s)} = {h[s \ {c}] : c \in last(s)}
    BY DEF FewestFirst
  <2> HIDE DEF f
  <2>2. Runoff(poll, counter, s, f) = step(h, s)
    BY <2>1 DEF Runoff
  <2>3. h[s] = step(h, s)
    <3> HIDE DEF step
    <3> QED
        BY <1>7
  <2> HIDE DEF step
  <2> QED
    BY <2>2, <2>3 DEF f
<1>10. \A s \in SUBSET candidates : h[s] \in D
  <2>1. ASSUME NEW s \in SUBSET candidates, \A x \in s : s \ {x} \in P PROVE s \in P
    <3>1. [c \in s |-> h[s \ {c}]] \in [s -> D]
        BY <2>1
    <3> QED
        BY <1>2, <1>9, <3>1
  <2>2. P \in SUBSET SUBSET candidates
    OBVIOUS
  <2> HIDE DEF P
  <2>3. \A s \in SUBSET candidates : s \in P
    BY <2>1, <2>2, SetInduction
  <2> QED
    BY <2>3 DEF P
<1>11. h = [s \in SUBSET candidates |-> Runoff(poll, counter, s, [c \in s |-> h[s \ {c}]])]
  <2> HIDE DEF step
  <2> QED
    BY <1>7, <1>9
<1> QED
    BY <1>8, <1>10, <1>11 DEF Outcomes

\* Whoever an instant runoff elects is standing, and alone.
LEMMA ElectedIs ==
    ASSUME NEW poll, NEW counter, Tally(counter), NEW candidates, IsFiniteSet(candidates),
           NEW won \in IRVElected(poll, counter, candidates)
    PROVE  won \in SUBSET candidates /\ IsFiniteSet(won) /\ Cardinality(won) <= 1
<1>1. IRVElected(poll, counter, candidates) \in Electable(candidates)
  <2>1. PICK h : Outcomes(poll, counter, candidates, h)
    BY RunoffIs
  <2>2. candidates \in SUBSET candidates
    OBVIOUS
  <2> QED
    BY <2>1, <2>2 DEF Outcomes
<1>2. won \in SUBSET candidates /\ \A c, d \in won : c = d
    BY <1>1 DEF Electable
<1> QED
    BY <1>2, AtMostOne, FS_Subset

\* Who may be elected to one seat more when won are elected.
NextSeat(poll, counter, won) ==
    {won \cup next : next \in IRVElected(poll, counter, poll.proposals \ won)}

\* The elections of one more seat are those of the seats before, with the winner
\* of an instant runoff among the others.
LEMMA OneMoreSeat ==
    ASSUME NEW poll, NEW counter, NEW E, NEW r \in RepeatedIRVRound(poll, counter, E)
    PROVE  \E won \in E : r \in NextSeat(poll, counter, won)
<1>1. r \in UNION {NextSeat(poll, counter, won) : won \in E}
    BY DEF RepeatedIRVRound, NextSeat
<1> QED
    BY <1>1

\* The possible elections after each seat.
LEMMA RepeatedRunoffIs ==
    ASSUME NEW poll, poll.winners \in Nat, IsFiniteSet(poll.proposals),
           NEW counter, Tally(counter)
    PROVE  \E e : /\ e[0] = {{}}
                  /\ \A k \in 1..poll.winners : e[k] = RepeatedIRVRound(poll, counter, e[k-1])
                  /\ \A k \in 0..poll.winners : e[k] \in SUBSET SUBSET poll.proposals
                  /\ RepeatedIRVResult(poll, counter) =
                        FinalizeStvResult(poll, counter, e[poll.winners])
<1> DEFINE n == poll.winners
           D == SUBSET SUBSET poll.proposals
           base == {{}}
           F == [p \in (1..n) \X D |-> RepeatedIRVRound(poll, counter, p[2])]
           step(h, s) == IF s = {} THEN base ELSE RepeatedIRVRound(poll, counter, h[s \ {Max(s)}])
           rec(h) == h = [s \in SUBSET (1..n) |-> step(h, s)]
<1>1. base \in D
    OBVIOUS
<1>2. \A E \in D : RepeatedIRVRound(poll, counter, E) \in D
  <2> SUFFICES ASSUME NEW E \in D, NEW r \in RepeatedIRVRound(poll, counter, E)
               PROVE  r \in SUBSET poll.proposals
    OBVIOUS
  <2>1. PICK won \in E : r \in NextSeat(poll, counter, won)
    BY OneMoreSeat
  <2>2. PICK next \in IRVElected(poll, counter, poll.proposals \ won) : r = won \cup next
    BY <2>1 DEF NextSeat
  <2>3. IsFiniteSet(poll.proposals \ won)
    BY FS_Subset
  <2>4. next \in SUBSET (poll.proposals \ won)
    BY <2>3, ElectedIs
  <2> QED
    BY <2>2, <2>4
<1>3. F \in [(1..n) \X D -> D]
  <2> HIDE DEF D, n
  <2> QED
    BY <1>2
<1>4. PICK g : IsRounds(F, base, n, g) /\ \A s \in SUBSET (1..n) : g[s] \in D
  <2> HIDE DEF D, F, base
  <2> QED
    BY <1>1, <1>3, RoundsExist
<1>5. rec(g)
  <2>1. ASSUME NEW s \in SUBSET (1..n) PROVE RoundStep(F, base, g, s) = step(g, s)
    <3>1. CASE s = {}
        BY <3>1 DEF RoundStep
    <3>2. CASE s # {}
        <4>1. Max(s) \in 1..n /\ s \ {Max(s)} \in SUBSET (1..n)
            BY <3>2, GreatestIs
        <4>2. g[s \ {Max(s)}] \in D
            BY <1>4, <4>1
        <4> HIDE DEF D, n
        <4>3. F[<<Max(s), g[s \ {Max(s)}]>>] = RepeatedIRVRound(poll, counter, g[s \ {Max(s)}])
            BY <4>1, <4>2
        <4> HIDE DEF F
        <4> QED
            BY <3>2, <4>3 DEF RoundStep
    <3> QED
        BY <3>1, <3>2
  <2> HIDE DEF F, step, D, n, base
  <2> QED
    BY <1>4, <2>1 DEF IsRounds
<1> DEFINE h == CHOOSE h : rec(h)
<1>6. rec(h)
  <2> HIDE DEF rec
  <2> QED
    BY <1>5
<1>7. RepeatedIRVResult(poll, counter) = FinalizeStvResult(poll, counter, h[1..n])
  <2>1. DOMAIN [i \in 1..n |-> i] = 1..n
    OBVIOUS
  <2> QED
    BY <2>1 DEF RepeatedIRVResult, FoldLeft, MapThenFoldSet
<1> HIDE DEF h
<1> DEFINE e == [k \in 0..n |-> h[1..k]]
<1>8. e[0] = base
  <2>1. 1..0 = {} /\ {} \in SUBSET (1..n)
    OBVIOUS
  <2> QED
    BY <1>6, <2>1
<1>9. ASSUME NEW k \in 1..n PROVE e[k] = RepeatedIRVRound(poll, counter, e[k-1])
  <2>1. /\ 1..k \in SUBSET (1..n) /\ 1..k # {}
        /\ Max(1..k) = k /\ (1..k) \ {k} = 1..(k-1)
    BY UpTo
  <2>2. k \in 0..n /\ k - 1 \in 0..n
    OBVIOUS
  <2>3. h[1..k] = step(h, 1..k)
    BY <1>6, <2>1
  <2> HIDE DEF n
  <2> QED
    BY <2>1, <2>2, <2>3
<1>10. \A k \in 0..n : e[k] \in D
  <2> DEFINE P == {k \in 0..n : e[k] \in D}
  <2>1. 0 \in P
    <3>1. 0 \in 0..n
        OBVIOUS
    <3> HIDE DEF e, D, n, base
    <3> QED
        BY <1>1, <1>8, <3>1
  <2>2. ASSUME NEW k \in 1..n, k - 1 \in P PROVE k \in P
    <3> HIDE DEF D, e
    <3>1. k \in 0..n /\ e[k] = RepeatedIRVRound(poll, counter, e[k-1]) /\ e[k-1] \in D
        BY <1>9, <2>2
    <3> HIDE DEF n
    <3> QED
        BY <1>2, <3>1
  <2> HIDE DEF P, n
  <2>3. \A k \in 0..n : k \in P
    BY <2>1, <2>2, Upwards DEF n
  <2> QED
    BY <2>3 DEF P
<1>11. RepeatedIRVResult(poll, counter) = FinalizeStvResult(poll, counter, e[n])
    BY <1>7
<1> HIDE DEF e
<1> QED
    BY <1>8, <1>9, <1>10, <1>11

\* After k seats no more than k are elected.
LEMMA RunoffsElectFew ==
    ASSUME NEW poll, NEW n \in Nat, IsFiniteSet(poll.proposals), NEW counter, Tally(counter),
           NEW e, e[0] = {{}},
           \A k \in 1..n : e[k] = RepeatedIRVRound(poll, counter, e[k-1]),
           \A k \in 0..n : e[k] \in SUBSET SUBSET poll.proposals
    PROVE  \A k \in 0..n : \A won \in e[k] : Cardinality(won) <= k
<1> DEFINE P == {k \in 0..n : \A won \in e[k] : Cardinality(won) <= k}
<1>1. 0 \in P
  <2>1. ASSUME NEW won \in e[0] PROVE Cardinality(won) <= 0
    <3>1. won = {}
        OBVIOUS
    <3>2. Cardinality(won) = 0
        BY <3>1, FS_EmptySet
    <3> QED
        BY <3>2
  <2>2. 0 \in 0..n
    OBVIOUS
  <2> QED
    BY <2>1, <2>2
<1>2. ASSUME NEW k \in 1..n, k - 1 \in P PROVE k \in P
  <2>1. k - 1 \in 0..n /\ k \in 0..n /\ e[k-1] \in SUBSET SUBSET poll.proposals
    OBVIOUS
  <2>2. ASSUME NEW won \in e[k] PROVE Cardinality(won) <= k
    <3>1. won \in RepeatedIRVRound(poll, counter, e[k-1])
        OBVIOUS
    <3>2. PICK w \in e[k-1] : won \in NextSeat(poll, counter, w)
        BY <3>1, OneMoreSeat
    <3>3. PICK next \in IRVElected(poll, counter, poll.proposals \ w) : won = w \cup next
        BY <3>2 DEF NextSeat
    <3>4. IsFiniteSet(poll.proposals \ w) /\ IsFiniteSet(w)
        BY <2>1, FS_Subset
    <3>5. next \in SUBSET (poll.proposals \ w) /\ IsFiniteSet(next) /\ Cardinality(next) <= 1
        BY <3>4, ElectedIs
    <3>6. Cardinality(w) <= k - 1
        BY <1>2
    <3>7. Cardinality(won) = Cardinality(w) + Cardinality(next) - Cardinality(w \cap next)
        BY <3>3, <3>4, <3>5, FS_Union
    <3>8. Cardinality(w \cap next) = 0
        <4>1. w \cap next = {}
            BY <3>5
        <4> QED
            BY <4>1, FS_EmptySet
    <3>9. Cardinality(w) \in Nat /\ Cardinality(next) \in Nat
        BY <3>4, <3>5, FS_CardinalityType
    <3>10. Cardinality(won) = Cardinality(w) + Cardinality(next)
        BY <3>7, <3>8, <3>9
    <3> QED
        BY <3>5, <3>6, <3>9, <3>10
  <2> QED
    BY <2>1, <2>2
<1> HIDE DEF P
<1>3. \A k \in 0..n : k \in P
    BY <1>1, <1>2, Upwards
<1> QED
    BY <1>3 DEF P

\* Elections that fill no more than the seats are sound.
LEMMA FinalizeSound ==
    ASSUME NEW poll \in Polls, NEW counter, NEW E \in SUBSET SUBSET poll.proposals,
           \A won \in E : Cardinality(won) <= Seats(poll),
           NEW r \in FinalizeStvResult(poll, counter, E)
    PROVE  SoundVerdict(poll, r)
<1>1. CASE r = Failed
    BY <1>1, NoVerdictSound
<1>2. ASSUME NEW won \in E,
             r = Verdict(won, IF Cardinality(won) = poll.winners THEN poll.proposals \ won ELSE {})
      PROVE  SoundVerdict(poll, r)
  <2> DEFINE B == IF Cardinality(won) = poll.winners THEN poll.proposals \ won ELSE {}
  <2>1. won \in SUBSET poll.proposals /\ B \in SUBSET poll.proposals /\ won \cap B = {}
    OBVIOUS
  <2>2. r = Verdict(won, B)
    BY <1>2
  <2> HIDE DEF B
  <2> QED
    BY <2>1, <2>2, VerdictSound
<1> QED
    BY <1>1, <1>2 DEF FinalizeStvResult

\* No more than one proposal wins a runoff.
LEMMA IRVSound ==
    ASSUME NEW poll \in Polls, poll.method = "irv",
           NEW counter, Tally(counter), NEW r \in IRVResult(poll, counter)
    PROVE  SoundVerdict(poll, r)
<1> DEFINE E == IRVElected(poll, counter, poll.proposals)
<1>1. \A won \in E : won \in SUBSET poll.proposals /\ Cardinality(won) <= Seats(poll)
    BY PollTypes, ElectedIs, SeatsAre
<1>2. r \in FinalizeStvResult(poll, counter, E)
    BY DEF IRVResult
<1> HIDE DEF E
<1>3. E \in SUBSET SUBSET poll.proposals
    BY <1>1
<1> QED
    BY <1>1, <1>2, <1>3, FinalizeSound

\* No more proposals win runoffs than there are seats.
LEMMA RepeatedIRVSound ==
    ASSUME NEW poll \in Polls, poll.method = "repeated_irv",
           NEW counter, Tally(counter), NEW r \in RepeatedIRVResult(poll, counter)
    PROVE  SoundVerdict(poll, r)
<1>1. poll.winners \in Nat /\ Seats(poll) = poll.winners /\ IsFiniteSet(poll.proposals)
    BY PollTypes, AlgorithmsAssumption DEF Seats
<1>2. PICK e : /\ e[0] = {{}}
               /\ \A k \in 1..poll.winners : e[k] = RepeatedIRVRound(poll, counter, e[k-1])
               /\ \A k \in 0..poll.winners : e[k] \in SUBSET SUBSET poll.proposals
               /\ RepeatedIRVResult(poll, counter) =
                     FinalizeStvResult(poll, counter, e[poll.winners])
    BY <1>1, RepeatedRunoffIs
<1>3. \A k \in 0..poll.winners : \A won \in e[k] : Cardinality(won) <= k
    BY <1>1, <1>2, RunoffsElectFew
<1>4. poll.winners \in 0..poll.winners
    BY <1>1
<1> QED
    BY <1>1, <1>2, <1>3, <1>4, FinalizeSound

\* The library fills no more seats than there are.
LEMMA ScottishSTVSound ==
    ASSUME NEW poll \in Polls, poll.method = "scottish_stv",
           NEW counter, NEW r \in ScottishSTVResult(poll, counter)
    PROVE  SoundVerdict(poll, r)
<1> DEFINE E == {won \in SUBSET poll.proposals : Cardinality(won) <= poll.winners}
<1>1. Seats(poll) = poll.winners
    BY DEF Seats
<1>2. r \in FinalizeStvResult(poll, counter, E)
    BY DEF ScottishSTVResult
<1>3. E \in SUBSET SUBSET poll.proposals /\ \A won \in E : Cardinality(won) <= Seats(poll)
    BY <1>1
<1> HIDE DEF E
<1> QED
    BY <1>2, <1>3, FinalizeSound

-----------------------------------------------------------------------------
(* Every method                                                            *)

\* The options that somebody rated are options of the poll.
LEMMA RatedAreOptions ==
    ASSUME NEW poll, poll.method \in {"schulze", "repeated_schulze"},
           NEW counter, DOMAIN counter \subseteq BallotsOf(poll)
    PROVE  RatedOptions(counter) \subseteq SchulzeOptions(poll)
<1>1. BallotsOf(poll) = SchulzeBallots(poll)
    BY DEF BallotsOf
<1>2. ASSUME NEW b \in DOMAIN counter PROVE DOMAIN b \subseteq SchulzeOptions(poll)
  <2>1. PICK rated \in SUBSET SchulzeOptions(poll) : b \in [rated -> 0..poll.stars]
    BY <1>1 DEF SchulzeBallots
  <2> QED
    BY <2>1
<1> QED
    BY <1>2 DEF RatedOptions

\* Every method comes to a sound verdict.
LEMMA ResultSound ==
    ASSUME NEW poll \in Polls, StartCheck(poll),
           NEW counter, Tally(counter), DOMAIN counter \subseteq BallotsOf(poll),
           NEW r \in CalculateResult(poll, counter)
    PROVE  SoundVerdict(poll, r)
<1>1. CASE poll.method = "simple"
    BY <1>1, SimpleSound DEF CalculateResult, StartCheck
<1>2. CASE poll.method = "combined_simple"
    BY <1>2, CombinedSimpleSound DEF CalculateResult
<1>3. CASE poll.method = "majority"
  <2>1. DOMAIN counter \subseteq poll.proposals
    BY <1>3 DEF BallotsOf, MajorityBallots
  <2> QED
    BY <1>3, <2>1, MajoritySound DEF CalculateResult
<1>4. CASE poll.method = "dutt"
  <2>1. r = [NoVerdict EXCEPT !.scores = DuttScores(poll, counter)]
    BY <1>4 DEF CalculateResult, DuttResult
  <2> QED
    BY <2>1, NoVerdictSound
<1>5. CASE poll.method = "schulze"
    BY <1>5, SchulzeSound, RatedAreOptions DEF CalculateResult
<1>6. CASE poll.method = "repeated_schulze"
    BY <1>6, RepeatedSchulzeSound, RatedAreOptions DEF CalculateResult
<1>7. CASE poll.method = "irv"
    BY <1>7, IRVSound DEF CalculateResult
<1>8. CASE poll.method = "repeated_irv"
    BY <1>8, RepeatedIRVSound DEF CalculateResult
<1>9. CASE poll.method = "scottish_stv"
    BY <1>9, ScottishSTVSound DEF CalculateResult
<1> QED
    BY <1>1, <1>2, <1>3, <1>4, <1>5, <1>6, <1>7, <1>8, <1>9, AlgorithmsAssumption

-----------------------------------------------------------------------------
(* The poll that is counted                                                *)

\* A poll that could start is counted, on votes that its voters could cast, and the
\* result is one that its method can come to.
PollTask ==
    /\ task.poll \in Polls /\ StartCheck(task.poll)
    /\ task.weight \in Weights
    /\ task.votes \in [PollVoters -> Countable(task.poll)]
    /\ done => result \in CalculateResult(task.poll, Counter(task.votes, task.weight))

PollsAreCounted == task.kind = "poll" => PollTask

\* It holds of every input,
LEMMA PollsAreCountedInit == TaskInit => PollsAreCounted
<1> SUFFICES ASSUME TaskInit, task.kind = "poll" PROVE PollTask
    BY DEF PollsAreCounted
<1>1. PICK poll \in {p \in Polls : StartCheck(p)}, weight \in Weights :
         task \in [kind : {"poll"}, poll : {poll}, votes : VotesOn(poll, weight),
                   weight : {weight}]
    BY DEF TaskInit
<1>2. task.poll = poll /\ task.weight = weight /\ task.votes \in VotesOn(poll, weight)
    BY <1>1
<1>3. task.votes \in [PollVoters -> Countable(poll)]
    BY <1>2, VotesAre
<1>4. ~done
    BY DEF TaskInit
<1> QED
    BY <1>1, <1>2, <1>3, <1>4 DEF PollTask

\* every step keeps it,
LEMMA PollsAreCountedNext ==
    ASSUME PollsAreCounted, [TaskNext]_taskVars
    PROVE  PollsAreCounted'
<1> SUFFICES ASSUME task'.kind = "poll" PROVE PollTask'
    BY DEF PollsAreCounted
<1>1. CASE CountPoll
    BY <1>1 DEF CountPoll, PollsAreCounted, PollTask
<1>2. CASE PackState \/ CommitTransaction \/ ImportMeeting \/ ImportInviteFile
    BY <1>2 DEF PackState, CommitTransaction, ImportMeeting, ImportInviteFile
<1>3. CASE UNCHANGED taskVars
    BY <1>3 DEF taskVars, PollsAreCounted, PollTask
<1> QED
    BY <1>1, <1>2, <1>3 DEF TaskNext

\* and so it always holds.
LEMMA PollsAreCountedAlways == TaskSpec => []PollsAreCounted
<1>1. PollsAreCounted /\ [TaskNext]_taskVars => PollsAreCounted'
    BY PollsAreCountedNext
<1> QED
    BY <1>1, PollsAreCountedInit, PTL DEF TaskSpec

\* Whatever the votes, their weights and the lots: no proposal is both approved and
\* denied, only the poll's own are decided, and no more are approved than the poll has
\* winners.
THEOREM VerdictsAreSound == TaskSpec => []VerdictIsSound
<1>1. ASSUME PollsAreCounted, Done("poll")
      PROVE  SoundVerdict(task.poll, result)
  <2> DEFINE counter == Counter(task.votes, task.weight)
  <2>1. /\ task.poll \in Polls /\ StartCheck(task.poll)
        /\ result \in CalculateResult(task.poll, counter)
    BY <1>1 DEF PollsAreCounted, PollTask, Done
  <2>2. Tally(counter) /\ DOMAIN counter \subseteq Countable(task.poll)
    BY <1>1, CounterIs DEF PollsAreCounted, PollTask, Done
  <2>3. Countable(task.poll) \subseteq BallotsOf(task.poll)
    BY DEF Countable
  <2> HIDE DEF counter
  <2> QED
    BY <2>1, <2>2, <2>3, ResultSound
<1>2. PollsAreCounted => VerdictIsSound
    BY <1>1 DEF VerdictIsSound, SoundVerdict
<1> QED
    BY <1>2, PollsAreCountedAlways, PTL

-----------------------------------------------------------------------------
(* Strong paths                                                            *)

\* The greater and the lesser of two numbers.
LEMMA MaxOfTwo ==
    ASSUME NEW a \in Nat, NEW b \in Nat
    PROVE  Max({a, b}) = IF a >= b THEN a ELSE b
<1> DEFINE m == IF a >= b THEN a ELSE b
<1>1. m \in {a, b} /\ \A y \in {a, b} : m >= y
    OBVIOUS
<1>2. \A x \in {a, b} : (\A y \in {a, b} : x >= y) => x = m
    OBVIOUS
<1> QED
    BY <1>1, <1>2 DEF Max

LEMMA MinOfTwo ==
    ASSUME NEW a \in Nat, NEW b \in Nat
    PROVE  Min({a, b}) = IF a <= b THEN a ELSE b
<1> DEFINE m == IF a <= b THEN a ELSE b
<1>1. m \in {a, b} /\ \A y \in {a, b} : m =< y
    OBVIOUS
<1>2. \A x \in {a, b} : (\A y \in {a, b} : x =< y) => x = m
    OBVIOUS
<1> QED
    BY <1>1, <1>2 DEF Min

\* The sequence of a finite set is made of its elements.
LEMMA SetToSeqIs ==
    ASSUME NEW S, IsFiniteSet(S)
    PROVE  Cardinality(S) \in Nat /\ SetToSeq(S) \in [1..Cardinality(S) -> S]
<1>1. Cardinality(S) \in Nat /\ ExistsBijection(1..Cardinality(S), S)
    BY FS_CardinalityType
<1>2. PICK f \in Bijection(1..Cardinality(S), S) : TRUE
    BY <1>1 DEF ExistsBijection
<1>3. f \in [1..Cardinality(S) -> S] /\ IsInjective(f)
    BY <1>2 DEF Bijection, Injection, IsInjective
<1> QED
    BY <1>1, <1>3 DEF SetToSeq

\* The links between two candidates, and the paths with those by way of k.
Direct(counter) ==
    LET all == RatedOptions(counter) IN
    [pair \in all \X all |->
        LET p == Prefers(counter, pair[1], pair[2]) IN
        IF p > Prefers(counter, pair[2], pair[1]) THEN p ELSE 0]

Via(all, path, k) ==
    [pair \in all \X all |->
        Max({path[pair], Min({path[<<pair[1], k>>], path[<<k, pair[2]>>]})})]

\* What the links are, and stays so when paths are joined, the strongest paths are.
LEMMA StrongPathsAre ==
    ASSUME NEW counter, IsFiniteSet(RatedOptions(counter)), NEW D, Direct(counter) \in D,
           \A path \in D : \A k \in RatedOptions(counter) : Via(RatedOptions(counter), path, k) \in D
    PROVE  StrongPaths(counter) \in D
<1> DEFINE all == RatedOptions(counter)
           n == Cardinality(all)
           seq == SetToSeq(all)
           base == Direct(counter)
           F == [p \in (1..n) \X D |-> Via(all, p[2], seq[p[1]])]
           step(h, s) == IF s = {} THEN base ELSE Via(all, h[s \ {Max(s)}], seq[Max(s)])
           rec(h) == h = [s \in SUBSET (1..n) |-> step(h, s)]
<1>1. n \in Nat /\ seq \in [1..n -> all]
    BY SetToSeqIs
<1>2. F \in [(1..n) \X D -> D]
  <2> HIDE DEF seq, all, n
  <2> QED
    BY <1>1 DEF all
<1>3. PICK g : IsRounds(F, base, n, g) /\ \A s \in SUBSET (1..n) : g[s] \in D
  <2> HIDE DEF F, base, n
  <2> QED
    BY <1>1, <1>2, RoundsExist DEF base
<1>4. rec(g)
  <2>1. ASSUME NEW s \in SUBSET (1..n) PROVE RoundStep(F, base, g, s) = step(g, s)
    <3>1. CASE s = {}
        BY <3>1 DEF RoundStep
    <3>2. CASE s # {}
        <4> HIDE DEF n, seq, all
        <4>1. Max(s) \in 1..n /\ s \ {Max(s)} \in SUBSET (1..n)
            BY <1>1, <3>2, GreatestIs
        <4>2. g[s \ {Max(s)}] \in D
            BY <1>3, <4>1
        <4>3. F[<<Max(s), g[s \ {Max(s)}]>>] = Via(all, g[s \ {Max(s)}], seq[Max(s)])
            BY <4>1, <4>2
        <4> HIDE DEF F
        <4> QED
            BY <3>2, <4>3 DEF RoundStep
    <3> QED
        BY <3>1, <3>2
  <2> HIDE DEF F, step, n, base
  <2> QED
    BY <1>3, <2>1 DEF IsRounds
<1> DEFINE h == CHOOSE h : rec(h)
<1>5. rec(h)
  <2> HIDE DEF rec
  <2> QED
    BY <1>4
<1>6. StrongPaths(counter) = h[1..n]
  <2>1. DOMAIN seq = 1..n
    BY <1>1
  <2> HIDE DEF n, seq
  <2>2. StrongPaths(counter) =
           FoldLeft(LAMBDA path, k : Via(all, path, k), Direct(counter), seq)
    BY DEF StrongPaths, Via, Direct, seq
  <2> QED
    BY <2>1, <2>2 DEF FoldLeft, MapThenFoldSet
<1> HIDE DEF h
<1> DEFINE P == {k \in 0..n : h[1..k] \in D}
<1>7. 0 \in P
  <2>1. 1..0 = {} /\ {} \in SUBSET (1..n)
    OBVIOUS
  <2>2. h[{}] = base
    <3> HIDE DEF n
    <3> QED
        BY <1>5, <2>1
  <2> HIDE DEF n, base
  <2> QED
    BY <1>1, <2>1, <2>2 DEF base
<1>8. ASSUME NEW k \in 1..n, k - 1 \in P PROVE k \in P
  <2> HIDE DEF n
  <2>1. /\ 1..k \in SUBSET (1..n) /\ 1..k # {}
        /\ Max(1..k) = k /\ (1..k) \ {k} = 1..(k-1)
    BY <1>1, UpTo
  <2>2. h[1..(k-1)] \in D
    BY <1>8
  <2> HIDE DEF P
  <2>3. h[1..k] = step(h, 1..k)
    BY <1>5, <2>1
  <2>4. h[1..k] = Via(all, h[1..(k-1)], seq[k])
    <3> HIDE DEF seq, all
    <3> QED
        BY <2>1, <2>3
  <2>5. seq[k] \in all
    BY <1>1
  <2>6. Via(all, h[1..(k-1)], seq[k]) \in D
    <3> HIDE DEF seq
    <3> QED
        BY <2>2, <2>5
  <2>7. h[1..k] \in D /\ k \in 0..n
    BY <1>1, <2>4, <2>6
  <2> QED
    BY <2>7 DEF P
<1> HIDE DEF P, n
<1>9. \A k \in 0..n : k \in P
    BY <1>1, <1>7, <1>8, Upwards
<1> QED
    BY <1>1, <1>6, <1>9 DEF P

\* The ballots that rate c above d.
RateAbove(counter, c, d) == {b \in DOMAIN counter : Rating(b, c) > Rating(b, d)}

\* Preferences are a sum over ballots, and no more than all of them.
LEMMA PrefersIs ==
    ASSUME NEW counter, Tally(counter), NEW c, NEW d
    PROVE  /\ Prefers(counter, c, d) = Sum(counter, RateAbove(counter, c, d))
           /\ Prefers(counter, c, d) \in Nat
           /\ Sum(counter, DOMAIN counter) \in Nat
           /\ Prefers(counter, c, d) <= Sum(counter, DOMAIN counter)
<1>1. Prefers(counter, c, d) = Sum(counter, RateAbove(counter, c, d))
    BY SumIs DEF Prefers, Count, RateAbove
<1>2. RateAbove(counter, c, d) \in SUBSET DOMAIN counter
    BY DEF RateAbove
<1>3. Sum(counter, RateAbove(counter, c, d)) <= Sum(counter, DOMAIN counter)
    BY <1>2, SumSubset DEF Tally
<1>4. Sum(counter, RateAbove(counter, c, d)) \in Nat
    BY <1>2, SumRule DEF Tally
<1>5. DOMAIN counter \in SUBSET DOMAIN counter
    OBVIOUS
<1>6. Sum(counter, DOMAIN counter) \in Nat
    BY <1>5, SumRule DEF Tally
<1> QED
    BY <1>1, <1>3, <1>4, <1>6

\* Ballots whose ratings can be compared.
Rated(counter) ==
    /\ Tally(counter) /\ IsFiniteSet(RatedOptions(counter))
    /\ \A b \in DOMAIN counter : \A c \in RatedOptions(counter) : Rating(b, c) \in Int

\* The total, and what is left of it without a ballot.
LEMMA TotalIs ==
    ASSUME NEW counter, Tally(counter), NEW b \in DOMAIN counter
    PROVE  /\ counter[b] \in Nat /\ Sum(counter, (DOMAIN counter) \ {b}) \in Nat
           /\ Sum(counter, DOMAIN counter) =
                 counter[b] + Sum(counter, (DOMAIN counter) \ {b})
<1> DEFINE S == DOMAIN counter
<1>1. S \in SUBSET S /\ IsFiniteSet(S) /\ Counts(counter, S)
    BY DEF Tally
<1>2. \A x \in S : /\ counter[x] \in Nat /\ Sum(counter, S \ {x}) \in Nat
                   /\ Sum(counter, S) = counter[x] + Sum(counter, S \ {x})
  <2> HIDE DEF S
  <2> QED
    BY <1>1, SumRule
<1> QED
    BY <1>2

\* Who is preferred by all is preferred on a ballot that counts.
LEMMA AllPrefer ==
    ASSUME NEW counter, Tally(counter), NEW b \in DOMAIN counter, counter[b] > 0, NEW c, NEW d,
           Prefers(counter, c, d) = Sum(counter, DOMAIN counter)
    PROVE  Rating(b, c) > Rating(b, d)
<1> DEFINE S == DOMAIN counter
           A == RateAbove(counter, c, d)
<1>1. SUFFICES ASSUME b \notin A PROVE FALSE
    BY DEF RateAbove
<1>2. A \in SUBSET (S \ {b}) /\ S \ {b} \in SUBSET S
    BY <1>1 DEF RateAbove
<1>3. IsFiniteSet(S \ {b}) /\ Counts(counter, S \ {b})
    BY FS_Subset DEF Tally, Counts
<1>4. Sum(counter, A) <= Sum(counter, S \ {b})
    BY <1>2, <1>3, SumSubset
<1>5. /\ counter[b] \in Nat /\ Sum(counter, S \ {b}) \in Nat
      /\ Sum(counter, S) = counter[b] + Sum(counter, S \ {b})
    BY TotalIs
<1>6. Sum(counter, A) = Sum(counter, S) /\ Sum(counter, A) \in Nat
    BY PrefersIs
<1> HIDE DEF A, S
<1> QED
    BY <1>4, <1>5, <1>6

\* An option that all ballots rate below another one does not win.
LEMMA UnanimousLoses ==
    ASSUME NEW counter, Rated(counter),
           NEW c \in RatedOptions(counter), NEW d \in RatedOptions(counter),
           \A b \in DOMAIN counter : Rating(b, c) > Rating(b, d),
           NEW b0 \in DOMAIN counter, counter[b0] > 0
    PROVE  d \notin SchulzeWinners(counter)
<1> DEFINE all == RatedOptions(counter)
           n == Sum(counter, DOMAIN counter)
           D == {path \in [all \X all -> 0..n] :
                    /\ path[<<c, d>>] = n
                    /\ \A x, y \in all : path[<<x, y>>] = n => Rating(b0, x) > Rating(b0, y)}
<1>1. \A x \in all : Rating(b0, x) \in Int
    BY DEF Rated
<1>2. n \in Nat /\ n > 0
  <2>1. /\ counter[b0] \in Nat /\ Sum(counter, (DOMAIN counter) \ {b0}) \in Nat
        /\ n = counter[b0] + Sum(counter, (DOMAIN counter) \ {b0})
    BY TotalIs DEF Rated
  <2> HIDE DEF n
  <2> QED
    BY <2>1
<1>3. ASSUME NEW x \in all, NEW y \in all
      PROVE  /\ Prefers(counter, x, y) \in 0..n
             /\ Prefers(counter, x, y) = n => Rating(b0, x) > Rating(b0, y)
  <2>1. Prefers(counter, x, y) = n => Rating(b0, x) > Rating(b0, y)
    BY AllPrefer DEF Rated
  <2>2. Prefers(counter, x, y) \in Nat /\ Prefers(counter, x, y) <= n
    BY PrefersIs DEF Rated
  <2> HIDE DEF n
  <2> QED
    BY <1>2, <2>1, <2>2
<1>4. Prefers(counter, c, d) = n
  <2>1. RateAbove(counter, c, d) = DOMAIN counter
    BY DEF RateAbove
  <2> QED
    BY <2>1, PrefersIs DEF Rated
<1>5. Prefers(counter, d, c) # n
  <2>1. Rating(b0, c) > Rating(b0, d) /\ Rating(b0, c) \in Int /\ Rating(b0, d) \in Int
    BY <1>1
  <2> QED
    BY <1>3, <2>1
<1> HIDE DEF n
<1>6. Direct(counter) \in D
  <2> DEFINE path == Direct(counter)
             p(x, y) == Prefers(counter, x, y)
  <2>1. /\ path = [pair \in all \X all |-> path[pair]]
        /\ \A x, y \in all : path[<<x, y>>] = IF p(x, y) > p(y, x) THEN p(x, y) ELSE 0
    BY DEF Direct
  <2>2. \A x, y \in all : p(x, y) \in 0..n /\ (p(x, y) = n => Rating(b0, x) > Rating(b0, y))
    BY <1>3
  <2>3. p(c, d) = n /\ p(d, c) # n
    BY <1>4, <1>5
  <2> HIDE DEF path, p, all, D
  <2>4. ASSUME NEW x \in all, NEW y \in all
        PROVE  /\ path[<<x, y>>] \in 0..n
               /\ path[<<x, y>>] = n => Rating(b0, x) > Rating(b0, y)
    <3>1. path[<<x, y>>] = p(x, y) \/ path[<<x, y>>] = 0
        BY <2>1
    <3>2. p(x, y) \in 0..n /\ (p(x, y) = n => Rating(b0, x) > Rating(b0, y)) /\ 0 \in 0..n
        BY <1>2, <2>2
    <3> QED
        BY <1>2, <3>1, <3>2
  <2>5. path[<<c, d>>] = n
    <3>1. path[<<c, d>>] = IF p(c, d) > p(d, c) THEN p(c, d) ELSE 0
        BY <2>1 DEF all
    <3>2. p(d, c) \in 0..n
        BY <2>2 DEF all
    <3> QED
        BY <1>2, <2>3, <3>1, <3>2
  <2>6. path \in [all \X all -> 0..n]
    BY <2>1, <2>4
  <2> QED
    BY <2>4, <2>5, <2>6 DEF D, path
<1>7. ASSUME NEW path \in D, NEW k \in all PROVE Via(all, path, k) \in D
  <2> DEFINE new == Via(all, path, k)
             short(x, y) == Min({path[<<x, k>>], path[<<k, y>>]})
  <2>1. /\ new = [pair \in all \X all |-> new[pair]]
        /\ \A x, y \in all : new[<<x, y>>] = Max({path[<<x, y>>], short(x, y)})
    BY DEF Via
  <2>2. \A x, y \in all : /\ path[<<x, y>>] \in 0..n
                          /\ path[<<x, y>>] = n => Rating(b0, x) > Rating(b0, y)
    OBVIOUS
  <2>3. path[<<c, d>>] = n
    OBVIOUS
  <2> HIDE DEF new, D
  <2>4. ASSUME NEW x \in all, NEW y \in all
        PROVE  /\ short(x, y) \in 0..n
               /\ short(x, y) = n => Rating(b0, x) > Rating(b0, y)
    <3> DEFINE q == path[<<x, k>>]
               r == path[<<k, y>>]
    <3>1. q \in Nat /\ r \in Nat /\ q \in 0..n /\ r \in 0..n
        BY <1>2, <2>2
    <3>2. short(x, y) = IF q <= r THEN q ELSE r
        BY <3>1, MinOfTwo
    <3>3. q = n => Rating(b0, x) > Rating(b0, k)
        BY <2>2
    <3>4. r = n => Rating(b0, k) > Rating(b0, y)
        BY <2>2
    <3> HIDE DEF q, r, short
    <3> QED
        BY <1>1, <1>2, <3>1, <3>2, <3>3, <3>4
  <2> HIDE DEF short
  <2>5. ASSUME NEW x \in all, NEW y \in all
        PROVE  /\ new[<<x, y>>] \in 0..n
               /\ new[<<x, y>>] = n => Rating(b0, x) > Rating(b0, y)
               /\ path[<<x, y>>] = n => new[<<x, y>>] = n
    <3> DEFINE q == path[<<x, y>>]
               r == short(x, y)
    <3>1. q \in Nat /\ r \in Nat /\ q \in 0..n /\ r \in 0..n
        BY <1>2, <2>2, <2>4
    <3>2. new[<<x, y>>] = IF q >= r THEN q ELSE r
        BY <2>1, <3>1, MaxOfTwo
    <3>3. q = n => Rating(b0, x) > Rating(b0, y)
        BY <2>2
    <3>4. r = n => Rating(b0, x) > Rating(b0, y)
        BY <2>4
    <3> HIDE DEF q, r
    <3> QED
        BY <1>2, <3>1, <3>2, <3>3, <3>4 DEF q
  <2>6. new \in [all \X all -> 0..n]
    <3> HIDE DEF all
    <3> QED
        BY <2>1, <2>5
  <2>7. new[<<c, d>>] = n
    BY <2>3, <2>5
  <2> QED
    BY <2>5, <2>6, <2>7 DEF D, new
<1>8. StrongPaths(counter) \in D
  <2> HIDE DEF D
  <2> QED
    BY <1>6, <1>7, StrongPathsAre DEF Rated
<1>9. SUFFICES ASSUME d \in SchulzeWinners(counter) PROVE FALSE
    OBVIOUS
<1> DEFINE path == StrongPaths(counter)
<1>10. path[<<d, c>>] >= path[<<c, d>>]
    BY <1>9 DEF SchulzeWinners
<1>11. /\ path[<<d, c>>] \in 0..n /\ path[<<c, d>>] = n
       /\ path[<<d, c>>] = n => Rating(b0, d) > Rating(b0, c)
    BY <1>8
<1>12. Rating(b0, c) > Rating(b0, d) /\ Rating(b0, c) \in Int /\ Rating(b0, d) \in Int
    BY <1>1
<1> HIDE DEF path
<1> QED
    BY <1>2, <1>10, <1>11, <1>12

-----------------------------------------------------------------------------
(* Rounds and ratings                                                      *)

\* A sum in which something counts.
LEMMA SumPositive ==
    ASSUME NEW S, IsFiniteSet(S), NEW f, Counts(f, S), NEW s \in SUBSET S, NEW x \in s, f[x] > 0
    PROVE  Sum(f, s) > 0
<1>1. \A y \in s : f[y] \in Nat /\ Sum(f, s \ {y}) \in Nat /\ Sum(f, s) = f[y] + Sum(f, s \ {y})
    BY SumRule
<1>2. f[x] \in Nat /\ Sum(f, s \ {x}) \in Nat /\ Sum(f, s) = f[x] + Sum(f, s \ {x})
    BY <1>1
<1> QED
    BY <1>2

\* A sum is 0 just when nothing counts.
LEMMA NothingCounts ==
    ASSUME NEW S, IsFiniteSet(S), NEW f, Counts(f, S), NEW s \in SUBSET S, Sum(f, s) = 0
    PROVE  \A x \in s : f[x] = 0
<1> SUFFICES ASSUME NEW x \in s, f[x] # 0 PROVE FALSE
    OBVIOUS
<1>1. f[x] > 0
    BY DEF Counts
<1>2. Sum(f, s) > 0
    BY <1>1, SumPositive
<1> QED
    BY <1>2

\* A sum in which nothing counts.
LEMMA SumOfNothing ==
    ASSUME NEW S, IsFiniteSet(S), NEW f, NEW s \in SUBSET S, \A x \in s : f[x] = 0
    PROVE  Sum(f, s) = 0
<1>1. IsFiniteSet(s) /\ Cardinality(s) \in Nat
    BY FS_Subset, FS_CardinalityType
<1>2. Sum(f, s) = 0 * Cardinality(s)
    BY <1>1, SumConstant
<1> QED
    BY <1>1, <1>2

\* The elements of a sequence that one was appended to.
LEMMA ElementsOfAppend ==
    ASSUME NEW S, NEW s \in Seq(S), NEW x
    PROVE  ToSet(Append(s, x)) = ToSet(s) \cup {x}
<1> DEFINE r == Append(s, x)
<1>1. /\ DOMAIN s = 1..Len(s) /\ Len(s) \in Nat /\ DOMAIN r = 1..(Len(s) + 1)
      /\ r[Len(s) + 1] = x /\ \A i \in 1..Len(s) : r[i] = s[i]
    OBVIOUS
<1>2. \A i \in 1..(Len(s) + 1) : i \in 1..Len(s) \/ i = Len(s) + 1
    BY <1>1
<1>3. Len(s) + 1 \in 1..(Len(s) + 1) /\ \A i \in 1..Len(s) : i \in 1..(Len(s) + 1)
    BY <1>1
<1> HIDE DEF r
<1>4. ToSet(r) \subseteq ToSet(s) \cup {x}
    BY <1>1, <1>2 DEF ToSet
<1>5. ToSet(s) \cup {x} \subseteq ToSet(r)
    BY <1>1, <1>3 DEF ToSet
<1> QED
    BY <1>4, <1>5 DEF r

\* A ballot with ratings rates an option, or puts it behind all that it rates.
LEMMA RatingsAre ==
    ASSUME NEW poll \in Polls, poll.method \in {"schulze", "repeated_schulze"},
           NEW b \in BallotsOf(poll)
    PROVE  /\ DOMAIN b \subseteq SchulzeOptions(poll)
           /\ \A c : Rating(b, c) \in Int
           /\ \A c, d : (c \in DOMAIN b /\ (d \in DOMAIN b => b[c] > b[d]))
                           <=> Rating(b, c) > Rating(b, d)
<1>1. BallotsOf(poll) = SchulzeBallots(poll)
    BY DEF BallotsOf
<1>2. PICK rated \in SUBSET SchulzeOptions(poll) : b \in [rated -> 0..poll.stars]
    BY <1>1 DEF SchulzeBallots
<1>3. DOMAIN b = rated /\ poll.stars \in Nat
    BY <1>2, PollTypes
<1>4. \A c \in DOMAIN b : b[c] \in Nat
    BY <1>2, <1>3
<1>5. \A c : (c \in DOMAIN b => Rating(b, c) = b[c]) /\ (c \notin DOMAIN b => Rating(b, c) = -1)
    BY DEF Rating
<1>6. \A c : Rating(b, c) \in Int
    BY <1>4, <1>5
<1>7. ASSUME NEW c, NEW d
      PROVE  (c \in DOMAIN b /\ (d \in DOMAIN b => b[c] > b[d])) <=> Rating(b, c) > Rating(b, d)
  <2>1. CASE c \in DOMAIN b /\ d \in DOMAIN b
    BY <1>5, <2>1
  <2>2. CASE c \in DOMAIN b /\ d \notin DOMAIN b
    BY <1>4, <1>5, <2>2
  <2>3. CASE c \notin DOMAIN b /\ d \in DOMAIN b
    BY <1>4, <1>5, <2>3
  <2>4. CASE c \notin DOMAIN b /\ d \notin DOMAIN b
    BY <1>5, <2>4
  <2> QED
    BY <2>1, <2>2, <2>3, <2>4
<1> QED
    BY <1>2, <1>3, <1>6, <1>7

\* The counter of a poll with ratings can be compared.
LEMMA RatedCounter ==
    ASSUME NEW poll \in Polls, poll.method \in {"schulze", "repeated_schulze"},
           NEW counter, Tally(counter), DOMAIN counter \subseteq BallotsOf(poll)
    PROVE  Rated(counter) /\ RatedOptions(counter) \subseteq SchulzeOptions(poll)
<1>1. RatedOptions(counter) \subseteq SchulzeOptions(poll)
    BY RatedAreOptions
<1>2. IsFiniteSet(RatedOptions(counter))
    BY <1>1, PollTypes, FS_Subset
<1>3. ASSUME NEW b \in DOMAIN counter, NEW c PROVE Rating(b, c) \in Int
    BY RatingsAre
<1> QED
    BY <1>1, <1>2, <1>3 DEF Rated

\* A ballot without some options.
Rest(b, gone) == [c \in DOMAIN b \ gone |-> b[c]]
HaveRest(counter, gone, r) == {b \in DOMAIN counter : Rest(b, gone) = r}

\* The ballots without some options rate the others as before, and count as often.
LEMMA BallotsLeft ==
    ASSUME NEW counter, Tally(counter), NEW gone
    PROVE  LET left == WithoutElected(counter, gone) IN
           /\ Tally(left) /\ DOMAIN left = {Rest(b, gone) : b \in DOMAIN counter}
           /\ \A r \in DOMAIN left : left[r] = Sum(counter, HaveRest(counter, gone, r))
           /\ \A b : \A c : c \notin gone => Rating(Rest(b, gone), c) = Rating(b, c)
<1> DEFINE left == WithoutElected(counter, gone)
<1>1. left = [r \in {Rest(b, gone) : b \in DOMAIN counter} |->
                 Count(counter, LAMBDA b : Rest(b, gone) = r)]
    BY DEF WithoutElected, Rest
<1>2. /\ DOMAIN left = {Rest(b, gone) : b \in DOMAIN counter}
      /\ \A r \in DOMAIN left : left[r] = Sum(counter, HaveRest(counter, gone, r))
    BY <1>1, SumIs DEF Count, HaveRest
<1> HIDE DEF left
<1>3. IsFiniteSet(DOMAIN left)
  <2> DEFINE f == [b \in DOMAIN counter |-> Rest(b, gone)]
  <2>1. IsFiniteSet({f[b] : b \in DOMAIN counter})
    <3> HIDE DEF f
    <3> QED
        BY FiniteValues DEF Tally
  <2>2. {f[b] : b \in DOMAIN counter} = {Rest(b, gone) : b \in DOMAIN counter}
    OBVIOUS
  <2> QED
    BY <1>2, <2>1, <2>2
<1>4. \A r \in DOMAIN left : left[r] \in Nat
  <2> SUFFICES ASSUME NEW r \in DOMAIN left PROVE left[r] \in Nat
    OBVIOUS
  <2> DEFINE s == HaveRest(counter, gone, r)
  <2>1. s \in SUBSET DOMAIN counter
    BY DEF HaveRest
  <2>2. left[r] = Sum(counter, s)
    BY <1>2
  <2> HIDE DEF s
  <2> QED
    BY <2>1, <2>2, SumRule DEF Tally
<1>5. \A b : \A c : c \notin gone => Rating(Rest(b, gone), c) = Rating(b, c)
    BY DEF Rest, Rating
<1> QED
    BY <1>2, <1>3, <1>4, <1>5 DEF Tally, Counts, left

\* A ballot that counts still does without some of its options.
LEMMA BallotStillCounts ==
    ASSUME NEW counter, Tally(counter), NEW gone, NEW b \in DOMAIN counter, counter[b] > 0
    PROVE  /\ Rest(b, gone) \in DOMAIN WithoutElected(counter, gone)
           /\ WithoutElected(counter, gone)[Rest(b, gone)] > 0
<1> DEFINE s == HaveRest(counter, gone, Rest(b, gone))
           left == WithoutElected(counter, gone)
<1>1. /\ Rest(b, gone) \in DOMAIN left
      /\ left[Rest(b, gone)] = Sum(counter, s)
  <2>1. /\ DOMAIN left = {Rest(c, gone) : c \in DOMAIN counter}
        /\ \A r \in DOMAIN left : left[r] = Sum(counter, HaveRest(counter, gone, r))
    BY BallotsLeft
  <2> HIDE DEF left
  <2> QED
    BY <2>1
<1>2. s \in SUBSET DOMAIN counter /\ b \in s
    BY DEF HaveRest
<1> HIDE DEF s
<1>3. Sum(counter, s) > 0
    BY <1>2, SumPositive DEF Tally
<1> QED
    BY <1>1, <1>3

\* The ballots without some options can be compared.
LEMMA LeftCanBeCompared ==
    ASSUME NEW counter, Rated(counter), NEW gone
    PROVE  Rated(WithoutElected(counter, gone))
<1> DEFINE left == WithoutElected(counter, gone)
<1>1. /\ Tally(left) /\ DOMAIN left = {Rest(b, gone) : b \in DOMAIN counter}
      /\ \A b : \A c : c \notin gone => Rating(Rest(b, gone), c) = Rating(b, c)
    BY BallotsLeft DEF Rated
<1>2. RatedOptions(left) = RatedOptions(counter) \ gone
    BY OptionsLeft
<1> HIDE DEF left
<1>3. IsFiniteSet(RatedOptions(left))
    BY <1>2, FS_Subset DEF Rated
<1>4. ASSUME NEW r \in DOMAIN left, NEW c \in RatedOptions(left) PROVE Rating(r, c) \in Int
  <2>1. PICK b \in DOMAIN counter : r = Rest(b, gone)
    BY <1>1
  <2>2. c \notin gone /\ c \in RatedOptions(counter)
    BY <1>2
  <2>3. Rating(r, c) = Rating(b, c)
    BY <1>1, <2>1, <2>2
  <2> QED
    BY <2>2, <2>3 DEF Rated
<1> QED
    BY <1>1, <1>3, <1>4 DEF Rated, left

\* An option that all ballots rate below another one does not win a round before it.
LEMMA UnanimousWaits ==
    ASSUME NEW counter, Rated(counter), NEW gone,
           NEW c \in RatedOptions(counter), c \notin gone, NEW d,
           \A b \in DOMAIN counter : Rating(b, c) > Rating(b, d),
           NEW b0 \in DOMAIN counter, counter[b0] > 0
    PROVE  d \notin SchulzeWinners(WithoutElected(counter, gone))
<1> SUFFICES ASSUME d \in SchulzeWinners(WithoutElected(counter, gone)) PROVE FALSE
    OBVIOUS
<1> DEFINE left == WithoutElected(counter, gone)
<1>1. Rated(left) /\ RatedOptions(left) = RatedOptions(counter) \ gone
    BY LeftCanBeCompared, OptionsLeft
<1>2. d \in RatedOptions(left) /\ c \in RatedOptions(left)
    BY <1>1 DEF SchulzeWinners
<1>3. \A r \in DOMAIN left : Rating(r, c) > Rating(r, d)
  <2>1. /\ DOMAIN left = {Rest(b, gone) : b \in DOMAIN counter}
        /\ \A b : \A x : x \notin gone => Rating(Rest(b, gone), x) = Rating(b, x)
    BY BallotsLeft DEF Rated
  <2>2. d \notin gone
    BY <1>1, <1>2
  <2> HIDE DEF left
  <2> QED
    BY <2>1, <2>2
<1>4. Rest(b0, gone) \in DOMAIN left /\ left[Rest(b0, gone)] > 0
    BY BallotStillCounts DEF Rated
<1> HIDE DEF left
<1> QED
    BY <1>1, <1>2, <1>3, <1>4, UnanimousLoses DEF left

-----------------------------------------------------------------------------
(* What all voters agree on                                                *)

\* An option that all ballots rate below another one is not approved.
LEMMA UnanimousSchulze ==
    ASSUME NEW poll \in Polls, poll.method = "schulze",
           NEW counter, Tally(counter), DOMAIN counter \subseteq BallotsOf(poll),
           NEW c, NEW d, \A b \in DOMAIN counter : Rating(b, c) > Rating(b, d),
           NEW b0 \in DOMAIN counter, counter[b0] > 0,
           NEW r \in SchulzeResult(poll, counter)
    PROVE  d \notin r.approved
<1>1. PICK winner \in SchulzeWinners(counter) : r = SchulzeVerdict(winner, counter)
    BY DEF SchulzeResult
<1>2. r.approved = {winner} \ {Deny}
    BY <1>1 DEF SchulzeVerdict, Verdict, NoVerdict
<1>3. Rated(counter) /\ c \in RatedOptions(counter)
  <2>1. c \in DOMAIN b0
    BY RatingsAre
  <2> QED
    BY <2>1, RatedCounter DEF RatedOptions
<1>4. d \in RatedOptions(counter) => d \notin SchulzeWinners(counter)
    BY <1>3, UnanimousLoses
<1> QED
    BY <1>2, <1>4 DEF SchulzeWinners

\* Of two options that all ballots rate alike, the upper one is elected first, and
\* when it is the option to deny no other is elected any more.
LEMMA UnanimousInRounds ==
    ASSUME NEW poll, NEW n \in Nat, NEW counter, Rated(counter), NEW e,
           e[0] = {<<>>},
           \A k \in 1..n : e[k] = SchulzeRound(poll, counter, e[k-1]),
           \A k \in 0..n : e[k] \in SUBSET Seq(RatedOptions(counter)),
           NEW c \in RatedOptions(counter), NEW d,
           \A b \in DOMAIN counter : Rating(b, c) > Rating(b, d),
           NEW b0 \in DOMAIN counter, counter[b0] > 0
    PROVE  \A k \in 0..n : \A r \in e[k] :
              d \in ToSet(r) => c \in ToSet(r) /\ ~(poll.deny /\ c = Deny)
<1> DEFINE After(r) == d \in ToSet(r) => c \in ToSet(r) /\ ~(poll.deny /\ c = Deny)
           P == {k \in 0..n : \A r \in e[k] : After(r)}
<1>1. 0 \in P
  <2>1. ToSet(<<>>) = {} /\ 0 \in 0..n
    BY DEF ToSet
  <2> QED
    BY <2>1
<1>2. ASSUME NEW k \in 1..n, k - 1 \in P PROVE k \in P
  <2>1. k \in 0..n /\ k - 1 \in 0..n /\ e[k-1] \in SUBSET Seq(RatedOptions(counter))
    OBVIOUS
  <2>2. ASSUME NEW r \in e[k] PROVE After(r)
    <3>1. r \in SchulzeRound(poll, counter, e[k-1])
        OBVIOUS
    <3>2. CASE r \in e[k-1]
        BY <1>2, <3>2
    <3>3. ASSUME NEW rounds \in e[k-1],
                 NEW w \in SchulzeWinners(WithoutElected(counter, ToSet(rounds))),
                 ~(poll.deny /\ Contains(rounds, Deny)), r = Append(rounds, w)
          PROVE  After(r)
        <4>1. rounds \in Seq(RatedOptions(counter)) /\ After(rounds)
            BY <1>2, <2>1
        <4>2. ToSet(r) = ToSet(rounds) \cup {w}
            BY <3>3, <4>1, ElementsOfAppend
        <4>3. w = d => c \in ToSet(rounds)
            BY UnanimousWaits
        <4>4. Deny \in ToSet(rounds) => Contains(rounds, Deny)
            BY <4>1 DEF ToSet, Contains
        <4> QED
            BY <3>3, <4>1, <4>2, <4>3, <4>4
    <3> HIDE DEF After
    <3> QED
        BY <2>1, <3>1, <3>2, <3>3, OneMoreRound
  <2> HIDE DEF After
  <2> QED
    BY <2>1, <2>2
<1> HIDE DEF P
<1>3. \A k \in 0..n : k \in P
    BY <1>1, <1>2, Upwards
<1> QED
    BY <1>3 DEF P

\* In repeated rounds it is approved after the other one only.
LEMMA UnanimousRepeated ==
    ASSUME NEW poll \in Polls, poll.method = "repeated_schulze",
           NEW counter, Tally(counter), DOMAIN counter \subseteq BallotsOf(poll),
           NEW c, NEW d, \A b \in DOMAIN counter : Rating(b, c) > Rating(b, d),
           NEW b0 \in DOMAIN counter, counter[b0] > 0,
           NEW r \in RepeatedSchulzeResult(poll, counter), d \in r.approved
    PROVE  c \in r.approved
<1>1. PICK rounds \in RepeatedSchulzeRounds(poll, counter) :
         r = IF poll.winners = NoWinners THEN NoVerdict
             ELSE Verdict(ToSet(rounds) \ {Deny},
                          RatedOptions(counter) \ ((ToSet(rounds) \ {Deny}) \cup {Deny}))
    BY DEF RepeatedSchulzeResult
<1>2. poll.winners # NoWinners /\ r.approved = ToSet(rounds) \ {Deny}
    BY <1>1 DEF NoVerdict, Verdict
<1>3. Rated(counter) /\ c \in RatedOptions(counter) /\ c \in SchulzeOptions(poll)
  <2>1. c \in DOMAIN b0
    BY RatingsAre
  <2> QED
    BY <2>1, RatedCounter DEF RatedOptions
<1> DEFINE n == RoundsToDo(poll)
<1>4. n \in Nat
    BY <1>2, PollTypes DEF RoundsToDo
<1>5. PICK e : /\ e[0] = {<<>>}
               /\ \A k \in 1..n : e[k] = SchulzeRound(poll, counter, e[k-1])
               /\ \A k \in 0..n : e[k] \in SUBSET Seq(RatedOptions(counter))
               /\ e[n] = RepeatedSchulzeRounds(poll, counter)
    BY <1>4, SchulzeRoundsAre
<1> HIDE DEF n
<1>6. \A k \in 0..n : \A q \in e[k] :
         d \in ToSet(q) => c \in ToSet(q) /\ ~(poll.deny /\ c = Deny)
    BY <1>3, <1>4, <1>5, UnanimousInRounds
<1>7. c \in ToSet(rounds) /\ ~(poll.deny /\ c = Deny)
    BY <1>2, <1>4, <1>5, <1>6
<1>8. c = Deny => poll.deny
    BY <1>3, AlgorithmsAssumption DEF SchulzeOptions
<1> QED
    BY <1>2, <1>7, <1>8

\* Ballots that rank.
Ranked(counter) == Tally(counter) /\ \A b \in DOMAIN counter : DOMAIN b \subseteq Nat \ {0}

\* Whether a ballot ranks c, and d not before it.
RanksAbove(b, c, d) == \E i \in DOMAIN b : b[i] = c /\ \A j \in 1..i : b[j] # d

\* The least of some numbers is one of them.
LEMMA LeastIs ==
    ASSUME NEW s \in SUBSET Nat, s # {}
    PROVE  Min(s) \in s /\ \A x \in s : Min(s) <= x
<1>1. \E n \in s : \A m \in s : n <= m
    BY LeastNumber
<1> QED
    BY <1>1 DEF Min

\* Nobody has d first while c is standing.
LEMMA NotFirst ==
    ASSUME NEW counter, Ranked(counter), NEW c, NEW d,
           \A b \in DOMAIN counter : RanksAbove(b, c, d),
           NEW standing, c \in standing
    PROVE  FirstPreferences(counter, standing, d) = 0
<1>1. HaveFirst(counter, standing, d) = {}
  <2> SUFFICES ASSUME NEW b \in HaveFirst(counter, standing, d) PROVE FALSE
    OBVIOUS
  <2> DEFINE left == {i \in DOMAIN b : b[i] \in standing}
  <2>1. b \in DOMAIN counter /\ b[Min(left)] = d
    BY DEF HaveFirst
  <2>2. PICK i \in DOMAIN b : b[i] = c /\ \A j \in 1..i : b[j] # d
    BY <2>1 DEF RanksAbove
  <2>3. left \in SUBSET Nat /\ left \in SUBSET (Nat \ {0}) /\ i \in left
    BY <2>1, <2>2 DEF Ranked
  <2> HIDE DEF left
  <2>4. Min(left) \in left /\ Min(left) <= i
    BY <2>3, LeastIs
  <2>5. Min(left) \in 1..i
    <3>1. Min(left) \in Nat \ {0} /\ i \in Nat
        BY <2>3, <2>4
    <3> QED
        BY <2>4, <3>1
  <2> QED
    BY <2>1, <2>2, <2>5
<1>2. {} \in SUBSET DOMAIN counter
    OBVIOUS
<1>3. Sum(counter, {}) = 0
    BY <1>2, SumRule DEF Ranked, Tally
<1> QED
    BY <1>1, <1>3, FirstIs

\* Whoever nobody has first stays so when another one whom nobody has first goes.
LEMMA StillNotFirst ==
    ASSUME NEW counter, Ranked(counter), NEW standing, NEW x \in standing, NEW d \in standing,
           FirstPreferences(counter, standing, x) = 0, FirstPreferences(counter, standing, d) = 0
    PROVE  FirstPreferences(counter, standing \ {x}, d) = 0
<1> DEFINE A == HaveFirst(counter, standing, x)
           B == HaveFirst(counter, standing, d)
           C == HaveFirst(counter, standing \ {x}, d)
<1>1. C \in SUBSET (A \cup B)
  <2> SUFFICES ASSUME NEW b \in C, b \notin A PROVE b \in B
    OBVIOUS
  <2> DEFINE all == {i \in DOMAIN b : b[i] \in standing}
             left == {i \in DOMAIN b : b[i] \in standing \ {x}}
  <2>1. b \in DOMAIN counter /\ left # {} /\ b[Min(left)] = d
    BY DEF HaveFirst
  <2>2. all \in SUBSET Nat /\ left \in SUBSET all /\ all # {} /\ left \in SUBSET Nat
    BY <2>1 DEF Ranked
  <2>3. Min(all) \in all /\ \A i \in all : Min(all) <= i
    <3> HIDE DEF all
    <3> QED
        BY <2>2, LeastIs
  <2>4. Min(left) \in left /\ \A i \in left : Min(left) <= i
    <3> HIDE DEF left
    <3> QED
        BY <2>1, <2>2, LeastIs
  <2>5. b[Min(all)] # x
    BY <2>1, <2>2 DEF HaveFirst
  <2>6. Min(all) \in left
    BY <2>3, <2>5
  <2>7. Min(all) = Min(left)
    <3> HIDE DEF all, left
    <3> QED
        <4>1. Min(all) \in Nat /\ Min(left) \in Nat
            BY <2>2, <2>3, <2>4
        <4>2. Min(all) <= Min(left) /\ Min(left) <= Min(all)
            BY <2>2, <2>3, <2>4, <2>6
        <4> QED
            BY <4>1, <4>2
  <2> QED
    BY <2>1, <2>2, <2>7 DEF HaveFirst
<1>2. A \in SUBSET DOMAIN counter /\ B \in SUBSET DOMAIN counter /\ C \in SUBSET DOMAIN counter
    BY DEF HaveFirst
<1>3. Sum(counter, A) = 0 /\ Sum(counter, B) = 0
    BY FirstIs
<1> HIDE DEF A, B, C
<1>4. \A b \in A : counter[b] = 0
    BY <1>2, <1>3, NothingCounts DEF Ranked, Tally
<1>5. \A b \in B : counter[b] = 0
    BY <1>2, <1>3, NothingCounts DEF Ranked, Tally
<1>6. \A b \in C : counter[b] = 0
    BY <1>1, <1>4, <1>5
<1>7. Sum(counter, C) = 0
    BY <1>2, <1>6, SumOfNothing DEF Ranked, Tally
<1> QED
    BY <1>7, FirstIs DEF C

\* First preferences are a number, and the quota is one that is not zero.
LEMMA FirstIsNat ==
    ASSUME NEW counter, Tally(counter), NEW standing, NEW c
    PROVE  FirstPreferences(counter, standing, c) \in Nat /\ Quota(counter) \in Nat \ {0}
<1>1. HaveFirst(counter, standing, c) \in SUBSET DOMAIN counter
    BY DEF HaveFirst
<1>2. Sum(counter, HaveFirst(counter, standing, c)) \in Nat
    BY <1>1, SumRule DEF Tally
<1>3. DOMAIN counter \in SUBSET DOMAIN counter
    OBVIOUS
<1>4. Sum(counter, DOMAIN counter) \in Nat
    BY <1>3, SumRule DEF Tally
<1>5. Quota(counter) = Sum(counter, DOMAIN counter) \div 2 + 1
    BY BallotCountIs DEF Quota
<1> QED
    BY <1>2, <1>4, <1>5, FirstIs

\* What an instant runoff elects is never what all ballots have behind another one
\* that is standing.
LEMMA UnanimousRunoff ==
    ASSUME NEW poll, NEW counter, Ranked(counter), NEW candidates, IsFiniteSet(candidates),
           NEW c \in candidates, NEW d, \A b \in DOMAIN counter : RanksAbove(b, c, d),
           NEW won \in IRVElected(poll, counter, candidates)
    PROVE  d \notin won
<1> DEFINE first(s, x) == FirstPreferences(counter, s, x)
<1>1. Tally(counter)
    BY DEF Ranked
<1>2. PICK h : Outcomes(poll, counter, candidates, h)
    BY <1>1, RunoffIs
<1>3. \A s \in SUBSET candidates :
         h[s] = Runoff(poll, counter, s, [x \in s |-> h[s \ {x}]])
    BY <1>2 DEF Outcomes
<1> DEFINE P == {s \in SUBSET candidates :
                    (d \in s => first(s, d) = 0) => \A w \in h[s] : d \notin w}
<1>4. ASSUME NEW s \in SUBSET candidates, \A x \in s : s \ {x} \in P PROVE s \in P
  <2> SUFFICES ASSUME d \in s => first(s, d) = 0, NEW w \in h[s] PROVE d \notin w
    OBVIOUS
  <2>1. w \in Runoff(poll, counter, s, [x \in s |-> h[s \ {x}]])
    BY <1>3
  <2>2. CASE w = OverQuota(counter, s)
    <3>1. d \in OverQuota(counter, s) => d \in s /\ first(s, d) >= Quota(counter)
        BY DEF OverQuota
    <3>2. Quota(counter) \in Nat \ {0} /\ first(s, d) \in Nat
        BY <1>1, FirstIsNat
    <3> HIDE DEF first
    <3> QED
        BY <2>2, <3>1, <3>2
  <2>3. CASE w = {}
    BY <2>3
  <2>4. ASSUME NEW x \in FewestFirst(counter, s), w \in h[s \ {x}] PROVE d \notin w
    <3>1. x \in s
        BY DEF FewestFirst
    <3>2. d \in s \ {x} => first(s \ {x}, d) = 0
        <4>1. SUFFICES ASSUME d \in s, d # x PROVE first(s \ {x}, d) = 0
            OBVIOUS
        <4>2. first(s, x) <= first(s, d) /\ first(s, d) = 0 /\ first(s, x) \in Nat
            BY <1>1, <4>1, FirstIsNat DEF FewestFirst
        <4>3. first(s, x) = 0 /\ first(s, d) = 0
            <5> HIDE DEF first
            <5> QED
                BY <4>2
        <4> QED
            BY <3>1, <4>1, <4>3, StillNotFirst
    <3> HIDE DEF first
    <3> QED
        BY <1>4, <2>4, <3>1, <3>2
  <2> DEFINE f == [x \in s |-> h[s \ {x}]]
  <2>5. ASSUME w \in UNION {f[x] : x \in FewestFirst(counter, s)} PROVE d \notin w
    <3>1. PICK x \in FewestFirst(counter, s) : w \in f[x]
        BY <2>5
    <3>2. x \in s
        BY DEF FewestFirst
    <3> QED
        BY <2>4, <3>1, <3>2
  <2> HIDE DEF f
  <2>6. w \in Runoff(poll, counter, s, f)
    BY <2>1 DEF f
  <2> QED
    BY <2>2, <2>3, <2>5, <2>6 DEF Runoff
<1>5. P \in SUBSET SUBSET candidates
    OBVIOUS
<1> HIDE DEF P
<1>6. candidates \in P
    BY <1>4, <1>5, SetInduction
<1>7. first(candidates, d) = 0
    BY NotFirst
<1>8. won \in h[candidates]
    BY <1>2 DEF Outcomes
<1> QED
    BY <1>6, <1>7, <1>8 DEF P

\* The elections that elect d only together with c.
OnlyAfter(E, c, d) == \A won \in E : d \in won => c \in won

\* Elections of one or of several seats, in which d is elected only with c.
LEMMA FinalizedWith ==
    ASSUME NEW poll, NEW counter, NEW E, NEW c, NEW d,
           OnlyAfter(E, c, d),
           NEW r \in FinalizeStvResult(poll, counter, E), d \in r.approved
    PROVE  c \in r.approved
<1>1. CASE r = Failed
    BY <1>1 DEF Failed, NoVerdict
<1>2. ASSUME NEW won \in E,
             r = Verdict(won, IF Cardinality(won) = poll.winners THEN poll.proposals \ won ELSE {})
      PROVE  c \in r.approved
  <2>1. r.approved = won
    BY <1>2 DEF Verdict, NoVerdict
  <2> QED
    BY <2>1 DEF OnlyAfter
<1> QED
    BY <1>1, <1>2 DEF FinalizeStvResult

\* A proposal that all ballots rank below another one is not approved by a runoff.
LEMMA UnanimousIRV ==
    ASSUME NEW poll \in Polls, NEW counter, Ranked(counter), NEW c \in poll.proposals, NEW d,
           \A b \in DOMAIN counter : RanksAbove(b, c, d),
           NEW r \in IRVResult(poll, counter), d \in r.approved
    PROVE  c \in r.approved
<1>1. \A won \in IRVElected(poll, counter, poll.proposals) : d \notin won
    BY PollTypes, UnanimousRunoff
<1>2. OnlyAfter(IRVElected(poll, counter, poll.proposals), c, d)
    BY <1>1 DEF OnlyAfter
<1> QED
    BY <1>2, FinalizedWith DEF IRVResult

\* Of two proposals that all ballots rank alike, the upper one is elected first.
LEMMA UnanimousInSeats ==
    ASSUME NEW poll, NEW n \in Nat, IsFiniteSet(poll.proposals), NEW counter, Ranked(counter),
           NEW c \in poll.proposals, NEW d, \A b \in DOMAIN counter : RanksAbove(b, c, d),
           NEW e, e[0] = {{}},
           \A k \in 1..n : e[k] = RepeatedIRVRound(poll, counter, e[k-1])
    PROVE  \A k \in 0..n : OnlyAfter(e[k], c, d)
<1> DEFINE P == {k \in 0..n : \A won \in e[k] : d \in won => c \in won}
<1>1. 0 \in P
    OBVIOUS
<1>2. ASSUME NEW k \in 1..n, k - 1 \in P PROVE k \in P
  <2>1. k \in 0..n
    OBVIOUS
  <2>2. ASSUME NEW won \in e[k], d \in won PROVE c \in won
    <3>1. won \in RepeatedIRVRound(poll, counter, e[k-1])
        OBVIOUS
    <3>2. PICK w \in e[k-1] : won \in NextSeat(poll, counter, w)
        BY <3>1, OneMoreSeat
    <3>3. PICK next \in IRVElected(poll, counter, poll.proposals \ w) : won = w \cup next
        BY <3>2 DEF NextSeat
    <3>4. d \in w => c \in w
        BY <1>2
    <3>5. c \notin w => d \notin next
        <4>1. IsFiniteSet(poll.proposals \ w)
            BY FS_Subset
        <4> QED
            BY <4>1, UnanimousRunoff
    <3> QED
        BY <2>2, <3>3, <3>4, <3>5
  <2> QED
    BY <2>1, <2>2
<1> HIDE DEF P
<1>3. \A k \in 0..n : k \in P
    BY <1>1, <1>2, Upwards
<1> QED
    BY <1>3 DEF P, OnlyAfter

\* By repeated runoffs it is approved after the other one only.
LEMMA UnanimousRepeatedIRV ==
    ASSUME NEW poll \in Polls, poll.method = "repeated_irv", NEW counter, Ranked(counter),
           NEW c \in poll.proposals, NEW d,
           \A b \in DOMAIN counter : RanksAbove(b, c, d),
           NEW r \in RepeatedIRVResult(poll, counter), d \in r.approved
    PROVE  c \in r.approved
<1>1. poll.winners \in Nat /\ IsFiniteSet(poll.proposals) /\ Tally(counter)
    BY PollTypes, AlgorithmsAssumption DEF Ranked
<1>2. PICK e : /\ e[0] = {{}}
               /\ \A k \in 1..poll.winners : e[k] = RepeatedIRVRound(poll, counter, e[k-1])
               /\ \A k \in 0..poll.winners : e[k] \in SUBSET SUBSET poll.proposals
               /\ RepeatedIRVResult(poll, counter) =
                     FinalizeStvResult(poll, counter, e[poll.winners])
    BY <1>1, RepeatedRunoffIs
<1>3. \A k \in 0..poll.winners : OnlyAfter(e[k], c, d)
    BY <1>1, <1>2, UnanimousInSeats
<1>4. poll.winners \in 0..poll.winners
    BY <1>1
<1> QED
    BY <1>2, <1>3, <1>4, FinalizedWith

\* The ballots of a poll by ranks are ranks of its proposals.
LEMMA RanksAre ==
    ASSUME NEW poll \in Polls, poll.method \in {"irv", "repeated_irv"},
           NEW b \in BallotsOf(poll)
    PROVE  /\ DOMAIN b \subseteq Nat \ {0}
           /\ \A c : (\E i \in DOMAIN b : b[i] = c) => c \in poll.proposals
<1>1. b \in SeqOf(poll.proposals, Size(poll))
    BY DEF BallotsOf, RankedBallots, RepeatedIRVBallots
<1>2. PICK m \in 0..Size(poll) : b \in [1..m -> poll.proposals]
    BY <1>1 DEF SeqOf
<1> QED
    BY <1>2

\* A ballot of a voter with a weight counts.
LEMMA BallotCounts ==
    ASSUME NEW B, NEW votes \in [PollVoters -> B], NEW weight \in Weights,
           NEW v \in PollVoters, weight[v] > 0
    PROVE  /\ votes[v] \in DOMAIN Counter(votes, weight)
           /\ Counter(votes, weight)[votes[v]] > 0
<1> DEFINE s == CastBy(votes, votes[v])
<1>1. IsFiniteSet(PollVoters) /\ Counts(weight, PollVoters)
    BY AlgorithmsAssumption DEF Counts
<1>2. s \in SUBSET PollVoters /\ v \in s
    BY DEF CastBy
<1>3. Sum(weight, s) > 0
  <2> HIDE DEF s
  <2> QED
    BY <1>1, <1>2, SumPositive
<1> DEFINE counter == Counter(votes, weight)
<1>4. /\ DOMAIN counter = Cast(votes)
      /\ \A b \in DOMAIN counter : counter[b] = Sum(weight, CastBy(votes, b))
    BY CounterIs
<1>5. votes[v] \in DOMAIN counter
  <2> HIDE DEF counter
  <2> QED
    BY <1>4 DEF Cast
<1>6. counter[votes[v]] = Sum(weight, s)
  <2> HIDE DEF counter
  <2> QED
    BY <1>4, <1>5
<1> QED
    BY <1>3, <1>5, <1>6

\* No option wins over one that all voters put before it.
LEMMA UnanimityHolds == PollsAreCounted => UnanimityRespected
<1> SUFFICES ASSUME PollsAreCounted, Done("poll"),
                    task.poll.method \in {"schulze", "repeated_schulze", "irv", "repeated_irv"},
                    NEW v0 \in PollVoters, task.weight[v0] > 0,
                    NEW c \in Options, NEW d \in Options,
                    \A v \in PollVoters : PutsBefore(task.votes[v], c, d),
                    d \in result.approved
             PROVE  c \in result.approved
    BY DEF UnanimityRespected
<1> DEFINE poll == task.poll
           votes == task.votes
           counter == Counter(votes, task.weight)
           b0 == votes[v0]
<1>1. /\ poll \in Polls /\ task.weight \in Weights /\ votes \in [PollVoters -> Countable(poll)]
      /\ result \in CalculateResult(poll, counter)
    BY DEF PollsAreCounted, PollTask, Done
<1>2. Countable(poll) \subseteq BallotsOf(poll)
    BY DEF Countable
<1>3. /\ Tally(counter) /\ DOMAIN counter = Cast(votes)
      /\ DOMAIN counter \subseteq Countable(poll)
    BY <1>1, CounterIs
<1>4. b0 \in DOMAIN counter /\ counter[b0] > 0
    BY <1>1, BallotCounts
<1>5. \A b \in DOMAIN counter : PutsBefore(b, c, d)
    BY <1>3 DEF Cast
<1> HIDE DEF counter, b0, votes
<1>6. CASE poll.method \in {"schulze", "repeated_schulze"}
  <2>1. \A b \in DOMAIN counter : Rating(b, c) > Rating(b, d)
    <3> SUFFICES ASSUME NEW b \in DOMAIN counter PROVE Rating(b, c) > Rating(b, d)
        OBVIOUS
    <3>1. c \in DOMAIN b /\ (d \in DOMAIN b => b[c] > b[d])
        BY <1>5, <1>6 DEF PutsBefore
    <3>2. b \in BallotsOf(poll)
        BY <1>2, <1>3
    <3> QED
        BY <1>1, <1>6, <3>1, <3>2, RatingsAre
  <2>2. DOMAIN counter \subseteq BallotsOf(poll)
    BY <1>2, <1>3
  <2>3. CASE poll.method = "schulze"
    <3>1. result \in SchulzeResult(poll, counter)
        BY <1>1, <2>3 DEF CalculateResult
    <3> HIDE DEF poll
    <3> QED
        BY <1>1, <1>3, <1>4, <2>1, <2>2, <2>3, <3>1, UnanimousSchulze
  <2>4. CASE poll.method = "repeated_schulze"
    <3>1. result \in RepeatedSchulzeResult(poll, counter)
        BY <1>1, <2>4 DEF CalculateResult
    <3> HIDE DEF poll
    <3> QED
        BY <1>1, <1>3, <1>4, <2>1, <2>2, <2>4, <3>1, UnanimousRepeated
  <2> QED
    BY <1>6, <2>3, <2>4
<1>7. CASE poll.method \in {"irv", "repeated_irv"}
  <2>1. \A b \in DOMAIN counter : RanksAbove(b, c, d)
    BY <1>5, <1>7 DEF PutsBefore, RanksAbove
  <2>2. \A b \in DOMAIN counter : DOMAIN b \subseteq Nat \ {0}
    <3> HIDE DEF poll
    <3> QED
        BY <1>1, <1>2, <1>3, <1>7, RanksAre
  <2>3. Ranked(counter)
    BY <1>3, <2>2 DEF Ranked
  <2>4. c \in poll.proposals
    <3>1. b0 \in BallotsOf(poll) /\ RanksAbove(b0, c, d)
        BY <1>2, <1>3, <1>4, <2>1
    <3>2. \E i \in DOMAIN b0 : b0[i] = c
        BY <3>1 DEF RanksAbove
    <3> HIDE DEF poll
    <3> QED
        BY <1>1, <1>7, <3>1, <3>2, RanksAre
  <2>5. CASE poll.method = "irv"
    <3>1. result \in IRVResult(poll, counter)
        BY <1>1, <2>5 DEF CalculateResult
    <3> HIDE DEF poll
    <3> QED
        BY <1>1, <2>1, <2>3, <2>4, <3>1, UnanimousIRV
  <2>6. CASE poll.method = "repeated_irv"
    <3>1. result \in RepeatedIRVResult(poll, counter)
        BY <1>1, <2>6 DEF CalculateResult
    <3> HIDE DEF poll
    <3> QED
        BY <1>1, <2>1, <2>3, <2>4, <2>6, <3>1, UnanimousRepeatedIRV
  <2> QED
    BY <1>7, <2>5, <2>6
<1> QED
    BY <1>6, <1>7

-----------------------------------------------------------------------------
(* Majorities                                                              *)

\* The elements of S are in the blocks that g puts them in, and h sums up every block.
IsBlocks(f, S, g, h) ==
    \A r \in DOMAIN h : h[r] = Sum(f, {x \in S : g[x] = r})

\* The elements that g puts in one of some blocks.
InBlocks(S, g, R) == {x \in S : g[x] \in R}

\* A sum over blocks is the sum over their elements.
LEMMA SumOfBlocks ==
    ASSUME NEW S, IsFiniteSet(S), NEW f, Counts(f, S), NEW g,
           NEW h, Tally(h), IsBlocks(f, S, g, h), NEW R \in SUBSET DOMAIN h
    PROVE  Sum(h, R) = Sum(f, InBlocks(S, g, R))
<1> DEFINE U == DOMAIN h
           all(s) == InBlocks(S, g, s)
           P == {s \in SUBSET U : Sum(h, s) = Sum(f, all(s))}
<1>1. Takes(h, U)
    BY SumTakes DEF Tally
<1>2. ASSUME NEW s \in SUBSET U, \A x \in s : s \ {x} \in P PROVE s \in P
  <2>1. CASE s = {}
    <3>1. all(s) = {}
        BY <2>1 DEF InBlocks
    <3>2. Sum(h, s) = 0 /\ Sum(f, all(s)) = 0
        BY <2>1, <3>1, SumRule DEF Tally
    <3> QED
        BY <3>2
  <2>2. CASE s # {}
    <3>1. PICK x \in s : TRUE
        BY <2>2
    <3> DEFINE r == all(s \ {x})
               b == {y \in S : g[y] = x}
    <3>2. Sum(h, s \ {x}) = Sum(f, r)
        BY <1>2
    <3>3. /\ all(s) = b \cup r /\ b \cap r = {}
          /\ b \in SUBSET S /\ r \in SUBSET S
        BY DEF InBlocks
    <3>4. h[x] = Sum(f, b)
        BY DEF IsBlocks
    <3> HIDE DEF r, all, b
    <3>5. Sum(f, all(s)) = Sum(f, b) + Sum(f, r)
        <4>1. IsFiniteSet(b) /\ IsFiniteSet(r) /\ Counts(f, b \cup r)
            BY <3>3, FS_Subset DEF Counts
        <4> QED
            BY <3>3, <4>1, SumUnion
    <3>6. Sum(h, s) = h[x] + Sum(h, s \ {x})
        BY <1>1 DEF Takes
    <3> QED
        BY <3>2, <3>4, <3>5, <3>6
  <2> QED
    BY <2>1, <2>2
<1> HIDE DEF P
<1>3. R \in P
  <2>1. P \in SUBSET SUBSET U
    BY DEF P
  <2>2. IsFiniteSet(U)
    BY DEF Tally
  <2> HIDE DEF U
  <2>3. \A s \in SUBSET U : s \in P
    BY <1>2, <2>1, <2>2, SetInduction
  <2> QED
    BY <2>3 DEF U
<1> QED
    BY <1>3 DEF P

\* Whether more votes put x before y than the other way round.
Beats(counter, x, y) == Prefers(counter, x, y) > Prefers(counter, y, x)

\* The options that are left are preferred as often as before.
LEMMA LeftPreferred ==
    ASSUME NEW counter, Tally(counter), NEW gone, NEW x, x \notin gone, NEW y, y \notin gone
    PROVE  Prefers(WithoutElected(counter, gone), x, y) = Prefers(counter, x, y)
<1> DEFINE left == WithoutElected(counter, gone)
           g == [b \in DOMAIN counter |-> Rest(b, gone)]
           R == RateAbove(left, x, y)
<1>1. /\ Tally(left) /\ DOMAIN left = {Rest(b, gone) : b \in DOMAIN counter}
      /\ \A r \in DOMAIN left : left[r] = Sum(counter, HaveRest(counter, gone, r))
      /\ \A b : \A c : c \notin gone => Rating(Rest(b, gone), c) = Rating(b, c)
    BY BallotsLeft
<1> HIDE DEF left
<1>2. IsBlocks(counter, DOMAIN counter, g, left)
  <2> SUFFICES ASSUME NEW r \in DOMAIN left
               PROVE  left[r] = Sum(counter, {b \in DOMAIN counter : g[b] = r})
    BY DEF IsBlocks
  <2>1. HaveRest(counter, gone, r) = {b \in DOMAIN counter : g[b] = r}
    BY DEF HaveRest
  <2> QED
    BY <1>1, <2>1
<1>3. InBlocks(DOMAIN counter, g, R) = RateAbove(counter, x, y)
  <2>1. ASSUME NEW b \in DOMAIN counter PROVE g[b] \in R <=> b \in RateAbove(counter, x, y)
    <3>1. g[b] \in DOMAIN left
        BY <1>1
    <3>2. Rating(g[b], x) = Rating(b, x) /\ Rating(g[b], y) = Rating(b, y)
        BY <1>1
    <3> QED
        BY <3>1, <3>2 DEF RateAbove
  <2> HIDE DEF g, R
  <2> QED
    BY <2>1 DEF InBlocks, RateAbove
<1>4. R \in SUBSET DOMAIN left
    BY DEF RateAbove
<1>5. Sum(left, R) = Sum(counter, InBlocks(DOMAIN counter, g, R))
  <2> HIDE DEF g, R
  <2> QED
    BY <1>1, <1>2, <1>4, SumOfBlocks DEF Tally
<1>6. Prefers(left, x, y) = Sum(left, R) /\ Prefers(counter, x, y) = Sum(counter, RateAbove(counter, x, y))
    BY <1>1, PrefersIs
<1> QED
    BY <1>3, <1>5, <1>6 DEF left

\* Who rates x above y.
WhoRatesAbove(votes, x, y) == {v \in PollVoters : Rating(votes[v], x) > Rating(votes[v], y)}

\* As many prefer x to y as rate it above y, by their weight.
LEMMA VotersPrefer ==
    ASSUME NEW B, NEW votes \in [PollVoters -> B], NEW weight \in Weights, NEW x, NEW y
    PROVE  Prefers(Counter(votes, weight), x, y)
           = Sum(weight, WhoRatesAbove(votes, x, y))
<1> DEFINE counter == Counter(votes, weight)
           R == RateAbove(counter, x, y)
<1>1. /\ Tally(counter) /\ DOMAIN counter = Cast(votes)
      /\ \A b \in DOMAIN counter : counter[b] = Sum(weight, CastBy(votes, b))
    BY CounterIs
<1> HIDE DEF counter
<1>2. IsFiniteSet(PollVoters) /\ Counts(weight, PollVoters)
    BY AlgorithmsAssumption DEF Counts
<1>3. IsBlocks(weight, PollVoters, votes, counter)
    BY <1>1 DEF IsBlocks, CastBy
<1>4. R \in SUBSET DOMAIN counter
    BY DEF RateAbove
<1>5. Sum(counter, R) = Sum(weight, InBlocks(PollVoters, votes, R))
  <2> HIDE DEF R
  <2> QED
    BY <1>1, <1>2, <1>3, <1>4, SumOfBlocks
<1>6. InBlocks(PollVoters, votes, R) = WhoRatesAbove(votes, x, y)
    BY <1>1 DEF InBlocks, RateAbove, Cast, WhoRatesAbove
<1>7. Prefers(counter, x, y) = Sum(counter, R)
    BY <1>1, PrefersIs
<1> QED
    BY <1>5, <1>6, <1>7 DEF counter

-----------------------------------------------------------------------------
(* The order of the majorities                                             *)

\* Every element of O has its own rank among 0, 1, ... : how many elements beat it.
Places(O, B) == [c \in O |-> Cardinality(B[c])]
InOrder(O, B) == {Cardinality(B[c]) : c \in O} = 0..Cardinality(O) - 1

Before(O, rank, k) == {d \in O : rank[d] < k}

\* As many come before rank k as k says.
LEMMA CountBefore ==
    ASSUME NEW O, IsFiniteSet(O), NEW n \in Nat, NEW rank \in Bijection(O, 0..n-1), NEW k \in 0..n
    PROVE  Cardinality(Before(O, rank, k)) = k
<1> DEFINE S == Before(O, rank, k)
           f == [d \in S |-> rank[d]]
<1>1. \A d \in O : rank[d] \in 0..n-1
    BY DEF Bijection, Injection
<1>2. f \in [S -> 0..k-1]
    BY <1>1 DEF Before
<1>3. \A d, e \in S : f[d] = f[e] => d = e
    BY DEF Before, Bijection, Injection, IsInjective
<1>4. ASSUME NEW i \in 0..k-1 PROVE \E d \in S : f[d] = i
  <2>1. i \in 0..n-1
    OBVIOUS
  <2>2. PICK d \in O : rank[d] = i
    BY <2>1 DEF Bijection, Surjection
  <2> QED
    BY <2>2 DEF Before
<1> HIDE DEF f
<1>5. f \in Bijection(S, 0..k-1)
    BY <1>2, <1>3, <1>4 DEF Bijection, Injection, Surjection, IsInjective
<1>6. IsFiniteSet(S)
  <2>1. S \in SUBSET O
    BY DEF Before
  <2> QED
    BY <2>1, FS_Subset
<1> HIDE DEF S
<1>7. Cardinality(0..k-1) = Cardinality(S)
    BY <1>5, <1>6, FS_Bijection DEF ExistsBijection
<1>8. Cardinality(0..k-1) = k
    BY FS_Interval
<1> QED
    BY <1>7, <1>8 DEF S

\* When they are in order, each is beaten by those that come before it, and by no other.
LEMMA OrderIs ==
    ASSUME NEW O, IsFiniteSet(O), NEW B \in [O -> SUBSET O], InOrder(O, B),
           \A c, d \in O : d \in B[c] => c \notin B[d]
    PROVE  /\ Places(O, B) \in Bijection(O, 0..Cardinality(O) - 1)
           /\ \A c \in O : B[c] = Before(O, Places(O, B), Places(O, B)[c])
<1> DEFINE n == Cardinality(O)
           rank == Places(O, B)
           P == {k \in 0..n : \A c \in O : rank[c] >= n - k => B[c] = Before(O, rank, rank[c])}
<1>1. n \in Nat
    BY FS_CardinalityType
<1>2. \A c \in O : rank[c] = Cardinality(B[c]) /\ rank[c] \in 0..n-1
  <2>1. \A c \in O : Cardinality(B[c]) \in {Cardinality(B[d]) : d \in O}
    OBVIOUS
  <2> QED
    BY <2>1 DEF InOrder, Places
<1>3. rank \in Surjection(O, 0..n-1)
  <2>1. ASSUME NEW i \in 0..n-1 PROVE \E c \in O : rank[c] = i
    <3>1. i \in {Cardinality(B[d]) : d \in O}
        BY DEF InOrder
    <3> QED
        BY <1>2, <3>1
  <2>2. rank \in [O -> 0..n-1]
    BY <1>2 DEF Places
  <2> HIDE DEF rank, n
  <2> QED
    BY <2>1, <2>2 DEF Surjection
<1>4. rank \in Bijection(O, 0..n-1)
  <2>1. Cardinality(0..n-1) = n
    BY <1>1, FS_Interval
  <2> HIDE DEF rank
  <2>2. rank \in Injection(O, 0..n-1)
    BY <1>3, <2>1, FS_SurjSameCardinalityImpliesInj
  <2> QED
    BY <1>3, <2>2 DEF Bijection
<1> HIDE DEF rank, n
<1>5. 0 \in P
    BY <1>1, <1>2
<1>6. ASSUME NEW k \in 1..n, k - 1 \in P PROVE k \in P
  <2>1. SUFFICES ASSUME NEW c \in O, rank[c] = n - k PROVE B[c] = Before(O, rank, rank[c])
    <3>1. k \in 0..n
        BY <1>1
    <3>2. \A c \in O : rank[c] >= n - (k - 1) => B[c] = Before(O, rank, rank[c])
        BY <1>6
    <3>3. \A c \in O : rank[c] >= n - k => rank[c] >= n - (k - 1) \/ rank[c] = n - k
        BY <1>1, <1>2
    <3> QED
        BY <2>1, <3>1, <3>2, <3>3
  <2>2. B[c] \in SUBSET Before(O, rank, rank[c])
    <3> SUFFICES ASSUME NEW d \in B[c], ~(rank[d] < rank[c]) PROVE FALSE
        BY DEF Before
    <3>1. d \in O /\ c \notin B[d] /\ d # c
        OBVIOUS
    <3>2. rank[d] # rank[c]
        BY <1>2, <1>4, <3>1 DEF Bijection, Injection, IsInjective
    <3>3. rank[d] >= n - (k - 1) /\ rank[c] < rank[d]
        BY <1>1, <1>2, <2>1, <3>1, <3>2
    <3>4. B[d] = Before(O, rank, rank[d])
        BY <1>6, <3>1, <3>3
    <3> QED
        BY <3>1, <3>3, <3>4 DEF Before
  <2>3. Cardinality(Before(O, rank, rank[c])) = rank[c]
    <3>1. rank[c] \in 0..n
        BY <1>1, <1>2
    <3> QED
        BY <1>1, <1>4, <3>1, CountBefore
  <2>4. IsFiniteSet(Before(O, rank, rank[c]))
    <3>1. Before(O, rank, rank[c]) \in SUBSET O
        BY DEF Before
    <3> QED
        BY <3>1, FS_Subset
  <2> QED
    BY <1>2, <2>2, <2>3, <2>4, FS_Subset
<1> HIDE DEF P
<1>7. \A k \in 0..n : k \in P
    BY <1>1, <1>5, <1>6, Upwards
<1>8. ASSUME NEW c \in O PROVE B[c] = Before(O, rank, rank[c])
  <2>1. n \in P /\ rank[c] >= n - n
    BY <1>1, <1>2, <1>7
  <2> QED
    BY <2>1 DEF P
<1> QED
    BY <1>4, <1>8 DEF rank, n

-----------------------------------------------------------------------------
(* The candidate that beats all others                                     *)

\* A candidate that beats every other one is the only winner.
LEMMA FirstWins ==
    ASSUME NEW counter, Rated(counter), NEW f \in RatedOptions(counter),
           \A y \in RatedOptions(counter) \ {f} : Beats(counter, f, y)
    PROVE  SchulzeWinners(counter) = {f}
<1> DEFINE all == RatedOptions(counter)
           D == {path \in [all \X all -> Nat] :
                    \A y \in all \ {f} : path[<<f, y>>] > 0 /\ path[<<y, f>>] = 0}
<1>1. \A x, y \in all : Prefers(counter, x, y) \in Nat
    BY PrefersIs DEF Rated
<1>2. Direct(counter) \in D
  <2> DEFINE path == Direct(counter)
             p(x, y) == Prefers(counter, x, y)
  <2>1. /\ path = [pair \in all \X all |-> path[pair]]
        /\ \A x, y \in all : path[<<x, y>>] = IF p(x, y) > p(y, x) THEN p(x, y) ELSE 0
    BY DEF Direct
  <2>2. \A x, y \in all : p(x, y) \in Nat
    BY <1>1
  <2>3. \A y \in all \ {f} : p(f, y) > p(y, f)
    BY DEF Beats
  <2>4. f \in all
    OBVIOUS
  <2> HIDE DEF path, p, all, D
  <2>5. ASSUME NEW x \in all, NEW y \in all PROVE path[<<x, y>>] \in Nat
    <3>1. path[<<x, y>>] = p(x, y) \/ path[<<x, y>>] = 0
        BY <2>1
    <3>2. p(x, y) \in Nat
        BY <2>2
    <3> QED
        BY <3>1, <3>2
  <2>6. path \in [all \X all -> Nat]
    <3>1. \A pair \in all \X all : path[pair] \in Nat
        BY <2>5
    <3>2. path = [pair \in all \X all |-> path[pair]]
        BY <2>1
    <3> QED
        BY <3>1, <3>2
  <2>7. ASSUME NEW y \in all \ {f} PROVE path[<<f, y>>] > 0 /\ path[<<y, f>>] = 0
    <3>1. p(f, y) \in Nat /\ p(y, f) \in Nat /\ p(f, y) > p(y, f)
        BY <2>2, <2>3, <2>4
    <3>2. path[<<f, y>>] = IF p(f, y) > p(y, f) THEN p(f, y) ELSE 0
        BY <2>1, <2>4
    <3>3. path[<<y, f>>] = IF p(y, f) > p(f, y) THEN p(y, f) ELSE 0
        BY <2>1, <2>4
    <3> QED
        BY <3>1, <3>2, <3>3
  <2> QED
    BY <2>6, <2>7 DEF D, path
<1>3. ASSUME NEW path \in D, NEW k \in all PROVE Via(all, path, k) \in D
  <2> DEFINE new == Via(all, path, k)
             short(x, y) == Min({path[<<x, k>>], path[<<k, y>>]})
  <2>1. /\ new = [pair \in all \X all |-> new[pair]]
        /\ \A x, y \in all : new[<<x, y>>] = Max({path[<<x, y>>], short(x, y)})
    BY DEF Via
  <2>2. \A x, y \in all : path[<<x, y>>] \in Nat
    OBVIOUS
  <2>3. \A y \in all \ {f} : path[<<f, y>>] > 0 /\ path[<<y, f>>] = 0
    OBVIOUS
  <2>4. f \in all
    OBVIOUS
  <2> HIDE DEF new, D
  <2>5. ASSUME NEW x \in all, NEW y \in all
        PROVE  short(x, y) = IF path[<<x, k>>] <= path[<<k, y>>]
                             THEN path[<<x, k>>] ELSE path[<<k, y>>]
    BY <2>2, MinOfTwo
  <2> HIDE DEF short
  <2>6. ASSUME NEW x \in all, NEW y \in all
        PROVE  /\ short(x, y) \in Nat
               /\ new[<<x, y>>] = IF path[<<x, y>>] >= short(x, y)
                                  THEN path[<<x, y>>] ELSE short(x, y)
    <3>1. short(x, y) \in Nat
        BY <2>2, <2>5
    <3>2. path[<<x, y>>] \in Nat
        BY <2>2
    <3>3. Max({path[<<x, y>>], short(x, y)})
          = IF path[<<x, y>>] >= short(x, y) THEN path[<<x, y>>] ELSE short(x, y)
        BY <3>1, <3>2, MaxOfTwo
    <3> QED
        BY <2>1, <3>1, <3>3
  <2>7. ASSUME NEW y \in all \ {f} PROVE new[<<f, y>>] > 0 /\ new[<<y, f>>] = 0
    <3>1. path[<<f, y>>] > 0 /\ path[<<y, f>>] = 0 /\ path[<<f, y>>] \in Nat
        BY <2>2, <2>3, <2>4
    <3>2. short(y, f) = 0
        <4>1. CASE k = f
            <5>1. path[<<y, k>>] = 0 /\ path[<<k, f>>] \in Nat
                BY <2>2, <2>4, <3>1, <4>1
            <5> QED
                BY <2>4, <2>5, <5>1
        <4>2. CASE k # f
            <5>1. path[<<k, f>>] = 0 /\ path[<<y, k>>] \in Nat
                BY <2>2, <2>3, <4>2
            <5> QED
                BY <2>4, <2>5, <5>1
        <4> QED
            BY <4>1, <4>2
    <3> QED
        BY <2>4, <2>6, <3>1, <3>2
  <2>8. new \in [all \X all -> Nat]
    <3>1. \A x, y \in all : new[<<x, y>>] \in Nat
        BY <2>2, <2>6
    <3>2. new = [pair \in all \X all |-> new[pair]]
        BY <2>1
    <3> HIDE DEF all
    <3>3. \A pair \in all \X all : new[pair] \in Nat
        BY <3>1
    <3> QED
        BY <3>2, <3>3
  <2> QED
    BY <2>7, <2>8 DEF D, new
<1>4. StrongPaths(counter) \in D
  <2> HIDE DEF D
  <2> QED
    BY <1>2, <1>3, StrongPathsAre DEF Rated
<1> DEFINE path == StrongPaths(counter)
<1>5. /\ \A y \in all \ {f} : path[<<f, y>>] > 0 /\ path[<<y, f>>] = 0
      /\ path[<<f, f>>] \in Nat
    BY <1>4
<1> HIDE DEF path
<1>6. f \in SchulzeWinners(counter)
  <2> SUFFICES ASSUME NEW d \in all PROVE path[<<f, d>>] >= path[<<d, f>>]
    BY DEF SchulzeWinners, path
  <2>1. path[<<f, d>>] \in Nat
    BY <1>4 DEF path
  <2> QED
    BY <1>5, <2>1
<1>7. ASSUME NEW w \in SchulzeWinners(counter) PROVE w = f
  <2>1. w \in all /\ path[<<w, f>>] >= path[<<f, w>>]
    BY DEF SchulzeWinners, path
  <2>2. path[<<w, f>>] \in Nat /\ path[<<f, w>>] \in Nat
    BY <1>4, <2>1 DEF path
  <2> QED
    BY <1>5, <2>1, <2>2
<1> QED
    BY <1>6, <1>7

-----------------------------------------------------------------------------
(* Elections that follow the order of the majorities                       *)

\* Who beats each option.
BeatenBy(O, counter) == [c \in O |-> {d \in O : Beats(counter, d, c)}]

\* The order of the options of a poll by the majorities; all but the last are rated.
IsRanking(poll, counter, rank) ==
    LET O == SchulzeOptions(poll) IN
    /\ rank \in Bijection(O, 0..Cardinality(O) - 1)
    /\ \A c, d \in O : Beats(counter, d, c) <=> rank[d] < rank[c]
    /\ \A c \in O : rank[c] < Cardinality(O) - 1 => c \in RatedOptions(counter)

\* The first k options of the order, up to the option to deny.
Leading(poll, rank, k) ==
    {c \in SchulzeOptions(poll) : rank[c] < k /\ (poll.deny => rank[c] <= rank[Deny])}

\* The ranks are numbers that no two options share, and every one is taken.
LEMMA RanksOf ==
    ASSUME NEW O, NEW n \in Nat, NEW rank \in Bijection(O, 0..n-1)
    PROVE  /\ \A c \in O : rank[c] \in 0..n-1
           /\ \A c, d \in O : rank[c] = rank[d] => c = d
           /\ \A k \in 0..n-1 : \E c \in O : rank[c] = k
<1>1. rank \in [O -> 0..n-1]
    BY DEF Bijection, Injection
<1>2. \A c, d \in O : rank[c] = rank[d] => c = d
    BY <1>1 DEF Bijection, Injection, IsInjective
<1>3. \A k \in 0..n-1 : \E c \in O : rank[c] = k
    BY DEF Bijection, Surjection
<1> QED
    BY <1>1, <1>2, <1>3

\* Majorities that put the options in an order are a ranking.
LEMMA RankingIs ==
    ASSUME NEW poll \in Polls, poll.method \in {"schulze", "repeated_schulze"},
           NEW counter, Tally(counter), DOMAIN counter \subseteq BallotsOf(poll),
           InOrder(SchulzeOptions(poll), BeatenBy(SchulzeOptions(poll), counter))
    PROVE  IsRanking(poll, counter, Places(SchulzeOptions(poll), BeatenBy(SchulzeOptions(poll), counter)))
<1> DEFINE O == SchulzeOptions(poll)
           B == BeatenBy(O, counter)
           rank == Places(O, B)
           n == Cardinality(O)
<1>1. IsFiniteSet(O) /\ n \in Nat
    BY PollTypes, FS_CardinalityType
<1>2. B \in [O -> SUBSET O] /\ \A c, d \in O : d \in B[c] <=> Beats(counter, d, c)
    BY DEF BeatenBy
<1>3. \A c, d \in O : Beats(counter, d, c) => ~Beats(counter, c, d)
    BY PrefersIs DEF Beats
<1> HIDE DEF B, O
<1>4. /\ rank \in Bijection(O, 0..n - 1)
      /\ \A c \in O : B[c] = Before(O, rank, rank[c])
  <2>1. InOrder(O, B)
    BY DEF B, O
  <2>2. \A c, d \in O : d \in B[c] => c \notin B[d]
    BY <1>2, <1>3
  <2> QED
    BY <1>1, <1>2, <2>1, <2>2, OrderIs
<1> HIDE DEF rank, n
<1>5. \A c, d \in O : Beats(counter, d, c) <=> rank[d] < rank[c]
    BY <1>2, <1>4 DEF Before
<1>6. ASSUME NEW c \in O, rank[c] < n - 1 PROVE c \in RatedOptions(counter)
  <2>1. n - 1 \in 0..n-1 /\ rank[c] \in 0..n-1
    BY <1>1, <1>4, <1>6, RanksOf
  <2>2. PICK d \in O : rank[d] = n - 1
    BY <1>1, <1>4, <2>1, RanksOf
  <2>3. Prefers(counter, c, d) > Prefers(counter, d, c)
    BY <1>5, <1>6, <2>2 DEF Beats
  <2>4. Prefers(counter, c, d) \in Nat /\ Prefers(counter, d, c) \in Nat
        /\ Prefers(counter, c, d) = Sum(counter, RateAbove(counter, c, d))
    BY PrefersIs
  <2>5. RateAbove(counter, c, d) # {}
    <3>1. {} \in SUBSET DOMAIN counter
        OBVIOUS
    <3>2. Sum(counter, {}) = 0
        BY <3>1, SumRule DEF Tally
    <3> QED
        BY <2>3, <2>4, <3>2
  <2>6. PICK b \in DOMAIN counter : Rating(b, c) > Rating(b, d)
    BY <2>5 DEF RateAbove
  <2>7. c \in DOMAIN b
    <3>1. b \in BallotsOf(poll)
        OBVIOUS
    <3> QED
        BY <2>6, <3>1, RatingsAre
  <2> QED
    BY <2>7 DEF RatedOptions
<1> QED
    BY <1>4, <1>5, <1>6 DEF IsRanking, rank, n, O, B

\* By Schulze the first option wins.
LEMMA SchulzeFollows ==
    ASSUME NEW poll \in Polls, poll.method = "schulze", SchulzeStart(poll),
           NEW counter, Rated(counter), RatedOptions(counter) \subseteq SchulzeOptions(poll),
           NEW rank, IsRanking(poll, counter, rank),
           NEW r \in SchulzeResult(poll, counter)
    PROVE  r.approved = Leading(poll, rank, 1) \ {Deny}
<1> DEFINE O == SchulzeOptions(poll)
           n == Cardinality(O)
<1>1. IsFiniteSet(O) /\ n \in Nat /\ Size(poll) \in Nat
    BY PollTypes, FS_CardinalityType DEF Size
<1>2. n >= 2
  <2>1. poll.proposals \in SUBSET O
    BY DEF SchulzeOptions
  <2>2. Size(poll) <= n
    BY <1>1, <2>1, FS_Subset DEF Size
  <2>3. Size(poll) >= 2
    BY <1>1 DEF SchulzeStart
  <2> QED
    BY <1>1, <2>2, <2>3
<1>3. /\ rank \in Bijection(O, 0..n - 1)
      /\ \A c, d \in O : Beats(counter, d, c) <=> rank[d] < rank[c]
      /\ \A c \in O : rank[c] < n - 1 => c \in RatedOptions(counter)
    BY DEF IsRanking
<1> HIDE DEF O, n
<1>4. /\ \A c \in O : rank[c] \in 0..n-1
      /\ \A c, d \in O : rank[c] = rank[d] => c = d
      /\ \A k \in 0..n-1 : \E c \in O : rank[c] = k
    BY <1>1, <1>3, RanksOf
<1>5. PICK f \in O : rank[f] = 0
  <2>1. 0 \in 0..n-1
    BY <1>1, <1>2
  <2> QED
    BY <1>4, <2>1
<1>6. f \in RatedOptions(counter)
    BY <1>1, <1>2, <1>3, <1>5
<1>7. ASSUME NEW y \in RatedOptions(counter) \ {f} PROVE Beats(counter, f, y)
  <2>1. y \in O /\ y # f
    BY DEF O
  <2>2. rank[y] \in 0..n-1 /\ rank[y] # 0
    BY <1>4, <1>5, <2>1
  <2>3. rank[f] < rank[y]
    BY <1>5, <2>2
  <2> QED
    BY <1>3, <2>1, <2>3
<1>8. SchulzeWinners(counter) = {f}
    BY <1>6, <1>7, FirstWins
<1>9. r.approved = {f} \ {Deny}
    BY <1>8 DEF SchulzeResult, SchulzeVerdict, Verdict, NoVerdict
<1>10. Leading(poll, rank, 1) = {f}
  <2>1. \A c \in O : rank[c] < 1 <=> c = f
    BY <1>4, <1>5
  <2>2. poll.deny => Deny \in O
    BY DEF SchulzeOptions, O
  <2>3. poll.deny => rank[f] <= rank[Deny]
    BY <1>4, <1>5, <2>2
  <2> QED
    BY <2>1, <2>3, <1>5 DEF Leading, O
<1> QED
    BY <1>9, <1>10

\* Of what the first k options leave, the next one wins.
LEMMA NextWins ==
    ASSUME NEW poll, NEW counter, Rated(counter),
           RatedOptions(counter) \subseteq SchulzeOptions(poll), IsFiniteSet(SchulzeOptions(poll)),
           NEW rank, IsRanking(poll, counter, rank), NEW k \in Nat,
           k < Cardinality(SchulzeOptions(poll)) - 1,
           NEW f \in SchulzeOptions(poll), rank[f] = k,
           NEW w \in SchulzeWinners(WithoutElected(counter, Before(SchulzeOptions(poll), rank, k)))
    PROVE  w = f
<1> DEFINE O == SchulzeOptions(poll)
           n == Cardinality(O)
           gone == Before(O, rank, k)
           left == WithoutElected(counter, gone)
<1>1. n \in Nat
    BY FS_CardinalityType
<1>2. /\ rank \in Bijection(O, 0..n - 1)
      /\ \A c, d \in O : Beats(counter, d, c) <=> rank[d] < rank[c]
      /\ \A c \in O : rank[c] < n - 1 => c \in RatedOptions(counter)
    BY DEF IsRanking
<1> HIDE DEF O, n
<1>3. /\ \A c \in O : rank[c] \in 0..n-1
      /\ \A c, d \in O : rank[c] = rank[d] => c = d
    BY <1>1, <1>2, RanksOf
<1>4. f \in O /\ f \in RatedOptions(counter) /\ f \notin gone
    BY <1>2 DEF O, n, Before
<1>5. Rated(left) /\ RatedOptions(left) = RatedOptions(counter) \ gone
    BY LeftCanBeCompared, OptionsLeft
<1>6. ASSUME NEW y \in RatedOptions(left) \ {f} PROVE Beats(left, f, y)
  <2>1. y \in O /\ y # f /\ y \notin gone
    BY <1>5 DEF O
  <2>2. rank[y] \in 0..n-1 /\ rank[y] # k /\ ~(rank[y] < k)
    BY <1>3, <1>4, <2>1 DEF Before
  <2>3. rank[f] < rank[y]
    BY <2>2
  <2>4. Beats(counter, f, y)
    BY <1>2, <1>4, <2>1, <2>3
  <2> HIDE DEF gone
  <2>5. /\ Prefers(left, f, y) = Prefers(counter, f, y)
        /\ Prefers(left, y, f) = Prefers(counter, y, f)
    BY <1>4, <2>1, LeftPreferred DEF Rated
  <2> QED
    BY <2>4, <2>5 DEF Beats
<1>7. f \in RatedOptions(left)
    BY <1>4, <1>5
<1> HIDE DEF left
<1>8. SchulzeWinners(left) = {f}
    BY <1>5, <1>6, <1>7, FirstWins
<1> QED
    BY <1>8 DEF left, gone, O

\* The elections elect those of T, in any order.
Elects(E, T) == \A r \in E : ToSet(r) = T

\* After k rounds the leading options are elected, and no other.
LEMMA RoundsFollow ==
    ASSUME NEW poll, NEW n \in Nat, NEW counter, Rated(counter),
           RatedOptions(counter) \subseteq SchulzeOptions(poll), IsFiniteSet(SchulzeOptions(poll)),
           NEW rank, IsRanking(poll, counter, rank), n < Cardinality(SchulzeOptions(poll)),
           ~poll.deny => Deny \notin SchulzeOptions(poll),
           NEW e, e[0] = {<<>>},
           \A k \in 1..n : e[k] = SchulzeRound(poll, counter, e[k-1]),
           \A k \in 0..n : e[k] \in SUBSET Seq(RatedOptions(counter))
    PROVE  \A k \in 0..n : Elects(e[k], Leading(poll, rank, k))
<1> DEFINE O == SchulzeOptions(poll)
           m == Cardinality(O)
           P == {k \in 0..n : \A r \in e[k] : ToSet(r) = Leading(poll, rank, k)}
<1>1. m \in Nat
    BY FS_CardinalityType
<1>2. rank \in Bijection(O, 0..m - 1)
    BY DEF IsRanking
<1> HIDE DEF O, m
<1>3. /\ \A c \in O : rank[c] \in 0..m-1
      /\ \A c, d \in O : rank[c] = rank[d] => c = d
      /\ \A k \in 0..m-1 : \E c \in O : rank[c] = k
    BY <1>1, <1>2, RanksOf
<1>4. poll.deny => Deny \in O
    BY DEF SchulzeOptions, O
<1>5. 0 \in P
  <2>1. ToSet(<<>>) = {}
    BY DEF ToSet
  <2>2. Leading(poll, rank, 0) = {}
    BY <1>3 DEF Leading, O
  <2>3. \A r \in e[0] : ToSet(r) = Leading(poll, rank, 0)
    BY <2>1, <2>2
  <2> QED
    BY <2>3
<1>6. ASSUME NEW k \in 1..n, k - 1 \in P PROVE k \in P
  <2>1. k \in 0..n /\ k - 1 \in 0..n
    OBVIOUS
  <2>2. ASSUME NEW r \in e[k] PROVE ToSet(r) = Leading(poll, rank, k)
    <3>1. r \in SchulzeRound(poll, counter, e[k-1]) /\ e[k-1] \in SUBSET Seq(RatedOptions(counter))
        BY <2>1
    <3>2. \A q \in e[k-1] : ToSet(q) = Leading(poll, rank, k - 1)
        BY <1>6
    <3> HIDE DEF P
    <3>3. CASE r \in e[k-1] /\ poll.deny /\ Contains(r, Deny)
        <4>1. ToSet(r) = Leading(poll, rank, k - 1)
            BY <3>2, <3>3
        <4>2. Deny \in ToSet(r)
            BY <3>1, <3>3 DEF Contains, ToSet
        <4>3. rank[Deny] < k - 1 /\ rank[Deny] \in Nat
            BY <1>3, <1>4, <3>3, <4>1, <4>2 DEF Leading
        <4>4. \A c \in O : rank[c] <= rank[Deny] => rank[c] < k - 1 /\ rank[c] < k
            BY <1>3, <4>3
        <4> QED
            BY <3>3, <4>1, <4>4 DEF Leading, O
    <3>4. CASE \E rounds \in e[k-1] :
                  \E w \in SchulzeWinners(WithoutElected(counter, ToSet(rounds))) :
                     /\ ~(poll.deny /\ Contains(rounds, Deny))
                     /\ r = Append(rounds, w) /\ w \in RatedOptions(counter) \ ToSet(rounds)
        <4>1. PICK rounds \in e[k-1] :
                  \E w \in SchulzeWinners(WithoutElected(counter, ToSet(rounds))) :
                     /\ ~(poll.deny /\ Contains(rounds, Deny))
                     /\ r = Append(rounds, w)
            BY <3>4
        <4>2. PICK w \in SchulzeWinners(WithoutElected(counter, ToSet(rounds))) :
                     /\ ~(poll.deny /\ Contains(rounds, Deny))
                     /\ r = Append(rounds, w)
            BY <4>1
        <4>3. rounds \in Seq(RatedOptions(counter)) /\ ToSet(rounds) = Leading(poll, rank, k - 1)
            BY <3>1, <3>2
        <4>4. poll.deny => Deny \notin ToSet(rounds)
            BY <4>2, <4>3 DEF Contains, ToSet
        <4>5. poll.deny => rank[Deny] >= k - 1 /\ rank[Deny] \in Nat
            BY <1>3, <1>4, <4>3, <4>4 DEF Leading, O
        <4>6. \A c \in O : rank[c] < k => (poll.deny => rank[c] <= rank[Deny])
            BY <1>3, <4>5
        <4>7. Leading(poll, rank, k - 1) = Before(O, rank, k - 1)
            <5>1. \A c \in O : rank[c] < k - 1 => rank[c] < k
                BY <1>3
            <5> QED
                BY <4>6, <5>1 DEF Leading, Before, O
        <4>8. k - 1 \in Nat /\ k - 1 < m - 1 /\ k - 1 \in 0..m-1
            BY <1>1 DEF m, O
        <4>9. PICK f \in O : rank[f] = k - 1
            BY <1>3, <4>8
        <4>10. w = f
            BY <4>2, <4>3, <4>7, <4>8, <4>9, NextWins DEF m, O
        <4>11. ToSet(r) = Before(O, rank, k - 1) \cup {f}
            BY <4>2, <4>3, <4>7, <4>10, ElementsOfAppend
        <4>12. \A c \in O : rank[c] < k <=> rank[c] < k - 1 \/ c = f
            BY <1>3, <4>9
        <4> QED
            BY <4>6, <4>9, <4>11, <4>12 DEF Leading, Before, O
    <3> QED
        BY <3>1, <3>3, <3>4, OneMoreRound
  <2> QED
    BY <2>1, <2>2
<1> HIDE DEF P
<1>7. \A k \in 0..n : k \in P
    BY <1>5, <1>6, Upwards
<1> QED
    BY <1>7 DEF P, Elects

\* By repeated Schulze the leading options win, as many as there are winners.
LEMMA RepeatedSchulzeFollows ==
    ASSUME NEW poll \in Polls, poll.method = "repeated_schulze", RepeatedSchulzeStart(poll),
           poll.winners # NoWinners,
           NEW counter, Rated(counter), RatedOptions(counter) \subseteq SchulzeOptions(poll),
           NEW rank, IsRanking(poll, counter, rank),
           NEW r \in RepeatedSchulzeResult(poll, counter)
    PROVE  r.approved = Leading(poll, rank, poll.winners) \ {Deny}
<1> DEFINE n == RoundsToDo(poll)
<1>1. n = poll.winners /\ n \in Nat
    BY PollTypes DEF RoundsToDo
<1>2. PICK rounds \in RepeatedSchulzeRounds(poll, counter) :
         r.approved = ToSet(rounds) \ {Deny}
    BY DEF RepeatedSchulzeResult, Verdict, NoVerdict
<1> HIDE DEF n
<1>3. IsFiniteSet(SchulzeOptions(poll)) /\ (~poll.deny => Deny \notin SchulzeOptions(poll))
    BY PollTypes, AlgorithmsAssumption DEF SchulzeOptions
<1>4. n < Cardinality(SchulzeOptions(poll))
  <2>1. IsFiniteSet(poll.proposals) /\ Size(poll) \in Nat
    BY PollTypes DEF Size
  <2>2. CASE poll.deny
    <3>1. SchulzeOptions(poll) = poll.proposals \cup {Deny} /\ Deny \notin poll.proposals
        BY <2>2, AlgorithmsAssumption DEF SchulzeOptions
    <3>2. Cardinality(SchulzeOptions(poll)) = Size(poll) + 1
        BY <2>1, <3>1, FS_AddElement DEF Size
    <3>3. Size(poll) >= poll.winners
        BY <1>1, <2>1, <2>2 DEF RepeatedSchulzeStart
    <3> QED
        BY <1>1, <2>1, <3>2, <3>3
  <2>3. CASE ~poll.deny
    <3>1. SchulzeOptions(poll) = poll.proposals
        BY <2>3 DEF SchulzeOptions
    <3>2. Size(poll) >= poll.winners + 1
        BY <2>3 DEF RepeatedSchulzeStart
    <3> QED
        BY <1>1, <2>1, <3>1, <3>2 DEF Size
  <2> QED
    BY <2>2, <2>3
<1>5. PICK e : /\ e[0] = {<<>>}
               /\ \A k \in 1..n : e[k] = SchulzeRound(poll, counter, e[k-1])
               /\ \A k \in 0..n : e[k] \in SUBSET Seq(RatedOptions(counter))
               /\ e[n] = RepeatedSchulzeRounds(poll, counter)
  <2>1. RoundsToDo(poll) \in Nat
    BY <1>1 DEF n
  <2> QED
    BY <2>1, SchulzeRoundsAre DEF n
<1>6. \A k \in 0..n : Elects(e[k], Leading(poll, rank, k))
    BY <1>1, <1>3, <1>4, <1>5, RoundsFollow
<1>7. n \in 0..n
    BY <1>1
<1>8. ToSet(rounds) = Leading(poll, rank, n)
    BY <1>2, <1>5, <1>6, <1>7 DEF Elects
<1> QED
    BY <1>1, <1>2, <1>8

\* When the majorities put the options in an order, it decides the Schulze polls.
LEMMA MajorityOrderHolds == PollsAreCounted => MajorityOrderDecides
<1> SUFFICES ASSUME PollsAreCounted, Done("poll"),
                    task.poll.method \in {"schulze", "repeated_schulze"}, Seats(task.poll) > 0,
                    {Cardinality(Better(c)) : c \in Options} = 0..Cardinality(Options) - 1
             PROVE  result.approved
                    = {c \in Options \ {Deny} :
                          Cardinality(Better(c)) < Seats(task.poll) /\ Deny \notin Better(c)}
    BY DEF MajorityOrderDecides
<1> DEFINE poll == task.poll
           votes == task.votes
           weight == task.weight
           counter == Counter(votes, weight)
           O == SchulzeOptions(poll)
           B == BeatenBy(O, counter)
           rank == Places(O, B)
<1>1. /\ poll \in Polls /\ StartCheck(poll) /\ weight \in Weights
      /\ votes \in [PollVoters -> Countable(poll)]
      /\ result \in CalculateResult(poll, counter)
    BY DEF PollsAreCounted, PollTask, Done
<1>2. Countable(poll) \subseteq BallotsOf(poll)
    BY DEF Countable
<1>3. Tally(counter) /\ DOMAIN counter \subseteq BallotsOf(poll)
  <2>1. Tally(counter) /\ DOMAIN counter \subseteq Countable(poll)
    BY <1>1, CounterIs
  <2> QED
    BY <1>2, <2>1
<1>4. ASSUME NEW c, NEW d
      PROVE  MapThenSumSet(LAMBDA v : task.weight[v], {v \in PollVoters : PutsBefore(task.votes[v], c, d)})
             = Prefers(counter, c, d)
  <2> DEFINE s == {v \in PollVoters : PutsBefore(votes[v], c, d)}
             t == WhoRatesAbove(votes, c, d)
  <2>1. ASSUME NEW v \in PollVoters
        PROVE  PutsBefore(votes[v], c, d) <=> Rating(votes[v], c) > Rating(votes[v], d)
    <3>1. votes[v] \in BallotsOf(poll)
        BY <1>1, <1>2
    <3>2. PutsBefore(votes[v], c, d)
          <=> (c \in DOMAIN votes[v] /\ (d \in DOMAIN votes[v] => votes[v][c] > votes[v][d]))
        BY DEF PutsBefore
    <3> HIDE DEF votes, poll
    <3> QED
        BY <1>1, <3>1, <3>2, RatingsAre DEF poll
  <2>2. s = t
    BY <2>1 DEF WhoRatesAbove
  <2>3. Prefers(counter, c, d) = Sum(weight, t)
    <3>1. weight \in Weights /\ votes \in [PollVoters -> Countable(poll)]
        BY <1>1
    <3> HIDE DEF weight, votes, poll
    <3> QED
        BY <3>1, VotersPrefer
  <2>4. MapThenSumSet(LAMBDA v : weight[v], s) = Sum(weight, s)
    BY SumIs
  <2> QED
    BY <2>2, <2>3, <2>4
<1> HIDE DEF counter
<1>5. ASSUME NEW c, NEW d PROVE Majority(c, d) <=> Beats(counter, c, d)
  <2>1. Majority(c, d)
        <=> MapThenSumSet(LAMBDA v : task.weight[v], {v \in PollVoters : PutsBefore(task.votes[v], c, d)})
            > MapThenSumSet(LAMBDA v : task.weight[v], {v \in PollVoters : PutsBefore(task.votes[v], d, c)})
    BY DEF Majority
  <2> QED
    BY <1>4, <2>1 DEF Beats
<1>6. \A c \in O : B[c] = Better(c)
    BY <1>5 DEF BeatenBy, Better, Options
<1>7. InOrder(O, B)
    BY <1>6 DEF InOrder, Options
<1>8. IsRanking(poll, counter, rank)
    BY <1>1, <1>3, <1>7, RankingIs
<1>9. \A c \in O : rank[c] = Cardinality(Better(c))
    BY <1>6 DEF Places
<1>10. \A c, d \in O : d \in Better(c) <=> rank[d] < rank[c]
    BY <1>5, <1>8 DEF IsRanking, Better, Options
<1>11. Rated(counter) /\ RatedOptions(counter) \subseteq O
    BY <1>1, <1>3, RatedCounter
<1>12. result.approved = Leading(poll, rank, Seats(poll)) \ {Deny}
  <2> HIDE DEF rank
  <2>1. CASE poll.method = "schulze"
    <3>1. Seats(poll) = 1 /\ SchulzeStart(poll) /\ result \in SchulzeResult(poll, counter)
        BY <1>1, <2>1 DEF Seats, StartCheck, CalculateResult
    <3> HIDE DEF poll
    <3> QED
        BY <1>1, <1>8, <1>11, <2>1, <3>1, SchulzeFollows DEF O
  <2>2. CASE poll.method = "repeated_schulze"
    <3>1. /\ RepeatedSchulzeStart(poll) /\ result \in RepeatedSchulzeResult(poll, counter)
          /\ poll.winners # NoWinners /\ Seats(poll) = poll.winners
        BY <1>1, <2>2 DEF Seats, StartCheck, CalculateResult
    <3> HIDE DEF poll
    <3> QED
        BY <1>1, <1>8, <1>11, <2>2, <3>1, RepeatedSchulzeFollows DEF O
  <2> QED
    BY <2>1, <2>2
<1>13. \A c \in O : rank[c] \in Nat
  <2>1. IsFiniteSet(O) /\ Cardinality(O) \in Nat
    BY <1>1, PollTypes, FS_CardinalityType
  <2>2. rank \in Bijection(O, 0..Cardinality(O) - 1)
    BY <1>8 DEF IsRanking
  <2> HIDE DEF rank, O
  <2>3. \A c \in O : rank[c] \in 0..Cardinality(O) - 1
    BY <2>1, <2>2, RanksOf
  <2> QED
    BY <2>1, <2>3
<1>14. ASSUME NEW c \in O
       PROVE  (poll.deny => rank[c] <= rank[Deny]) <=> Deny \notin Better(c)
  <2>1. CASE poll.deny
    <3>1. Deny \in O
        BY <2>1 DEF SchulzeOptions
    <3> QED
        BY <1>10, <1>13, <2>1, <3>1
  <2>2. CASE ~poll.deny
    <3>1. Deny \notin O
        BY <1>1, <2>2, AlgorithmsAssumption DEF SchulzeOptions
    <3> QED
        BY <2>2, <3>1 DEF Better, Options
  <2> QED
    BY <2>1, <2>2
<1> QED
    BY <1>9, <1>12, <1>14 DEF Leading, Options

\* Whatever the votes and their weights: what all voters put behind an option does not
\* win before it, whichever lots are drawn; and majorities that put the options in an
\* order decide the Schulze polls, down to the option to deny.
THEOREM VerdictsFollowBallots == TaskSpec => []VerdictFollowsBallots
<1>1. PollsAreCounted => VerdictFollowsBallots
    BY UnanimityHolds, MajorityOrderHolds DEF VerdictFollowsBallots
<1> QED
    BY <1>1, PollsAreCountedAlways, PTL

-----------------------------------------------------------------------------
(* Lists                                                                   *)

\* What holds of the empty list and from each list to a longer one holds of all.
LEMMA ListInduction ==
    ASSUME NEW S, NEW P, <<>> \in P,
           \A s \in Seq(S), x \in S : s \in P => Append(s, x) \in P
    PROVE  \A s \in Seq(S) : s \in P
<1>1. SUFFICES ASSUME NEW s \in Seq(S) PROVE s \in P
    OBVIOUS
<1> DEFINE n == Len(s)
           Q == {k \in 0..n : SubSeq(s, 1, k) \in P}
<1>2. 0 \in Q
  <2>1. SubSeq(s, 1, 0) = <<>> /\ 0 \in 0..n
    OBVIOUS
  <2> QED
    BY <2>1
<1>3. ASSUME NEW k \in 1..n, k - 1 \in Q PROVE k \in Q
  <2>1. SubSeq(s, 1, k - 1) \in Seq(S) /\ s[k] \in S /\ k \in 0..n
    OBVIOUS
  <2>2. SubSeq(s, 1, k) = Append(SubSeq(s, 1, k - 1), s[k])
    OBVIOUS
  <2>3. SubSeq(s, 1, k - 1) \in P
    BY <1>3
  <2>4. SubSeq(s, 1, k) \in P
    BY <2>1, <2>2, <2>3
  <2> QED
    BY <2>1, <2>4
<1>4. n \in Q
  <2> HIDE DEF Q
  <2>1. n \in Nat
    OBVIOUS
  <2> HIDE DEF n
  <2>2. \A k \in 0..n : k \in Q
    BY <1>2, <1>3, <2>1, Upwards
  <2> QED
    BY <2>1, <2>2
<1>5. SubSeq(s, 1, n) = s
    OBVIOUS
<1> QED
    BY <1>4, <1>5

\* G makes of a value of D and an element of S another value of D.
Folding(G, base, D, S) == base \in D /\ G \in [D \X S -> D]

\* The chain of what G makes, element by element, of base and a list.
IsChain(G, base, seq, e) ==
    e[0] = base /\ \A k \in 1..Len(seq) : e[k] = G[<<e[k-1], seq[k]>>]

ChainOf(G, base, seq) == CHOOSE e : IsChain(G, base, seq, e)
ListFold(G, base, seq) == ChainOf(G, base, seq)[Len(seq)]

\* A chain keeps to the values of G, and there is only one.
LEMMA ChainsAgree ==
    ASSUME NEW D, NEW S, NEW base, NEW G, Folding(G, base, D, S), NEW seq \in Seq(S),
           NEW e, IsChain(G, base, seq, e), NEW f, IsChain(G, base, seq, f)
    PROVE  \A k \in 0..Len(seq) : e[k] \in D /\ f[k] = e[k]
<1> DEFINE n == Len(seq)
           P == {k \in 0..n : e[k] \in D /\ f[k] = e[k]}
<1>1. n \in Nat
    OBVIOUS
<1>2. 0 \in P
    BY <1>1 DEF IsChain, Folding
<1>3. ASSUME NEW k \in 1..n, k - 1 \in P PROVE k \in P
  <2>1. e[k] = G[<<e[k-1], seq[k]>>] /\ e[k-1] \in D /\ seq[k] \in S
    BY <1>3 DEF IsChain
  <2>2. f[k] = G[<<f[k-1], seq[k]>>] /\ f[k-1] = e[k-1]
    BY <1>3 DEF IsChain
  <2>3. e[k] \in D
    <3> HIDE DEF P
    <3> QED
        BY <2>1 DEF Folding
  <2>4. k \in 0..n
    BY <1>1
  <2> QED
    BY <2>1, <2>2, <2>3, <2>4
<1>4. \A k \in 0..n : k \in P
  <2> HIDE DEF P, n
  <2> QED
    BY <1>1, <1>2, <1>3, Upwards
<1> QED
    BY <1>4

\* One step of FoldLeft over a list, and h is what it makes of each set of places.
FoldedStep(G, base, seq, h, s) ==
    IF s = {} THEN base ELSE G[<<h[s \ {Max(s)}], seq[Max(s)]>>]

IsListFold(G, base, seq, h) == h = [s \in SUBSET DOMAIN seq |-> FoldedStep(G, base, seq, h, s)]

\* The recursion of FoldLeft over a list has a solution.
LEMMA ListFoldExists ==
    ASSUME NEW D, NEW S, NEW base, NEW G, Folding(G, base, D, S), NEW seq \in Seq(S)
    PROVE  \E h : IsListFold(G, base, seq, h) /\ \A s \in SUBSET DOMAIN seq : h[s] \in D
<1> DEFINE n == Len(seq)
           F == [p \in (1..n) \X D |-> G[<<p[2], seq[p[1]]>>]]
<1>1. n \in Nat /\ DOMAIN seq = 1..n /\ \A k \in 1..n : seq[k] \in S
    OBVIOUS
<1> HIDE DEF n
<1>2. F \in [(1..n) \X D -> D]
    BY <1>1 DEF Folding
<1>3. PICK h : IsRounds(F, base, n, h) /\ \A s \in SUBSET (1..n) : h[s] \in D
  <2> HIDE DEF F
  <2> QED
    BY <1>1, <1>2, RoundsExist DEF Folding
<1>4. ASSUME NEW s \in SUBSET (1..n)
      PROVE  RoundStep(F, base, h, s) = FoldedStep(G, base, seq, h, s)
  <2>1. CASE s = {}
    BY <2>1 DEF RoundStep, FoldedStep
  <2>2. CASE s # {}
    <3>1. Max(s) \in 1..n /\ s \ {Max(s)} \in SUBSET (1..n)
        BY <1>1, <2>2, GreatestIs
    <3>2. h[s \ {Max(s)}] \in D
        BY <1>3, <3>1
    <3>3. F[<<Max(s), h[s \ {Max(s)}]>>] = G[<<h[s \ {Max(s)}], seq[Max(s)]>>]
        BY <3>1, <3>2
    <3> HIDE DEF F
    <3> QED
        BY <2>2, <3>3 DEF RoundStep, FoldedStep
  <2> QED
    BY <2>1, <2>2
<1> HIDE DEF F
<1>5. h = [s \in SUBSET (1..n) |-> FoldedStep(G, base, seq, h, s)]
    BY <1>3, <1>4 DEF IsRounds
<1> QED
    BY <1>1, <1>3, <1>5 DEF IsListFold

\* What h makes of some places of a list, but the last, goes by G to what it makes of
\* all of them, where G says something.
GoesBy(G, D, seq, h) ==
    \A s \in SUBSET DOMAIN seq :
       s # {} /\ h[s \ {Max(s)}] \in D => h[s] = G[<<h[s \ {Max(s)}], seq[Max(s)]>>]

\* Whatever goes by G where G says something makes of the whole list what its chain does.
LEMMA ListFoldAgrees ==
    ASSUME NEW D, NEW S, NEW base, NEW G, Folding(G, base, D, S), NEW seq \in Seq(S), NEW h,
           h[{}] = base, GoesBy(G, D, seq, h)
    PROVE  h[DOMAIN seq] = ListFold(G, base, seq)
<1> DEFINE n == Len(seq)
           e == [k \in 0..n |-> h[1..k]]
           P == {k \in 0..n : e[k] \in D /\ (k > 0 => e[k] = G[<<e[k-1], seq[k]>>])}
<1>1. n \in Nat /\ DOMAIN seq = 1..n /\ \A k \in 1..n : seq[k] \in S
    OBVIOUS
<1> HIDE DEF n
<1>2. 0 \in P /\ e[0] = base
    BY <1>1, UpTo DEF Folding
<1>3. ASSUME NEW k \in 1..n, k - 1 \in P PROVE k \in P
  <2>1. /\ 1..k \in SUBSET (1..n) /\ 1..k # {}
        /\ Max(1..k) = k /\ (1..k) \ {k} = 1..(k-1)
    BY <1>1, UpTo
  <2>2. k \in 0..n /\ k - 1 \in 0..n /\ k > 0
    BY <1>1
  <2>3. e[k-1] = h[1..(k-1)] /\ e[k] = h[1..k] /\ e[k-1] \in D
    BY <1>3, <2>2
  <2>4. h[1..k] = G[<<h[1..(k-1)], seq[k]>>]
    BY <1>1, <2>1, <2>3 DEF GoesBy
  <2>5. e[k] = G[<<e[k-1], seq[k]>>] /\ e[k] \in D
    BY <1>1, <2>3, <2>4 DEF Folding
  <2> QED
    BY <2>2, <2>5
<1>4. \A k \in 0..n : k \in P
  <2> HIDE DEF P
  <2> QED
    BY <1>1, <1>2, <1>3, Upwards
<1>5. IsChain(G, base, seq, e)
    BY <1>1, <1>2, <1>4 DEF IsChain, n
<1>6. e[n] = h[DOMAIN seq] /\ n \in 0..n
    BY <1>1
<1> HIDE DEF e
<1>7. IsChain(G, base, seq, ChainOf(G, base, seq))
    BY <1>5 DEF ChainOf
<1>8. ChainOf(G, base, seq)[n] = e[n]
  <2> DEFINE c == ChainOf(G, base, seq)
  <2>1. IsChain(G, base, seq, c)
    BY <1>7
  <2> HIDE DEF c
  <2>2. \A k \in 0..Len(seq) : e[k] \in D /\ c[k] = e[k]
    BY <1>5, <2>1, ChainsAgree
  <2> QED
    BY <1>6, <2>2 DEF c, n
<1> QED
    BY <1>6, <1>8 DEF ListFold, n

\* What G makes of a list, element by element.
LEMMA ListFoldRule ==
    ASSUME NEW D, NEW S, NEW base, NEW G, Folding(G, base, D, S)
    PROVE  /\ ListFold(G, base, <<>>) = base
           /\ \A seq \in Seq(S) : ListFold(G, base, seq) \in D
           /\ \A seq \in Seq(S), x \in S :
                 ListFold(G, base, Append(seq, x)) = G[<<ListFold(G, base, seq), x>>]
<1>1. ASSUME NEW seq \in Seq(S)
      PROVE  IsChain(G, base, seq, ChainOf(G, base, seq)) /\ ListFold(G, base, seq) \in D
  <2> DEFINE c == ChainOf(G, base, seq)
  <2>1. PICK h : IsListFold(G, base, seq, h)
    BY ListFoldExists
  <2> DEFINE e == [k \in 0..Len(seq) |-> h[1..k]]
  <2>2. DOMAIN seq = 1..Len(seq) /\ Len(seq) \in Nat
    OBVIOUS
  <2>3. e[0] = base
    <3>1. 1..0 = {} /\ {} \in SUBSET DOMAIN seq /\ 0 \in 0..Len(seq)
        BY <2>2
    <3> QED
        BY <2>1, <3>1 DEF IsListFold, FoldedStep
  <2>4. ASSUME NEW k \in 1..Len(seq) PROVE e[k] = G[<<e[k-1], seq[k]>>]
    <3>1. /\ 1..k \in SUBSET DOMAIN seq /\ 1..k # {}
          /\ Max(1..k) = k /\ (1..k) \ {k} = 1..(k-1)
        BY <2>2, UpTo
    <3>2. k \in 0..Len(seq) /\ k - 1 \in 0..Len(seq)
        BY <2>2
    <3>3. h[1..k] = FoldedStep(G, base, seq, h, 1..k)
        BY <2>1, <3>1 DEF IsListFold
    <3> QED
        BY <3>1, <3>2, <3>3 DEF FoldedStep
  <2>5. IsChain(G, base, seq, e)
    BY <2>3, <2>4 DEF IsChain
  <2> HIDE DEF e
  <2>6. IsChain(G, base, seq, c)
    BY <2>5 DEF ChainOf
  <2>7. Len(seq) \in 0..Len(seq)
    BY <2>2
  <2> HIDE DEF c
  <2>8. c[Len(seq)] \in D
    BY <2>6, <2>7, ChainsAgree
  <2> QED
    BY <2>6, <2>8 DEF ListFold, c
<1>2. ListFold(G, base, <<>>) = base
  <2>1. <<>> \in Seq(S) /\ Len(<<>>) = 0
    OBVIOUS
  <2> QED
    BY <1>1, <2>1 DEF IsChain, ListFold
<1>3. ASSUME NEW seq \in Seq(S), NEW x \in S
      PROVE  ListFold(G, base, Append(seq, x)) = G[<<ListFold(G, base, seq), x>>]
  <2> DEFINE longer == Append(seq, x)
             n == Len(seq)
             c == ChainOf(G, base, longer)
  <2>1. /\ longer \in Seq(S) /\ Len(longer) = n + 1 /\ n \in Nat
        /\ longer[n+1] = x /\ \A i \in 1..n : longer[i] = seq[i]
    OBVIOUS
  <2>2. IsChain(G, base, longer, c)
    BY <1>1, <2>1
  <2> HIDE DEF longer, c
  <2>3. IsChain(G, base, seq, c)
    BY <2>1, <2>2 DEF IsChain
  <2> DEFINE b == ChainOf(G, base, seq)
  <2>4. c[n] = b[n]
    <3>1. n \in 0..n /\ IsChain(G, base, seq, b)
        BY <1>1, <2>1
    <3> HIDE DEF b
    <3>2. \A k \in 0..Len(seq) : b[k] \in D /\ c[k] = b[k]
        BY <2>3, <3>1, ChainsAgree
    <3> QED
        BY <3>1, <3>2
  <2>5. c[n+1] = G[<<c[n], x>>]
    <3>1. n + 1 \in 1..Len(longer) /\ (n + 1) - 1 = n
        BY <2>1
    <3> QED
        BY <2>1, <2>2, <3>1 DEF IsChain
  <2> QED
    BY <2>1, <2>4, <2>5 DEF ListFold, longer, c
<1> QED
    BY <1>1, <1>2, <1>3

LEMMA JoinThree ==
    ASSUME NEW X, NEW a \in Seq(X), NEW b \in Seq(X), NEW c \in Seq(X)
    PROVE  (a \o b) \o c = a \o (b \o c)
    OBVIOUS

LEMMA JoinAppend ==
    ASSUME NEW X, NEW a \in Seq(X), NEW b \in Seq(X), NEW x \in X
    PROVE  a \o Append(b, x) = Append(a \o b, x)
    OBVIOUS

\* The greatest place of some is one of them.
LEMMA LastOfSome ==
    ASSUME NEW S, NEW seq \in Seq(S), NEW s \in SUBSET DOMAIN seq, s # {}
    PROVE  Max(s) \in s /\ seq[Max(s)] \in S /\ s \ {Max(s)} \in SUBSET DOMAIN seq
<1>1. DOMAIN seq = 1..Len(seq) /\ Len(seq) \in Nat /\ \A k \in 1..Len(seq) : seq[k] \in S
    OBVIOUS
<1>2. Max(s) \in s
    BY <1>1, GreatestIs
<1> QED
    BY <1>1, <1>2

\* Lists are joined one by one.
LEMMA ConcatFolds ==
    ASSUME NEW D, NEW S, <<>> \in D,
           \A a \in D, x \in S : a \o x \in D
    PROVE  /\ Concat(<<>>) = <<>>
           /\ \A seq \in Seq(S) : Concat(seq) \in D
           /\ \A seq \in Seq(S), x \in S :
                 Concat(Append(seq, x)) = Concat(seq) \o x
<1> DEFINE G == [p \in D \X S |-> p[1] \o p[2]]
           base == <<>>
<1>1. Folding(G, base, D, S)
    BY DEF Folding
<1>2. \A a \in D, x \in S : G[<<a, x>>] = a \o x
    OBVIOUS
<1> HIDE DEF G, base
<1>3. ASSUME NEW seq \in Seq(S) PROVE Concat(seq) = ListFold(G, base, seq)
  <2> DEFINE step(h, s) == IF s = {} THEN base ELSE h[s \ {Max(s)}] \o seq[Max(s)]
             rec(h) == h = [s \in SUBSET DOMAIN seq |-> step(h, s)]
  <2>1. PICK g : IsListFold(G, base, seq, g) /\ \A s \in SUBSET DOMAIN seq : g[s] \in D
    BY <1>1, ListFoldExists
  <2>2. ASSUME NEW s \in SUBSET DOMAIN seq PROVE FoldedStep(G, base, seq, g, s) = step(g, s)
    BY <1>2, <2>1, LastOfSome DEF FoldedStep
  <2>3. rec(g)
    <3> HIDE DEF step
    <3> QED
        BY <2>1, <2>2 DEF IsListFold
  <2> DEFINE h == CHOOSE h : rec(h)
  <2>4. rec(h)
    <3> HIDE DEF rec
    <3> QED
        BY <2>3
  <2>5. Concat(seq) = h[DOMAIN seq]
    BY DEF Concat, FoldLeft, MapThenFoldSet, base
  <2> HIDE DEF h
  <2>6. h[{}] = base
    BY <2>4
  <2>7. ASSUME NEW s \in SUBSET DOMAIN seq, s # {}, h[s \ {Max(s)}] \in D
        PROVE  h[s] = G[<<h[s \ {Max(s)}], seq[Max(s)]>>]
    <3>1. seq[Max(s)] \in S
        BY <2>7, LastOfSome
    <3>2. h[s] = step(h, s)
        BY <2>4
    <3>3. G[<<h[s \ {Max(s)}], seq[Max(s)]>>] = h[s \ {Max(s)}] \o seq[Max(s)]
        BY <1>2, <2>7, <3>1
    <3> QED
        BY <2>7, <3>2, <3>3
  <2>8. GoesBy(G, D, seq, h)
    BY <2>7 DEF GoesBy
  <2> QED
    BY <1>1, <2>5, <2>6, <2>8, ListFoldAgrees
<1>4. /\ ListFold(G, base, <<>>) = base
      /\ \A seq \in Seq(S) : ListFold(G, base, seq) \in D
      /\ \A seq \in Seq(S), x \in S :
            ListFold(G, base, Append(seq, x)) = G[<<ListFold(G, base, seq), x>>]
    BY <1>1, ListFoldRule
<1>5. <<>> \in Seq(S) /\ \A seq \in Seq(S), x \in S : Append(seq, x) \in Seq(S)
    OBVIOUS
<1>6. Concat(<<>>) = base
    BY <1>3, <1>4, <1>5
<1>7. ASSUME NEW seq \in Seq(S) PROVE Concat(seq) \in D
    BY <1>3, <1>4
<1>8. ASSUME NEW seq \in Seq(S), NEW x \in S
      PROVE  Concat(Append(seq, x)) = Concat(seq) \o x
  <2>1. Concat(Append(seq, x)) = G[<<Concat(seq), x>>]
    BY <1>3, <1>4, <1>5
  <2> QED
    BY <1>2, <1>7, <2>1
<1> QED
    BY <1>6, <1>7, <1>8 DEF base

\* The keys of the groups are listed entry by entry.
LEMMA GroupKeysFolds ==
    ASSUME NEW D, NEW S, <<>> \in D,
           \A order \in D, entry \in S : (IF Contains(order, GroupKey(entry)) THEN order ELSE Append(order, GroupKey(entry))) \in D
    PROVE  /\ GroupKeys(<<>>) = <<>>
           /\ \A seq \in Seq(S) : GroupKeys(seq) \in D
           /\ \A seq \in Seq(S), entry \in S :
                 GroupKeys(Append(seq, entry)) = (IF Contains(GroupKeys(seq), GroupKey(entry)) THEN GroupKeys(seq) ELSE Append(GroupKeys(seq), GroupKey(entry)))
<1> DEFINE G == [p \in D \X S |-> (IF Contains(p[1], GroupKey(p[2])) THEN p[1] ELSE Append(p[1], GroupKey(p[2])))]
           base == <<>>
<1>1. Folding(G, base, D, S)
    BY DEF Folding
<1>2. \A order \in D, entry \in S : G[<<order, entry>>] = (IF Contains(order, GroupKey(entry)) THEN order ELSE Append(order, GroupKey(entry)))
    OBVIOUS
<1> HIDE DEF G, base
<1>3. ASSUME NEW seq \in Seq(S) PROVE GroupKeys(seq) = ListFold(G, base, seq)
  <2> DEFINE step(h, s) == IF s = {} THEN base ELSE (IF Contains(h[s \ {Max(s)}], GroupKey(seq[Max(s)])) THEN h[s \ {Max(s)}] ELSE Append(h[s \ {Max(s)}], GroupKey(seq[Max(s)])))
             rec(h) == h = [s \in SUBSET DOMAIN seq |-> step(h, s)]
  <2>1. PICK g : IsListFold(G, base, seq, g) /\ \A s \in SUBSET DOMAIN seq : g[s] \in D
    BY <1>1, ListFoldExists
  <2>2. ASSUME NEW s \in SUBSET DOMAIN seq PROVE FoldedStep(G, base, seq, g, s) = step(g, s)
    BY <1>2, <2>1, LastOfSome DEF FoldedStep
  <2>3. rec(g)
    <3> HIDE DEF step
    <3> QED
        BY <2>1, <2>2 DEF IsListFold
  <2> DEFINE h == CHOOSE h : rec(h)
  <2>4. rec(h)
    <3> HIDE DEF rec
    <3> QED
        BY <2>3
  <2>5. GroupKeys(seq) = h[DOMAIN seq]
    BY DEF GroupKeys, FoldLeft, MapThenFoldSet, base
  <2> HIDE DEF h
  <2>6. h[{}] = base
    BY <2>4
  <2>7. ASSUME NEW s \in SUBSET DOMAIN seq, s # {}, h[s \ {Max(s)}] \in D
        PROVE  h[s] = G[<<h[s \ {Max(s)}], seq[Max(s)]>>]
    <3>1. seq[Max(s)] \in S
        BY <2>7, LastOfSome
    <3>2. h[s] = step(h, s)
        BY <2>4
    <3>3. G[<<h[s \ {Max(s)}], seq[Max(s)]>>] = (IF Contains(h[s \ {Max(s)}], GroupKey(seq[Max(s)])) THEN h[s \ {Max(s)}] ELSE Append(h[s \ {Max(s)}], GroupKey(seq[Max(s)])))
        BY <1>2, <2>7, <3>1
    <3> QED
        BY <2>7, <3>2, <3>3
  <2>8. GoesBy(G, D, seq, h)
    BY <2>7 DEF GoesBy
  <2> QED
    BY <1>1, <2>5, <2>6, <2>8, ListFoldAgrees
<1>4. /\ ListFold(G, base, <<>>) = base
      /\ \A seq \in Seq(S) : ListFold(G, base, seq) \in D
      /\ \A seq \in Seq(S), entry \in S :
            ListFold(G, base, Append(seq, entry)) = G[<<ListFold(G, base, seq), entry>>]
    BY <1>1, ListFoldRule
<1>5. <<>> \in Seq(S) /\ \A seq \in Seq(S), entry \in S : Append(seq, entry) \in Seq(S)
    OBVIOUS
<1>6. GroupKeys(<<>>) = base
    BY <1>3, <1>4, <1>5
<1>7. ASSUME NEW seq \in Seq(S) PROVE GroupKeys(seq) \in D
    BY <1>3, <1>4
<1>8. ASSUME NEW seq \in Seq(S), NEW entry \in S
      PROVE  GroupKeys(Append(seq, entry)) = (IF Contains(GroupKeys(seq), GroupKey(entry)) THEN GroupKeys(seq) ELSE Append(GroupKeys(seq), GroupKey(entry)))
  <2>1. GroupKeys(Append(seq, entry)) = G[<<GroupKeys(seq), entry>>]
    BY <1>3, <1>4, <1>5
  <2> QED
    BY <1>2, <1>7, <2>1
<1> QED
    BY <1>6, <1>7, <1>8 DEF base

\* A group is gathered entry by entry.
LEMMA GroupFolds ==
    ASSUME NEW key, NEW D, NEW S, <<>> \in D,
           \A group \in D, entry \in S : (IF GroupKey(entry) = key THEN Append(group, entry) ELSE group) \in D
    PROVE  /\ Group(<<>>, key) = <<>>
           /\ \A seq \in Seq(S) : Group(seq, key) \in D
           /\ \A seq \in Seq(S), entry \in S :
                 Group(Append(seq, entry), key) = (IF GroupKey(entry) = key THEN Append(Group(seq, key), entry) ELSE Group(seq, key))
<1> DEFINE G == [p \in D \X S |-> (IF GroupKey(p[2]) = key THEN Append(p[1], p[2]) ELSE p[1])]
           base == <<>>
<1>1. Folding(G, base, D, S)
    BY DEF Folding
<1>2. \A group \in D, entry \in S : G[<<group, entry>>] = (IF GroupKey(entry) = key THEN Append(group, entry) ELSE group)
    OBVIOUS
<1> HIDE DEF G, base
<1>3. ASSUME NEW seq \in Seq(S) PROVE Group(seq, key) = ListFold(G, base, seq)
  <2> DEFINE step(h, s) == IF s = {} THEN base ELSE (IF GroupKey(seq[Max(s)]) = key THEN Append(h[s \ {Max(s)}], seq[Max(s)]) ELSE h[s \ {Max(s)}])
             rec(h) == h = [s \in SUBSET DOMAIN seq |-> step(h, s)]
  <2>1. PICK g : IsListFold(G, base, seq, g) /\ \A s \in SUBSET DOMAIN seq : g[s] \in D
    BY <1>1, ListFoldExists
  <2>2. ASSUME NEW s \in SUBSET DOMAIN seq PROVE FoldedStep(G, base, seq, g, s) = step(g, s)
    BY <1>2, <2>1, LastOfSome DEF FoldedStep
  <2>3. rec(g)
    <3> HIDE DEF step
    <3> QED
        BY <2>1, <2>2 DEF IsListFold
  <2> DEFINE h == CHOOSE h : rec(h)
  <2>4. rec(h)
    <3> HIDE DEF rec
    <3> QED
        BY <2>3
  <2>5. Group(seq, key) = h[DOMAIN seq]
    BY DEF Group, FoldLeft, MapThenFoldSet, base
  <2> HIDE DEF h
  <2>6. h[{}] = base
    BY <2>4
  <2>7. ASSUME NEW s \in SUBSET DOMAIN seq, s # {}, h[s \ {Max(s)}] \in D
        PROVE  h[s] = G[<<h[s \ {Max(s)}], seq[Max(s)]>>]
    <3>1. seq[Max(s)] \in S
        BY <2>7, LastOfSome
    <3>2. h[s] = step(h, s)
        BY <2>4
    <3>3. G[<<h[s \ {Max(s)}], seq[Max(s)]>>] = (IF GroupKey(seq[Max(s)]) = key THEN Append(h[s \ {Max(s)}], seq[Max(s)]) ELSE h[s \ {Max(s)}])
        BY <1>2, <2>7, <3>1
    <3> QED
        BY <2>7, <3>2, <3>3
  <2>8. GoesBy(G, D, seq, h)
    BY <2>7 DEF GoesBy
  <2> QED
    BY <1>1, <2>5, <2>6, <2>8, ListFoldAgrees
<1>4. /\ ListFold(G, base, <<>>) = base
      /\ \A seq \in Seq(S) : ListFold(G, base, seq) \in D
      /\ \A seq \in Seq(S), entry \in S :
            ListFold(G, base, Append(seq, entry)) = G[<<ListFold(G, base, seq), entry>>]
    BY <1>1, ListFoldRule
<1>5. <<>> \in Seq(S) /\ \A seq \in Seq(S), entry \in S : Append(seq, entry) \in Seq(S)
    OBVIOUS
<1>6. Group(<<>>, key) = base
    BY <1>3, <1>4, <1>5
<1>7. ASSUME NEW seq \in Seq(S) PROVE Group(seq, key) \in D
    BY <1>3, <1>4
<1>8. ASSUME NEW seq \in Seq(S), NEW entry \in S
      PROVE  Group(Append(seq, entry), key) = (IF GroupKey(entry) = key THEN Append(Group(seq, key), entry) ELSE Group(seq, key))
  <2>1. Group(Append(seq, entry), key) = G[<<Group(seq, key), entry>>]
    BY <1>3, <1>4, <1>5
  <2> QED
    BY <1>2, <1>7, <2>1
<1> QED
    BY <1>6, <1>7, <1>8 DEF base

\* The pieces of a section are gathered entry by entry.
LEMMA PiecesFold ==
    ASSUME NEW name, NEW D, NEW S, <<>> \in D,
           \A pieces \in D, entry \in S : (IF entry.name = name THEN Append(pieces, entry) ELSE pieces) \in D
    PROVE  /\ PiecesOf(<<>>, name) = <<>>
           /\ \A seq \in Seq(S) : PiecesOf(seq, name) \in D
           /\ \A seq \in Seq(S), entry \in S :
                 PiecesOf(Append(seq, entry), name) = (IF entry.name = name THEN Append(PiecesOf(seq, name), entry) ELSE PiecesOf(seq, name))
<1> DEFINE G == [p \in D \X S |-> (IF p[2].name = name THEN Append(p[1], p[2]) ELSE p[1])]
           base == <<>>
<1>1. Folding(G, base, D, S)
    BY DEF Folding
<1>2. \A pieces \in D, entry \in S : G[<<pieces, entry>>] = (IF entry.name = name THEN Append(pieces, entry) ELSE pieces)
    OBVIOUS
<1> HIDE DEF G, base
<1>3. ASSUME NEW seq \in Seq(S) PROVE PiecesOf(seq, name) = ListFold(G, base, seq)
  <2> DEFINE step(h, s) == IF s = {} THEN base ELSE (IF seq[Max(s)].name = name THEN Append(h[s \ {Max(s)}], seq[Max(s)]) ELSE h[s \ {Max(s)}])
             rec(h) == h = [s \in SUBSET DOMAIN seq |-> step(h, s)]
  <2>1. PICK g : IsListFold(G, base, seq, g) /\ \A s \in SUBSET DOMAIN seq : g[s] \in D
    BY <1>1, ListFoldExists
  <2>2. ASSUME NEW s \in SUBSET DOMAIN seq PROVE FoldedStep(G, base, seq, g, s) = step(g, s)
    BY <1>2, <2>1, LastOfSome DEF FoldedStep
  <2>3. rec(g)
    <3> HIDE DEF step
    <3> QED
        BY <2>1, <2>2 DEF IsListFold
  <2> DEFINE h == CHOOSE h : rec(h)
  <2>4. rec(h)
    <3> HIDE DEF rec
    <3> QED
        BY <2>3
  <2>5. PiecesOf(seq, name) = h[DOMAIN seq]
    BY DEF PiecesOf, FoldLeft, MapThenFoldSet, base
  <2> HIDE DEF h
  <2>6. h[{}] = base
    BY <2>4
  <2>7. ASSUME NEW s \in SUBSET DOMAIN seq, s # {}, h[s \ {Max(s)}] \in D
        PROVE  h[s] = G[<<h[s \ {Max(s)}], seq[Max(s)]>>]
    <3>1. seq[Max(s)] \in S
        BY <2>7, LastOfSome
    <3>2. h[s] = step(h, s)
        BY <2>4
    <3>3. G[<<h[s \ {Max(s)}], seq[Max(s)]>>] = (IF seq[Max(s)].name = name THEN Append(h[s \ {Max(s)}], seq[Max(s)]) ELSE h[s \ {Max(s)}])
        BY <1>2, <2>7, <3>1
    <3> QED
        BY <2>7, <3>2, <3>3
  <2>8. GoesBy(G, D, seq, h)
    BY <2>7 DEF GoesBy
  <2> QED
    BY <1>1, <2>5, <2>6, <2>8, ListFoldAgrees
<1>4. /\ ListFold(G, base, <<>>) = base
      /\ \A seq \in Seq(S) : ListFold(G, base, seq) \in D
      /\ \A seq \in Seq(S), entry \in S :
            ListFold(G, base, Append(seq, entry)) = G[<<ListFold(G, base, seq), entry>>]
    BY <1>1, ListFoldRule
<1>5. <<>> \in Seq(S) /\ \A seq \in Seq(S), entry \in S : Append(seq, entry) \in Seq(S)
    OBVIOUS
<1>6. PiecesOf(<<>>, name) = base
    BY <1>3, <1>4, <1>5
<1>7. ASSUME NEW seq \in Seq(S) PROVE PiecesOf(seq, name) \in D
    BY <1>3, <1>4
<1>8. ASSUME NEW seq \in Seq(S), NEW entry \in S
      PROVE  PiecesOf(Append(seq, entry), name) = (IF entry.name = name THEN Append(PiecesOf(seq, name), entry) ELSE PiecesOf(seq, name))
  <2>1. PiecesOf(Append(seq, entry), name) = G[<<PiecesOf(seq, name), entry>>]
    BY <1>3, <1>4, <1>5
  <2> QED
    BY <1>2, <1>7, <2>1
<1> QED
    BY <1>6, <1>7, <1>8 DEF base

\* What is cut of some items, and what is taken of some pieces.
NothingCut == [pieces |-> <<>>, chunk |-> <<>>]

Chunked(message, limit, items) ==
    FoldLeft(LAMBDA acc, item : AddItem(acc, item, message, limit), NothingCut, items)

Taken(acc, section, budget, pieces) ==
    FoldLeft(LAMBDA b, piece : Take(b, piece, section, Usable(budget)), acc, pieces)

\* Adding items of S does not leave D.
ClosedByAddItem(D, S, message, limit) ==
    NothingCut \in D /\ \A acc \in D, item \in S : AddItem(acc, item, message, limit) \in D

\* Items are added to chunks one by one.
LEMMA ChunkedFolds ==
    ASSUME NEW message, NEW limit, NEW D, NEW S, ClosedByAddItem(D, S, message, limit)
    PROVE  /\ Chunked(message, limit, <<>>) = NothingCut
           /\ \A seq \in Seq(S) : Chunked(message, limit, seq) \in D
           /\ \A seq \in Seq(S), item \in S :
                 Chunked(message, limit, Append(seq, item)) = AddItem(Chunked(message, limit, seq), item, message, limit)
<1> DEFINE G == [p \in D \X S |-> AddItem(p[1], p[2], message, limit)]
           base == NothingCut
<1>1. Folding(G, base, D, S)
    BY DEF Folding, ClosedByAddItem
<1>2. \A acc \in D, item \in S : G[<<acc, item>>] = AddItem(acc, item, message, limit)
    OBVIOUS
<1> HIDE DEF G, base
<1>3. ASSUME NEW seq \in Seq(S) PROVE Chunked(message, limit, seq) = ListFold(G, base, seq)
  <2> DEFINE step(h, s) == IF s = {} THEN base ELSE AddItem(h[s \ {Max(s)}], seq[Max(s)], message, limit)
             rec(h) == h = [s \in SUBSET DOMAIN seq |-> step(h, s)]
  <2>1. PICK g : IsListFold(G, base, seq, g) /\ \A s \in SUBSET DOMAIN seq : g[s] \in D
    BY <1>1, ListFoldExists
  <2>2. ASSUME NEW s \in SUBSET DOMAIN seq PROVE FoldedStep(G, base, seq, g, s) = step(g, s)
    BY <1>2, <2>1, LastOfSome DEF FoldedStep
  <2>3. rec(g)
    <3> HIDE DEF step
    <3> QED
        BY <2>1, <2>2 DEF IsListFold
  <2> DEFINE h == CHOOSE h : rec(h)
  <2>4. rec(h)
    <3> HIDE DEF rec
    <3> QED
        BY <2>3
  <2>5. Chunked(message, limit, seq) = h[DOMAIN seq]
    BY DEF Chunked, FoldLeft, MapThenFoldSet, base
  <2> HIDE DEF h
  <2>6. h[{}] = base
    BY <2>4
  <2>7. ASSUME NEW s \in SUBSET DOMAIN seq, s # {}, h[s \ {Max(s)}] \in D
        PROVE  h[s] = G[<<h[s \ {Max(s)}], seq[Max(s)]>>]
    <3>1. seq[Max(s)] \in S
        BY <2>7, LastOfSome
    <3>2. h[s] = step(h, s)
        BY <2>4
    <3>3. G[<<h[s \ {Max(s)}], seq[Max(s)]>>] = AddItem(h[s \ {Max(s)}], seq[Max(s)], message, limit)
        BY <1>2, <2>7, <3>1
    <3> QED
        BY <2>7, <3>2, <3>3
  <2>8. GoesBy(G, D, seq, h)
    BY <2>7 DEF GoesBy
  <2> QED
    BY <1>1, <2>5, <2>6, <2>8, ListFoldAgrees
<1>4. /\ ListFold(G, base, <<>>) = base
      /\ \A seq \in Seq(S) : ListFold(G, base, seq) \in D
      /\ \A seq \in Seq(S), item \in S :
            ListFold(G, base, Append(seq, item)) = G[<<ListFold(G, base, seq), item>>]
    BY <1>1, ListFoldRule
<1>5. <<>> \in Seq(S) /\ \A seq \in Seq(S), item \in S : Append(seq, item) \in Seq(S)
    OBVIOUS
<1>6. Chunked(message, limit, <<>>) = base
    BY <1>3, <1>4, <1>5
<1>7. ASSUME NEW seq \in Seq(S) PROVE Chunked(message, limit, seq) \in D
    BY <1>3, <1>4
<1>8. ASSUME NEW seq \in Seq(S), NEW item \in S
      PROVE  Chunked(message, limit, Append(seq, item)) = AddItem(Chunked(message, limit, seq), item, message, limit)
  <2>1. Chunked(message, limit, Append(seq, item)) = G[<<Chunked(message, limit, seq), item>>]
    BY <1>3, <1>4, <1>5
  <2> QED
    BY <1>2, <1>7, <2>1
<1> QED
    BY <1>6, <1>7, <1>8 DEF base

\* Taking pieces of S does not leave D.
ClosedByTake(D, S, section, budget, start) ==
    start \in D /\ \A acc \in D, piece \in S : Take(acc, piece, section, Usable(budget)) \in D

\* The messages of a section are taken one by one.
LEMMA TakenFolds ==
    ASSUME NEW section, NEW budget, NEW start, NEW D, NEW S, ClosedByTake(D, S, section, budget, start)
    PROVE  /\ Taken(start, section, budget, <<>>) = start
           /\ \A seq \in Seq(S) : Taken(start, section, budget, seq) \in D
           /\ \A seq \in Seq(S), piece \in S :
                 Taken(start, section, budget, Append(seq, piece)) = Take(Taken(start, section, budget, seq), piece, section, Usable(budget))
<1> DEFINE G == [p \in D \X S |-> Take(p[1], p[2], section, Usable(budget))]
           base == start
<1>1. Folding(G, base, D, S)
    BY DEF Folding, ClosedByTake
<1>2. \A acc \in D, piece \in S : G[<<acc, piece>>] = Take(acc, piece, section, Usable(budget))
    OBVIOUS
<1> HIDE DEF G, base
<1>3. ASSUME NEW seq \in Seq(S) PROVE Taken(start, section, budget, seq) = ListFold(G, base, seq)
  <2> DEFINE step(h, s) == IF s = {} THEN base ELSE Take(h[s \ {Max(s)}], seq[Max(s)], section, Usable(budget))
             rec(h) == h = [s \in SUBSET DOMAIN seq |-> step(h, s)]
  <2>1. PICK g : IsListFold(G, base, seq, g) /\ \A s \in SUBSET DOMAIN seq : g[s] \in D
    BY <1>1, ListFoldExists
  <2>2. ASSUME NEW s \in SUBSET DOMAIN seq PROVE FoldedStep(G, base, seq, g, s) = step(g, s)
    BY <1>2, <2>1, LastOfSome DEF FoldedStep
  <2>3. rec(g)
    <3> HIDE DEF step
    <3> QED
        BY <2>1, <2>2 DEF IsListFold
  <2> DEFINE h == CHOOSE h : rec(h)
  <2>4. rec(h)
    <3> HIDE DEF rec
    <3> QED
        BY <2>3
  <2>5. Taken(start, section, budget, seq) = h[DOMAIN seq]
    BY DEF Taken, FoldLeft, MapThenFoldSet, base
  <2> HIDE DEF h
  <2>6. h[{}] = base
    BY <2>4
  <2>7. ASSUME NEW s \in SUBSET DOMAIN seq, s # {}, h[s \ {Max(s)}] \in D
        PROVE  h[s] = G[<<h[s \ {Max(s)}], seq[Max(s)]>>]
    <3>1. seq[Max(s)] \in S
        BY <2>7, LastOfSome
    <3>2. h[s] = step(h, s)
        BY <2>4
    <3>3. G[<<h[s \ {Max(s)}], seq[Max(s)]>>] = Take(h[s \ {Max(s)}], seq[Max(s)], section, Usable(budget))
        BY <1>2, <2>7, <3>1
    <3> QED
        BY <2>7, <3>2, <3>3
  <2>8. GoesBy(G, D, seq, h)
    BY <2>7 DEF GoesBy
  <2> QED
    BY <1>1, <2>5, <2>6, <2>8, ListFoldAgrees
<1>4. /\ ListFold(G, base, <<>>) = base
      /\ \A seq \in Seq(S) : ListFold(G, base, seq) \in D
      /\ \A seq \in Seq(S), piece \in S :
            ListFold(G, base, Append(seq, piece)) = G[<<ListFold(G, base, seq), piece>>]
    BY <1>1, ListFoldRule
<1>5. <<>> \in Seq(S) /\ \A seq \in Seq(S), piece \in S : Append(seq, piece) \in Seq(S)
    OBVIOUS
<1>6. Taken(start, section, budget, <<>>) = base
    BY <1>3, <1>4, <1>5
<1>7. ASSUME NEW seq \in Seq(S) PROVE Taken(start, section, budget, seq) \in D
    BY <1>3, <1>4
<1>8. ASSUME NEW seq \in Seq(S), NEW piece \in S
      PROVE  Taken(start, section, budget, Append(seq, piece)) = Take(Taken(start, section, budget, seq), piece, section, Usable(budget))
  <2>1. Taken(start, section, budget, Append(seq, piece)) = G[<<Taken(start, section, budget, seq), piece>>]
    BY <1>3, <1>4, <1>5
  <2> QED
    BY <1>2, <1>7, <2>1
<1> QED
    BY <1>6, <1>7, <1>8 DEF base

\* Packing sections of S does not leave D.
ClosedByPackSection(D, S, budget) ==
    NothingPacked \in D /\ \A acc \in D, section \in S : PackSection(acc, section, budget) \in D

\* The sections are packed one by one.
LEMMA PackAllFolds ==
    ASSUME NEW budget, NEW D, NEW S, ClosedByPackSection(D, S, budget)
    PROVE  /\ PackAll(<<>>, budget) = NothingPacked
           /\ \A seq \in Seq(S) : PackAll(seq, budget) \in D
           /\ \A seq \in Seq(S), section \in S :
                 PackAll(Append(seq, section), budget) = PackSection(PackAll(seq, budget), section, budget)
<1> DEFINE G == [p \in D \X S |-> PackSection(p[1], p[2], budget)]
           base == NothingPacked
<1>1. Folding(G, base, D, S)
    BY DEF Folding, ClosedByPackSection
<1>2. \A acc \in D, section \in S : G[<<acc, section>>] = PackSection(acc, section, budget)
    OBVIOUS
<1> HIDE DEF G, base
<1>3. ASSUME NEW seq \in Seq(S) PROVE PackAll(seq, budget) = ListFold(G, base, seq)
  <2> DEFINE step(h, s) == IF s = {} THEN base ELSE PackSection(h[s \ {Max(s)}], seq[Max(s)], budget)
             rec(h) == h = [s \in SUBSET DOMAIN seq |-> step(h, s)]
  <2>1. PICK g : IsListFold(G, base, seq, g) /\ \A s \in SUBSET DOMAIN seq : g[s] \in D
    BY <1>1, ListFoldExists
  <2>2. ASSUME NEW s \in SUBSET DOMAIN seq PROVE FoldedStep(G, base, seq, g, s) = step(g, s)
    BY <1>2, <2>1, LastOfSome DEF FoldedStep
  <2>3. rec(g)
    <3> HIDE DEF step
    <3> QED
        BY <2>1, <2>2 DEF IsListFold
  <2> DEFINE h == CHOOSE h : rec(h)
  <2>4. rec(h)
    <3> HIDE DEF rec
    <3> QED
        BY <2>3
  <2>5. PackAll(seq, budget) = h[DOMAIN seq]
    BY DEF PackAll, FoldLeft, MapThenFoldSet, base
  <2> HIDE DEF h
  <2>6. h[{}] = base
    BY <2>4
  <2>7. ASSUME NEW s \in SUBSET DOMAIN seq, s # {}, h[s \ {Max(s)}] \in D
        PROVE  h[s] = G[<<h[s \ {Max(s)}], seq[Max(s)]>>]
    <3>1. seq[Max(s)] \in S
        BY <2>7, LastOfSome
    <3>2. h[s] = step(h, s)
        BY <2>4
    <3>3. G[<<h[s \ {Max(s)}], seq[Max(s)]>>] = PackSection(h[s \ {Max(s)}], seq[Max(s)], budget)
        BY <1>2, <2>7, <3>1
    <3> QED
        BY <2>7, <3>2, <3>3
  <2>8. GoesBy(G, D, seq, h)
    BY <2>7 DEF GoesBy
  <2> QED
    BY <1>1, <2>5, <2>6, <2>8, ListFoldAgrees
<1>4. /\ ListFold(G, base, <<>>) = base
      /\ \A seq \in Seq(S) : ListFold(G, base, seq) \in D
      /\ \A seq \in Seq(S), section \in S :
            ListFold(G, base, Append(seq, section)) = G[<<ListFold(G, base, seq), section>>]
    BY <1>1, ListFoldRule
<1>5. <<>> \in Seq(S) /\ \A seq \in Seq(S), section \in S : Append(seq, section) \in Seq(S)
    OBVIOUS
<1>6. PackAll(<<>>, budget) = base
    BY <1>3, <1>4, <1>5
<1>7. ASSUME NEW seq \in Seq(S) PROVE PackAll(seq, budget) \in D
    BY <1>3, <1>4
<1>8. ASSUME NEW seq \in Seq(S), NEW section \in S
      PROVE  PackAll(Append(seq, section), budget) = PackSection(PackAll(seq, budget), section, budget)
  <2>1. PackAll(Append(seq, section), budget) = G[<<PackAll(seq, budget), section>>]
    BY <1>3, <1>4, <1>5
  <2> QED
    BY <1>2, <1>7, <2>1
<1> QED
    BY <1>6, <1>7, <1>8 DEF base

\* What f makes of the elements of a list, one after the other.
Flat(f, s) == Concat([i \in DOMAIN s |-> f[s[i]]])

\* It is joined element by element.
LEMMA FlatRule ==
    ASSUME NEW U, NEW X, NEW f \in [U -> Seq(X)]
    PROVE  /\ Flat(f, <<>>) = <<>>
           /\ \A s \in Seq(U) : Flat(f, s) \in Seq(X)
           /\ \A s \in Seq(U), x \in U : Flat(f, Append(s, x)) = Flat(f, s) \o f[x]
<1> DEFINE D == Seq(X)
<1>1. /\ Concat(<<>>) = <<>>
      /\ \A seq \in Seq(D) : Concat(seq) \in D
      /\ \A seq \in Seq(D), x \in D : Concat(Append(seq, x)) = Concat(seq) \o x
  <2>1. <<>> \in D /\ \A a \in D, x \in D : a \o x \in D
    OBVIOUS
  <2> HIDE DEF D
  <2> QED
    BY <2>1, ConcatFolds
<1>2. \A x \in U : f[x] \in D
    OBVIOUS
<1> HIDE DEF D
<1>3. ASSUME NEW s \in Seq(U) PROVE [i \in DOMAIN s |-> f[s[i]]] \in Seq(D)
    BY <1>2
<1>4. ASSUME NEW s \in Seq(U), NEW x \in U
      PROVE  [i \in DOMAIN Append(s, x) |-> f[Append(s, x)[i]]]
                = Append([i \in DOMAIN s |-> f[s[i]]], f[x])
    BY <1>2
<1>5. [i \in DOMAIN <<>> |-> f[<<>>[i]]] = <<>>
    OBVIOUS
<1>6. Flat(f, <<>>) = <<>>
    BY <1>1, <1>5 DEF Flat
<1>7. ASSUME NEW s \in Seq(U) PROVE Flat(f, s) \in D
    BY <1>1, <1>3 DEF Flat
<1>8. ASSUME NEW s \in Seq(U), NEW x \in U PROVE Flat(f, Append(s, x)) = Flat(f, s) \o f[x]
    BY <1>1, <1>2, <1>3, <1>4 DEF Flat
<1> QED
    BY <1>6, <1>7, <1>8 DEF D

\* What is made of two lists is joined.
LEMMA FlatJoin ==
    ASSUME NEW U, NEW X, NEW f \in [U -> Seq(X)], NEW s \in Seq(U), NEW t \in Seq(U)
    PROVE  Flat(f, s \o t) = Flat(f, s) \o Flat(f, t)
<1> DEFINE P == {r \in Seq(U) : Flat(f, s \o r) = Flat(f, s) \o Flat(f, r)}
<1>1. /\ \A r \in Seq(U) : Flat(f, r) \in Seq(X)
      /\ \A r \in Seq(U), x \in U : Flat(f, Append(r, x)) = Flat(f, r) \o f[x]
    BY FlatRule
<1>2. <<>> \in P
  <2>1. <<>> \in Seq(U) /\ s \o <<>> = s /\ Flat(f, <<>>) = <<>>
    BY FlatRule
  <2>2. Flat(f, s) \o <<>> = Flat(f, s)
    BY <1>1
  <2> QED
    BY <2>1, <2>2
<1>3. ASSUME NEW r \in Seq(U), NEW x \in U, r \in P PROVE Append(r, x) \in P
  <2>1. Append(r, x) \in Seq(U) /\ s \o Append(r, x) = Append(s \o r, x) /\ s \o r \in Seq(U)
    OBVIOUS
  <2>2. /\ Flat(f, Append(s \o r, x)) = Flat(f, s \o r) \o f[x]
        /\ Flat(f, Append(r, x)) = Flat(f, r) \o f[x]
        /\ Flat(f, r) \in Seq(X) /\ f[x] \in Seq(X)
    BY <1>1, <2>1
  <2>3. (Flat(f, s) \o Flat(f, r)) \o f[x] = Flat(f, s) \o (Flat(f, r) \o f[x])
    <3> DEFINE before == Flat(f, s)
               after == Flat(f, r)
               last == f[x]
    <3>1. before \in Seq(X) /\ after \in Seq(X) /\ last \in Seq(X)
        BY <1>1, <2>2
    <3> HIDE DEF before, after, last
    <3>2. (before \o after) \o last = before \o (after \o last)
        BY ONLY SMTT(30), <3>1
    <3> QED
        BY <3>2 DEF before, after, last
  <2>4. Flat(f, s \o r) = Flat(f, s) \o Flat(f, r)
    BY <1>3
  <2> QED
    BY <2>1, <2>2, <2>3, <2>4
<1> HIDE DEF P
<1>4. t \in P
    BY <1>2, <1>3, ListInduction
<1> QED
    BY <1>4 DEF P

\* The payloads of messages, message by message.
LEMMA PayloadsRule ==
    ASSUME NEW M, NEW X, \A m \in M : m.items \in Seq(X)
    PROVE  /\ Payloads(<<>>) = <<>>
           /\ \A s \in Seq(M) : Payloads(s) \in Seq(X)
           /\ \A s \in Seq(M), m \in M : Payloads(Append(s, m)) = Payloads(s) \o m.items
           /\ \A s \in Seq(M), t \in Seq(M) : Payloads(s \o t) = Payloads(s) \o Payloads(t)
<1> DEFINE f == [m \in M |-> m.items]
<1>1. f \in [M -> Seq(X)] /\ \A m \in M : f[m] = m.items
    OBVIOUS
<1>2. ASSUME NEW s \in Seq(M) PROVE Payloads(s) = Flat(f, s)
  <2>1. [i \in DOMAIN s |-> s[i].items] = [i \in DOMAIN s |-> f[s[i]]]
    OBVIOUS
  <2> QED
    BY <2>1 DEF Payloads, Flat
<1> HIDE DEF f
<1>3. <<>> \in Seq(M) /\ \A s \in Seq(M), m \in M : Append(s, m) \in Seq(M)
    OBVIOUS
<1>4. \A s \in Seq(M), t \in Seq(M) : s \o t \in Seq(M)
    OBVIOUS
<1>5. /\ Flat(f, <<>>) = <<>>
      /\ \A s \in Seq(M) : Flat(f, s) \in Seq(X)
      /\ \A s \in Seq(M), m \in M : Flat(f, Append(s, m)) = Flat(f, s) \o f[m]
    BY <1>1, FlatRule
<1>6. ASSUME NEW s \in Seq(M), NEW t \in Seq(M)
      PROVE  Flat(f, s \o t) = Flat(f, s) \o Flat(f, t)
    BY <1>1, FlatJoin
<1>7. Payloads(<<>>) = <<>>
    BY <1>2, <1>3, <1>5
<1>8. \A s \in Seq(M) : Payloads(s) \in Seq(X)
    BY <1>2, <1>5
<1>9. \A s \in Seq(M), m \in M : Payloads(Append(s, m)) = Payloads(s) \o m.items
    BY <1>1, <1>2, <1>3, <1>5
<1>10. \A s \in Seq(M), t \in Seq(M) : Payloads(s \o t) = Payloads(s) \o Payloads(t)
    BY <1>2, <1>4, <1>6
<1> QED
    BY <1>7, <1>8, <1>9, <1>10

\* F keeps the elements of a list that are in Good.
Keeps(F, U, Good) ==
    /\ F \in [Seq(U) -> Seq(U)]
    /\ F[<<>>] = <<>>
    /\ \A s \in Seq(U), x \in U :
          F[Append(s, x)] = IF x \in Good THEN Append(F[s], x) ELSE F[s]

Every(s, S) == \A i \in DOMAIN s : s[i] \in S
NoneIn(s, S) == \A i \in DOMAIN s : s[i] \notin S

\* The elements of a longer list, and of two lists.
LEMMA EveryRule ==
    ASSUME NEW U, NEW S
    PROVE  /\ Every(<<>>, S) /\ NoneIn(<<>>, S)
           /\ \A s \in Seq(U), x \in U :
                 /\ Every(Append(s, x), S) <=> Every(s, S) /\ x \in S
                 /\ NoneIn(Append(s, x), S) <=> NoneIn(s, S) /\ x \notin S
<1>1. ASSUME NEW s \in Seq(U), NEW x \in U
      PROVE  /\ Every(Append(s, x), S) <=> Every(s, S) /\ x \in S
             /\ NoneIn(Append(s, x), S) <=> NoneIn(s, S) /\ x \notin S
  <2> DEFINE r == Append(s, x)
             n == Len(s)
  <2>1. /\ DOMAIN s = 1..n /\ n \in Nat /\ DOMAIN r = 1..(n + 1)
        /\ r[n + 1] = x /\ \A i \in 1..n : r[i] = s[i]
    OBVIOUS
  <2> HIDE DEF r, n
  <2>2. \A i : i \in 1..(n + 1) <=> i \in 1..n \/ i = n + 1
    BY <2>1
  <2>3. /\ Every(r, S) <=> Every(s, S) /\ x \in S
        /\ NoneIn(r, S) <=> NoneIn(s, S) /\ x \notin S
    BY <2>1, <2>2 DEF Every, NoneIn
  <2> QED
    BY <2>3 DEF r
<1>2. Every(<<>>, S) /\ NoneIn(<<>>, S)
    BY DEF Every, NoneIn
<1> QED
    BY <1>1, <1>2

\* What is kept of two lists, and of one of which all is kept, or nothing.
LEMMA KeptRule ==
    ASSUME NEW F, NEW U, NEW Good, Keeps(F, U, Good)
    PROVE  /\ \A s \in Seq(U), t \in Seq(U) : F[s \o t] = F[s] \o F[t]
           /\ \A s \in Seq(U) : Every(F[s], Good)
           /\ \A s \in Seq(U) : Every(s, Good) => F[s] = s
           /\ \A s \in Seq(U) : NoneIn(s, Good) => F[s] = <<>>
<1>1. /\ \A s \in Seq(U) : F[s] \in Seq(U)
      /\ F[<<>>] = <<>>
      /\ \A s \in Seq(U), x \in U :
            F[Append(s, x)] = IF x \in Good THEN Append(F[s], x) ELSE F[s]
      /\ <<>> \in Seq(U)
    BY DEF Keeps
<1>2. ASSUME NEW s \in Seq(U), NEW t \in Seq(U) PROVE F[s \o t] = F[s] \o F[t]
  <2> DEFINE P == {r \in Seq(U) : F[s \o r] = F[s] \o F[r]}
  <2>1. <<>> \in P
    <3>1. s \o <<>> = s /\ F[s] \o <<>> = F[s]
        BY <1>1
    <3> QED
        BY <1>1, <3>1
  <2>2. ASSUME NEW r \in Seq(U), NEW x \in U, r \in P PROVE Append(r, x) \in P
    <3> DEFINE p == F[s]
               q == F[r]
               w == F[s \o r]
    <3>1. Append(r, x) \in Seq(U) /\ s \o Append(r, x) = Append(s \o r, x) /\ s \o r \in Seq(U)
        OBVIOUS
    <3>2. p \in Seq(U) /\ q \in Seq(U) /\ w = p \o q
        BY <1>1, <2>2
    <3>3. /\ F[Append(s \o r, x)] = IF x \in Good THEN Append(w, x) ELSE w
          /\ F[Append(r, x)] = IF x \in Good THEN Append(q, x) ELSE q
        BY <1>1, <3>1
    <3> HIDE DEF p, q, w
    <3>4. p \o Append(q, x) = Append(p \o q, x)
        BY <3>2, JoinAppend
    <3>5. F[Append(s \o r, x)] = p \o F[Append(r, x)]
        BY <3>2, <3>3, <3>4
    <3> QED
        BY <3>1, <3>5 DEF p
  <2> HIDE DEF P
  <2>3. t \in P
    BY <2>1, <2>2, ListInduction
  <2> QED
    BY <2>3 DEF P
<1>3. ASSUME NEW s \in Seq(U)
      PROVE  /\ Every(F[s], Good)
             /\ Every(s, Good) => F[s] = s
             /\ NoneIn(s, Good) => F[s] = <<>>
  <2> DEFINE P == {r \in Seq(U) : /\ Every(F[r], Good)
                                  /\ Every(r, Good) => F[r] = r
                                  /\ NoneIn(r, Good) => F[r] = <<>>}
  <2>1. <<>> \in P
    BY <1>1, EveryRule
  <2>2. ASSUME NEW r \in Seq(U), NEW x \in U, r \in P PROVE Append(r, x) \in P
    <3>1. Append(r, x) \in Seq(U) /\ F[r] \in Seq(U)
        BY <1>1
    <3>2. /\ Every(Append(r, x), Good) <=> Every(r, Good) /\ x \in Good
          /\ NoneIn(Append(r, x), Good) <=> NoneIn(r, Good) /\ x \notin Good
          /\ Every(Append(F[r], x), Good) <=> Every(F[r], Good) /\ x \in Good
        BY <3>1, EveryRule
    <3>3. F[Append(r, x)] = IF x \in Good THEN Append(F[r], x) ELSE F[r]
        BY <1>1
    <3>4. /\ Every(F[r], Good)
          /\ Every(r, Good) => F[r] = r
          /\ NoneIn(r, Good) => F[r] = <<>>
        BY <2>2
    <3> QED
        BY <3>1, <3>2, <3>3, <3>4
  <2> HIDE DEF P
  <2>3. s \in P
    BY <2>1, <2>2, ListInduction
  <2> QED
    BY <2>3 DEF P
<1> QED
    BY <1>2, <1>3

\* A group keeps the entries of its key, the pieces of a section those of its name.
LEMMA GroupKeeps ==
    ASSUME NEW U, NEW key
    PROVE  Keeps([s \in Seq(U) |-> Group(s, key)], U, {x \in U : GroupKey(x) = key})
<1> DEFINE F == [s \in Seq(U) |-> Group(s, key)]
           Good == {x \in U : GroupKey(x) = key}
<1>1. <<>> \in Seq(U) /\ \A s \in Seq(U), x \in U : Append(s, x) \in Seq(U)
    OBVIOUS
<1>2. /\ Group(<<>>, key) = <<>>
      /\ \A s \in Seq(U) : Group(s, key) \in Seq(U)
      /\ \A s \in Seq(U), x \in U :
            Group(Append(s, x), key)
               = IF GroupKey(x) = key THEN Append(Group(s, key), x) ELSE Group(s, key)
    BY <1>1, GroupFolds
<1>3. F \in [Seq(U) -> Seq(U)] /\ F[<<>>] = <<>>
    BY <1>1, <1>2
<1>4. ASSUME NEW s \in Seq(U), NEW x \in U
      PROVE  F[Append(s, x)] = IF x \in Good THEN Append(F[s], x) ELSE F[s]
    BY <1>1, <1>2
<1> QED
    BY <1>3, <1>4 DEF Keeps

LEMMA PiecesKeep ==
    ASSUME NEW U, NEW name
    PROVE  Keeps([s \in Seq(U) |-> PiecesOf(s, name)], U, {x \in U : x.name = name})
<1> DEFINE F == [s \in Seq(U) |-> PiecesOf(s, name)]
           Good == {x \in U : x.name = name}
<1>1. <<>> \in Seq(U) /\ \A s \in Seq(U), x \in U : Append(s, x) \in Seq(U)
    OBVIOUS
<1>2. /\ PiecesOf(<<>>, name) = <<>>
      /\ \A s \in Seq(U) : PiecesOf(s, name) \in Seq(U)
      /\ \A s \in Seq(U), x \in U :
            PiecesOf(Append(s, x), name)
               = IF x.name = name THEN Append(PiecesOf(s, name), x) ELSE PiecesOf(s, name)
    BY <1>1, PiecesFold
<1>3. F \in [Seq(U) -> Seq(U)] /\ F[<<>>] = <<>>
    BY <1>1, <1>2
<1>4. ASSUME NEW s \in Seq(U), NEW x \in U
      PROVE  F[Append(s, x)] = IF x \in Good THEN Append(F[s], x) ELSE F[s]
    BY <1>1, <1>2
<1> QED
    BY <1>3, <1>4 DEF Keeps

-----------------------------------------------------------------------------
(* What a transaction published                                            *)

\* A list with one more element repeats none if the shorter one does not have it.
LEMMA InjectiveAppend ==
    ASSUME NEW S, NEW s \in Seq(S), NEW x \in S
    PROVE  IsInjective(Append(s, x)) <=> IsInjective(s) /\ x \notin ToSet(s)
<1> DEFINE r == Append(s, x)
           n == Len(s)
<1>1. /\ DOMAIN s = 1..n /\ n \in Nat /\ DOMAIN r = 1..(n + 1)
      /\ r[n + 1] = x /\ \A i \in 1..n : r[i] = s[i]
    OBVIOUS
<1> HIDE DEF r, n
<1>2. \A i : i \in 1..(n + 1) <=> i \in 1..n \/ i = n + 1
    BY <1>1
<1>3. n + 1 \notin 1..n
    BY <1>1
<1>4. IsInjective(r) => IsInjective(s) /\ x \notin ToSet(s)
    BY <1>1, <1>2, <1>3 DEF IsInjective, ToSet
<1>5. IsInjective(s) /\ x \notin ToSet(s) => IsInjective(r)
    BY <1>1, <1>2, <1>3 DEF IsInjective, ToSet
<1> QED
    BY <1>4, <1>5 DEF r

\* Each key of an entry is listed, and once.
LEMMA GroupKeysAre ==
    ASSUME NEW U, NEW data \in Seq(U)
    PROVE  /\ GroupKeys(data) \in Seq({GroupKey(u) : u \in U})
           /\ IsInjective(GroupKeys(data))
           /\ \A i \in DOMAIN data : GroupKey(data[i]) \in ToSet(GroupKeys(data))
<1> DEFINE K == {GroupKey(u) : u \in U}
           D == Seq(K)
           listed(s, S) == Every(s, {u \in U : GroupKey(u) \in S})
           P == {s \in Seq(U) : IsInjective(GroupKeys(s)) /\ listed(s, ToSet(GroupKeys(s)))}
<1>1. /\ GroupKeys(<<>>) = <<>>
      /\ \A s \in Seq(U) : GroupKeys(s) \in D
      /\ \A s \in Seq(U), u \in U :
            GroupKeys(Append(s, u)) = IF Contains(GroupKeys(s), GroupKey(u)) THEN GroupKeys(s)
                                      ELSE Append(GroupKeys(s), GroupKey(u))
  <2>1. <<>> \in D
    OBVIOUS
  <2>2. \A order \in D, u \in U : (IF Contains(order, GroupKey(u)) THEN order
                                   ELSE Append(order, GroupKey(u))) \in D
    OBVIOUS
  <2> HIDE DEF D
  <2> QED
    BY <2>1, <2>2, GroupKeysFolds
<1>2. <<>> \in P
  <2>1. IsInjective(<<>>)
    BY DEF IsInjective
  <2> QED
    BY <1>1, <2>1, EveryRule
<1>3. ASSUME NEW s \in Seq(U), NEW u \in U, s \in P PROVE Append(s, u) \in P
  <2> DEFINE order == GroupKeys(s)
             longer == GroupKeys(Append(s, u))
  <2>1. order \in Seq(K) /\ GroupKey(u) \in K /\ Append(s, u) \in Seq(U)
    BY <1>1
  <2>2. longer = IF Contains(order, GroupKey(u)) THEN order ELSE Append(order, GroupKey(u))
    BY <1>1
  <2>3. Contains(order, GroupKey(u)) <=> GroupKey(u) \in ToSet(order)
    <3>1. DOMAIN order = 1..Len(order)
        BY <2>1
    <3> QED
        BY <3>1 DEF Contains, ToSet
  <2>4. IsInjective(order) /\ listed(s, ToSet(order))
    BY <1>3
  <2> HIDE DEF order, longer, K, P
  <2>5. ToSet(longer) = ToSet(order) \cup {GroupKey(u)}
    BY <2>1, <2>2, <2>3, ElementsOfAppend
  <2>6. IsInjective(longer)
    <3>1. IsInjective(Append(order, GroupKey(u))) <=> IsInjective(order) /\ GroupKey(u) \notin ToSet(order)
        BY <2>1, InjectiveAppend
    <3> QED
        BY <2>2, <2>3, <2>4, <3>1
  <2>7. listed(s, ToSet(longer))
    BY <2>4, <2>5 DEF Every
  <2>8. listed(Append(s, u), ToSet(longer))
    BY <2>5, <2>7, EveryRule
  <2> QED
    BY <2>1, <2>6, <2>8 DEF P, longer
<1> HIDE DEF P
<1>4. data \in P
    BY <1>2, <1>3, ListInduction
<1> QED
    BY <1>1, <1>4 DEF P, Every

\* The payloads of what has a message each, in order.
Carried(entries) == Payloads([i \in DOMAIN entries |-> entries[i].message])

\* The entries E and the batches that may come of them, of payloads in X.
WithBatches(E, X) ==
    E \cup {[message |-> BatchOf(e.message.action, items), target |-> e.target] :
            e \in E, items \in Seq(X)}

\* A group collapses to entries of its key, with the payloads of the group.
LEMMA CollapsedIs ==
    ASSUME NEW E, NEW X, \A e \in E : e.message.items \in Seq(X),
           NEW key, NEW g \in Seq(E), Every(g, {e \in E : GroupKey(e) = key})
    PROVE  /\ Collapsed(g) \in Seq(WithBatches(E, X))
           /\ Every(Collapsed(g), {u \in WithBatches(E, X) : GroupKey(u) = key})
           /\ Carried(Collapsed(g)) = Carried(g)
<1> DEFINE U == WithBatches(E, X)
           M == {u.message : u \in U}
           messages == [i \in DOMAIN g |-> g[i].message]
           items == Concat([i \in DOMAIN g |-> g[i].message.items])
<1>1. E \subseteq U /\ \A u \in U : u.message.items \in Seq(X)
    BY DEF WithBatches, BatchOf
<1>2. \A m \in M : m.items \in Seq(X)
    BY <1>1
<1>3. messages \in Seq(M)
    BY <1>1
<1>4. items = Carried(g)
  <2>1. [i \in DOMAIN g |-> g[i].message.items] = [i \in DOMAIN messages |-> messages[i].items]
    OBVIOUS
  <2> QED
    BY <2>1 DEF Carried, Payloads
<1>5. items \in Seq(X)
  <2> HIDE DEF M
  <2>1. Payloads(messages) \in Seq(X)
    BY <1>2, <1>3, PayloadsRule
  <2> QED
    BY <1>4, <2>1 DEF Carried
<1>6. CASE ~MayBatch(g)
  <2>1. Collapsed(g) = g
    BY <1>6 DEF Collapsed
  <2>2. g \in Seq(U)
    BY <1>1
  <2>3. Every(g, {u \in U : GroupKey(u) = key})
    BY <1>1 DEF Every
  <2> QED
    BY <2>1, <2>2, <2>3
<1>7. CASE MayBatch(g)
  <2>1. Head(g) \in E /\ GroupKey(Head(g)) = key
    <3>1. Len(g) \in Nat /\ Len(g) >= 1
        BY <1>7, OutboxAssumption DEF MayBatch
    <3>2. Head(g) = g[1] /\ 1 \in DOMAIN g
        BY <3>1
    <3> QED
        BY <3>2 DEF Every
  <2> DEFINE entry == [message |-> BatchOf(Head(g).message.action, items), target |-> Head(g).target]
  <2>2. Collapsed(g) = <<entry>>
    BY <1>7 DEF Collapsed
  <2> HIDE DEF items
  <2>3. entry \in U
    BY <1>5, <2>1 DEF WithBatches
  <2>4. GroupKey(entry) = key
    BY <2>1 DEF GroupKey, BatchOf
  <2>5. <<entry>> \in Seq(U) /\ Every(<<entry>>, {u \in U : GroupKey(u) = key})
    <3> HIDE DEF entry, U
    <3> QED
        BY <2>3, <2>4 DEF Every
  <2>6. Carried(<<entry>>) = items
    <3>1. entry.message \in M /\ entry.message.items = items
        BY <2>3 DEF BatchOf
    <3> DEFINE m == entry.message
    <3>2. Carried(<<entry>>) = Payloads(<<m>>)
        <4> HIDE DEF entry
        <4>1. [i \in DOMAIN <<entry>> |-> <<entry>>[i].message] = <<entry.message>>
            OBVIOUS
        <4> QED
            BY <4>1 DEF Carried
    <3>3. m \in M /\ m.items = items
        BY <3>1
    <3> HIDE DEF m, M
    <3>4. Payloads(Append(<<>>, m)) = Payloads(<<>>) \o m.items /\ Payloads(<<>>) = <<>>
        <4>1. <<>> \in Seq(M)
            OBVIOUS
        <4> QED
            BY <1>2, <3>3, <4>1, PayloadsRule
    <3>5. Append(<<>>, m) = <<m>> /\ <<>> \o items = items
        BY <1>5
    <3> QED
        BY <3>2, <3>3, <3>4, <3>5
  <2> QED
    BY <1>4, <2>2, <2>5, <2>6
<1> QED
    BY <1>6, <1>7

\* Each key has a list of its own entries.
OfTheirKeys(f, K, U) ==
    /\ f \in [K -> Seq(U)]
    /\ \A k \in K : Every(f[k], {u \in U : GroupKey(u) = k})

\* Of groups that were collapsed and joined, that of a key is what its own collapsed to.
LEMMA GroupOfJoined ==
    ASSUME NEW U, NEW K, NEW f, OfTheirKeys(f, K, U),
           NEW order \in Seq(K), IsInjective(order), NEW key
    PROVE  Group(Flat(f, order), key) = IF key \in ToSet(order) THEN f[key] ELSE <<>>
<1> DEFINE F == [s \in Seq(U) |-> Group(s, key)]
           Good == {u \in U : GroupKey(u) = key}
           P == {s \in Seq(K) : IsInjective(s) =>
                    F[Flat(f, s)] = IF key \in ToSet(s) THEN f[key] ELSE <<>>}
<1>1. Keeps(F, U, Good)
    BY GroupKeeps
<1>2. \A s \in Seq(U) : F[s] = Group(s, key)
    OBVIOUS
<1> HIDE DEF F
<1>3. ASSUME NEW k \in K PROVE F[f[k]] = IF k = key THEN f[k] ELSE <<>>
  <2>1. f[k] \in Seq(U) /\ Every(f[k], {u \in U : GroupKey(u) = k})
    BY DEF OfTheirKeys
  <2>2. k = key => Every(f[k], Good)
    BY <2>1
  <2>3. k # key => NoneIn(f[k], Good)
    BY <2>1 DEF Every, NoneIn
  <2> HIDE DEF Good
  <2> QED
    BY <1>1, <2>1, <2>2, <2>3, KeptRule
<1>4. /\ Flat(f, <<>>) = <<>>
      /\ \A s \in Seq(K) : Flat(f, s) \in Seq(U)
      /\ \A s \in Seq(K), k \in K : Flat(f, Append(s, k)) = Flat(f, s) \o f[k]
      /\ \A k \in K : f[k] \in Seq(U)
  <2>1. f \in [K -> Seq(U)]
    BY DEF OfTheirKeys
  <2> QED
    BY <2>1, FlatRule
<1>5. \A s \in Seq(U), t \in Seq(U) : F[s \o t] = F[s] \o F[t]
    BY <1>1, KeptRule
<1>6. <<>> \in P
  <2>1. F[<<>>] = <<>>
    BY <1>1 DEF Keeps
  <2>2. key \notin ToSet(<<>>)
    BY DEF ToSet
  <2> QED
    BY <1>4, <2>1, <2>2
<1>7. ASSUME NEW s \in Seq(K), NEW k \in K, s \in P PROVE Append(s, k) \in P
  <2> SUFFICES ASSUME IsInjective(Append(s, k))
               PROVE  F[Flat(f, Append(s, k))]
                         = IF key \in ToSet(Append(s, k)) THEN f[key] ELSE <<>>
    OBVIOUS
  <2>1. IsInjective(s) /\ k \notin ToSet(s) /\ ToSet(Append(s, k)) = ToSet(s) \cup {k}
    BY InjectiveAppend, ElementsOfAppend
  <2>2. F[Flat(f, s)] = IF key \in ToSet(s) THEN f[key] ELSE <<>>
    BY <1>7, <2>1
  <2>3. Flat(f, s) \in Seq(U) /\ f[k] \in Seq(U) /\ Flat(f, Append(s, k)) = Flat(f, s) \o f[k]
    BY <1>4
  <2> HIDE DEF P, Good
  <2>4. F[Flat(f, s) \o f[k]] = F[Flat(f, s)] \o F[f[k]]
    BY <1>5, <2>3
  <2>5. CASE k = key
    <3>1. F[Flat(f, s)] = <<>> /\ F[f[k]] = f[k]
        BY <1>3, <2>1, <2>2, <2>5
    <3>2. <<>> \o f[k] = f[k]
        BY <2>3
    <3> QED
        BY <2>1, <2>3, <2>4, <2>5, <3>1, <3>2
  <2>6. CASE k # key
    <3> DEFINE kept == F[Flat(f, s)]
    <3>1. F[f[k]] = <<>> /\ kept \in Seq(U)
        BY <1>1, <1>3, <2>3, <2>6 DEF Keeps
    <3> HIDE DEF kept
    <3>2. kept \o <<>> = kept
        BY <3>1
    <3> QED
        BY <2>1, <2>2, <2>3, <2>4, <2>6, <3>1, <3>2 DEF kept
  <2> QED
    BY <2>5, <2>6
<1>8. order \in P
  <2> HIDE DEF P
  <2> QED
    BY <1>6, <1>7, ListInduction
<1> QED
    BY <1>4, <1>8, <1>2

\* What a commit sends keeps every stream.
LEMMA CollapseKeeps ==
    ASSUME NEW data, Published(data)
    PROVE  KeepsEveryStream(data, Collapse(data))
<1> DEFINE E == ToSet(data)
           X == UNION {ToSet(e.message.items) : e \in E}
           U == WithBatches(E, X)
           K == {GroupKey(e) : e \in E}
           order == GroupKeys(data)
           f == [k \in K |-> Collapsed(Group(data, k))]
<1>1. data \in Seq(E) /\ \A e \in E : e.message.items \in Seq(X)
  <2>1. data \in Seq(E) /\ \A e \in E : e.message.items \in Seq(ToSet(e.message.items))
    BY DEF Published, IsList
  <2>2. ASSUME NEW e \in E PROVE e.message.items \in Seq(X)
    <3>1. ToSet(e.message.items) \subseteq X
        OBVIOUS
    <3>2. e.message.items \in Seq(ToSet(e.message.items))
        BY <2>1
    <3> HIDE DEF X
    <3> QED
        BY <3>1, <3>2
  <2> QED
    BY <2>1, <2>2
<1> HIDE DEF E, X
<1>2. ASSUME NEW key
      PROVE  /\ Group(data, key) \in Seq(E)
             /\ Every(Group(data, key), {e \in E : GroupKey(e) = key})
             /\ key \notin ToSet(order) => Group(data, key) = <<>>
  <2> DEFINE F == [s \in Seq(E) |-> Group(s, key)]
             Good == {e \in E : GroupKey(e) = key}
  <2>1. Keeps(F, E, Good)
    BY GroupKeeps
  <2>2. F[data] = Group(data, key)
    BY <1>1
  <2> HIDE DEF F
  <2>3. F[data] \in Seq(E)
    BY <1>1, <2>1 DEF Keeps
  <2>4. key \notin ToSet(order) => NoneIn(data, Good)
    BY <1>1, GroupKeysAre DEF NoneIn
  <2> HIDE DEF Good, order
  <2>5. Every(F[data], Good) /\ (NoneIn(data, Good) => F[data] = <<>>)
    BY <1>1, <2>1, KeptRule
  <2> QED
    BY <2>2, <2>3, <2>4, <2>5 DEF Good
<1>3. ASSUME NEW key
      PROVE  /\ Collapsed(Group(data, key)) \in Seq(U)
             /\ Every(Collapsed(Group(data, key)), {u \in U : GroupKey(u) = key})
             /\ Carried(Collapsed(Group(data, key))) = Carried(Group(data, key))
  <2> DEFINE g == Group(data, key)
  <2>1. g \in Seq(E) /\ Every(g, {e \in E : GroupKey(e) = key})
    BY <1>2
  <2> HIDE DEF g
  <2>2. /\ Collapsed(g) \in Seq(WithBatches(E, X))
        /\ Every(Collapsed(g), {u \in WithBatches(E, X) : GroupKey(u) = key})
        /\ Carried(Collapsed(g)) = Carried(g)
    BY <1>1, <2>1, CollapsedIs
  <2> QED
    BY <2>2 DEF g
<1>4. order \in Seq(K) /\ IsInjective(order)
    BY <1>1, GroupKeysAre
<1>5. Collapse(data) = Flat(f, order)
  <2>1. [i \in DOMAIN order |-> Collapsed(Group(data, order[i]))]
           = [i \in DOMAIN order |-> f[order[i]]]
    <3> HIDE DEF order, K
    <3> QED
        BY <1>4
  <2> QED
    BY <2>1 DEF Collapse, Flat
<1>6. OfTheirKeys(f, K, U)
  <2> HIDE DEF K, U
  <2> QED
    BY <1>3 DEF OfTheirKeys
<1>7. ASSUME NEW key PROVE Carried(Group(Collapse(data), key)) = Carried(Group(data, key))
  <2>1. Group(Collapse(data), key) = IF key \in ToSet(order) THEN f[key] ELSE <<>>
    <3> HIDE DEF f, order, K, U
    <3> QED
        BY <1>4, <1>5, <1>6, GroupOfJoined
  <2>2. CASE key \in ToSet(order)
    <3>1. key \in K
        <4> HIDE DEF order, K
        <4> QED
            BY <1>4, <2>2, FewElements
    <3> HIDE DEF K, U, order
    <3>2. f[key] = Collapsed(Group(data, key))
        BY <3>1
    <3> QED
        BY <1>3, <2>1, <2>2, <3>2
  <2>3. CASE key \notin ToSet(order)
    <3> HIDE DEF K, U, order, f
    <3> QED
        BY <1>2, <2>1, <2>3
  <2> QED
    BY <2>2, <2>3
<1> HIDE DEF f, order, K, U
<1> QED
    BY <1>7 DEF KeepsEveryStream, Carried
-----------------------------------------------------------------------------
(* The bytes of a list                                                     *)

Total(f, s) == SumFunction([i \in DOMAIN s |-> f[s[i]]])

\* A total grows with the list.
LEMMA TotalRule ==
    ASSUME NEW U, NEW f \in [U -> Nat]
    PROVE  /\ Total(f, <<>>) = 0
           /\ \A s \in Seq(U) : Total(f, s) \in Nat
           /\ \A s \in Seq(U), x \in U : Total(f, Append(s, x)) = Total(f, s) + f[x]
<1>1. ASSUME NEW s \in Seq(U)
      PROVE  LET g == [i \in DOMAIN s |-> f[s[i]]] IN
             /\ Total(f, s) = Sum(g, 1..Len(s))
             /\ IsFiniteSet(1..Len(s)) /\ Counts(g, 1..Len(s))
             /\ Total(f, s) \in Nat
  <2> DEFINE g == [i \in DOMAIN s |-> f[s[i]]]
  <2>1. DOMAIN s = 1..Len(s) /\ Len(s) \in Nat /\ DOMAIN g = 1..Len(s)
    OBVIOUS
  <2>2. IsFiniteSet(1..Len(s))
    BY <2>1, FS_Interval
  <2>3. Counts(g, 1..Len(s))
    BY <2>1 DEF Counts
  <2>4. Total(f, s) = Sum(g, 1..Len(s))
    <3>1. SumFunction(g) = Sum(g, DOMAIN g)
        BY DEF SumFunction, Sum
    <3> QED
        BY <2>1, <3>1 DEF Total
  <2> HIDE DEF g
  <2>5. Sum(g, 1..Len(s)) \in Nat
    BY <2>2, <2>3, SumRule
  <2> QED
    BY <2>2, <2>3, <2>4, <2>5 DEF g
<1>2. ASSUME NEW s \in Seq(U), NEW x \in U PROVE Total(f, Append(s, x)) = Total(f, s) + f[x]
  <2> DEFINE r == Append(s, x)
             n == Len(s)
             g == [i \in DOMAIN s |-> f[s[i]]]
             h == [i \in DOMAIN r |-> f[r[i]]]
  <2>1. r \in Seq(U) /\ Len(r) = n + 1 /\ n \in Nat
    OBVIOUS
  <2>2. h[n + 1] = f[x] /\ \A i \in 1..n : h[i] = g[i]
    OBVIOUS
  <2>3. /\ Total(f, s) = Sum(g, 1..n) /\ Total(f, r) = Sum(h, 1..(n + 1))
        /\ IsFiniteSet(1..(n + 1)) /\ Counts(h, 1..(n + 1))
        /\ IsFiniteSet(1..n) /\ Counts(g, 1..n)
    <3> HIDE DEF r
    <3> QED
        BY <1>1, <2>1
  <2> HIDE DEF r, n, g, h
  <2>4. n + 1 \in 1..(n + 1) /\ (1..(n + 1)) \ {n + 1} = 1..n /\ 1..n \in SUBSET (1..(n + 1))
    BY <2>1
  <2>5. Sum(h, 1..(n + 1)) = h[n + 1] + Sum(h, 1..n)
    <3>1. \A i \in 1..(n + 1) : Sum(h, 1..(n + 1)) = h[i] + Sum(h, (1..(n + 1)) \ {i})
        BY <2>3, SumSplit
    <3> QED
        BY <2>4, <3>1
  <2>6. Sum(h, 1..n) = Sum(g, 1..n)
    <3>1. Counts(h, 1..n)
        BY <2>3, <2>4 DEF Counts
    <3> QED
        BY <2>2, <2>3, <3>1, SumSame
  <2>7. Sum(g, 1..n) \in Nat /\ f[x] \in Nat
    <3>1. Sum(g, 1..n) \in Nat
        BY <2>3, SumRule
    <3> QED
        BY <3>1
  <2> QED
    BY <2>2, <2>3, <2>5, <2>6, <2>7 DEF r
<1>3. Total(f, <<>>) = 0
  <2> DEFINE g == [i \in DOMAIN <<>> |-> f[<<>>[i]]]
  <2>1. DOMAIN g = {}
    OBVIOUS
  <2>2. Counts(g, {}) /\ IsFiniteSet({}) /\ {} \in SUBSET {}
    BY FS_EmptySet DEF Counts
  <2> HIDE DEF g
  <2>3. Sum(g, {}) = 0
    BY <2>2, SumRule
  <2>4. SumFunction(g) = Sum(g, {})
    BY <2>1 DEF SumFunction, Sum
  <2> QED
    BY <2>3, <2>4 DEF Total, g
<1> QED
    BY <1>1, <1>2, <1>3

\* The bytes of items, item by item.
LEMMA BytesRule ==
    ASSUME NEW X, \A x \in X : x.size \in Nat
    PROVE  /\ Bytes(<<>>) = 0
           /\ \A s \in Seq(X) : Bytes(s) \in Nat
           /\ \A s \in Seq(X), x \in X : Bytes(Append(s, x)) = Bytes(s) + x.size
<1> DEFINE f == [x \in X |-> x.size]
<1>1. f \in [X -> Nat] /\ \A x \in X : f[x] = x.size
    OBVIOUS
<1>2. ASSUME NEW s \in Seq(X) PROVE Bytes(s) = Total(f, s)
  <2>1. [i \in DOMAIN s |-> s[i].size] = [i \in DOMAIN s |-> f[s[i]]]
    OBVIOUS
  <2> QED
    BY <2>1 DEF Bytes, Total
<1> HIDE DEF f
<1>3. <<>> \in Seq(X) /\ \A s \in Seq(X), x \in X : Append(s, x) \in Seq(X)
    OBVIOUS
<1>4. /\ Total(f, <<>>) = 0
      /\ \A s \in Seq(X) : Total(f, s) \in Nat
      /\ \A s \in Seq(X), x \in X : Total(f, Append(s, x)) = Total(f, s) + f[x]
    BY <1>1, TotalRule
<1>5. Bytes(<<>>) = 0
    BY <1>2, <1>3, <1>4
<1>6. \A s \in Seq(X) : Bytes(s) \in Nat
    BY <1>2, <1>4
<1>7. \A s \in Seq(X), x \in X : Bytes(Append(s, x)) = Bytes(s) + x.size
    BY <1>1, <1>2, <1>3, <1>4
<1> QED
    BY <1>5, <1>6, <1>7

-----------------------------------------------------------------------------
(* The messages of a section                                               *)

\* Messages of M, items X: what a collector leaves, and what is cut of it.
Sendable(M, X) ==
    /\ \A x \in X : x.size \in Nat
    /\ \A m \in M : /\ m.items \in Seq(X) /\ m.items # <<>> /\ m.batch \in BOOLEAN
                    /\ ~m.batch => Len(m.items) = 1

WithCuts(M, X) == M \cup {BatchOf(m.action, items) : m \in M, items \in Seq(X) \ {<<>>}}

\* The pieces that messages come in: their bytes are not counted low, and only what
\* is a single item outgrows the limit.
PiecesOfMessages(M, X, limit) ==
    {z \in [message : WithCuts(M, X), size : Nat] :
        /\ JsonSize(z.message) <= z.size
        /\ z.size <= limit \/ Len(z.message.items) = 1}

\* What is sent has items, and bytes.
LEMMA CutsAre ==
    ASSUME NEW M, NEW X, Sendable(M, X)
    PROVE  /\ \A m \in WithCuts(M, X) :
                 /\ m.items \in Seq(X) /\ m.items # <<>>
                 /\ JsonSize(m) \in Nat
           /\ \A m \in M, items \in Seq(X) :
                 items # <<>> =>
                    /\ Chunk(m, items).message \in WithCuts(M, X)
                    /\ Chunk(m, items).message.items = items
                    /\ Chunk(m, items).size \in Nat
                    /\ JsonSize(Chunk(m, items).message) <= Chunk(m, items).size
<1>1. ASSUME NEW m \in WithCuts(M, X)
      PROVE  m.items \in Seq(X) /\ m.items # <<>> /\ JsonSize(m) \in Nat
  <2>1. m.items \in Seq(X) /\ m.items # <<>>
    BY DEF WithCuts, BatchOf, Sendable
  <2> DEFINE n == Len(m.items)
  <2>2. n \in Nat /\ n > 0
    BY <2>1
  <2>3. Bytes(m.items) \in Nat
    BY <2>1, BytesRule DEF Sendable
  <2> HIDE DEF n
  <2>4. Envelope + Bytes(m.items) + n - 1 \in Nat
    BY <2>2, <2>3, OutboxAssumption
  <2> QED
    BY <2>1, <2>4 DEF JsonSize, n
<1>2. ASSUME NEW m \in M, NEW items \in Seq(X), items # <<>>
      PROVE  /\ Chunk(m, items).message \in WithCuts(M, X)
             /\ Chunk(m, items).message.items = items
             /\ Chunk(m, items).size \in Nat
             /\ JsonSize(Chunk(m, items).message) <= Chunk(m, items).size
  <2>1. Chunk(m, items).message = BatchOf(m.action, items)
    BY DEF Chunk
  <2>2. BatchOf(m.action, items) \in WithCuts(M, X) /\ BatchOf(m.action, items).items = items
    <3>1. items \in Seq(X) \ {<<>>}
        BY <1>2
    <3>2. BatchOf(m.action, items) \in WithCuts(M, X)
        BY <3>1 DEF WithCuts
    <3>3. BatchOf(m.action, items).items = items
        BY DEF BatchOf
    <3> QED
        BY <3>2, <3>3
  <2>3. Bytes(items) \in Nat /\ Len(items) \in Nat
    BY BytesRule DEF Sendable
  <2>4. /\ Chunk(m, items).size = Envelope + Bytes(items) + Len(items)
        /\ JsonSize(Chunk(m, items).message) = Envelope + Bytes(items) + Len(items) - 1
    BY <2>1, <2>2 DEF Chunk, JsonSize
  <2> QED
    BY <2>1, <2>2, <2>3, <2>4, OutboxAssumption
<1> QED
    BY <1>1, <1>2

\* The payloads of pieces, piece by piece.
LEMMA CarriedRule ==
    ASSUME NEW Z, NEW X, \A z \in Z : z.message.items \in Seq(X)
    PROVE  /\ Carried(<<>>) = <<>>
           /\ \A s \in Seq(Z) : Carried(s) \in Seq(X)
           /\ \A s \in Seq(Z), z \in Z : Carried(Append(s, z)) = Carried(s) \o z.message.items
           /\ \A s \in Seq(Z), t \in Seq(Z) : Carried(s \o t) = Carried(s) \o Carried(t)
<1> DEFINE f == [z \in Z |-> z.message.items]
<1>1. f \in [Z -> Seq(X)] /\ \A z \in Z : f[z] = z.message.items
    OBVIOUS
<1>2. ASSUME NEW s \in Seq(Z) PROVE Carried(s) = Flat(f, s)
  <2> DEFINE messages == [i \in DOMAIN s |-> s[i].message]
  <2>1. [i \in DOMAIN messages |-> messages[i].items] = [i \in DOMAIN s |-> f[s[i]]]
    OBVIOUS
  <2> QED
    BY <2>1 DEF Carried, Payloads, Flat
<1> HIDE DEF f
<1>3. <<>> \in Seq(Z) /\ \A s \in Seq(Z), z \in Z : Append(s, z) \in Seq(Z)
    OBVIOUS
<1>4. \A s \in Seq(Z), t \in Seq(Z) : s \o t \in Seq(Z)
    OBVIOUS
<1>5. /\ Flat(f, <<>>) = <<>>
      /\ \A s \in Seq(Z) : Flat(f, s) \in Seq(X)
      /\ \A s \in Seq(Z), z \in Z : Flat(f, Append(s, z)) = Flat(f, s) \o f[z]
    BY <1>1, FlatRule
<1>6. \A s \in Seq(Z), t \in Seq(Z) : Flat(f, s \o t) = Flat(f, s) \o Flat(f, t)
    BY <1>1, FlatJoin
<1>7. Carried(<<>>) = <<>>
    BY <1>2, <1>3, <1>5
<1>8. \A s \in Seq(Z) : Carried(s) \in Seq(X)
    BY <1>2, <1>5
<1>9. \A s \in Seq(Z), z \in Z : Carried(Append(s, z)) = Carried(s) \o z.message.items
    BY <1>1, <1>2, <1>3, <1>5
<1>10. \A s \in Seq(Z), t \in Seq(Z) : Carried(s \o t) = Carried(s) \o Carried(t)
    BY <1>2, <1>4, <1>6
<1> QED
    BY <1>7, <1>8, <1>9, <1>10

\* The chunks that a message may be cut into, and the one at hand: of one item, or
\* within the limit.
Cutting(m, M, X, limit) ==
    [pieces : Seq(PiecesOfMessages(M, X, limit)),
     chunk : {c \in Seq(X) : c = <<>> \/ Len(c) = 1 \/ Chunk(m, c).size <= limit}]

\* A chunk that is at hand is a piece.
LEMMA ChunkIsPiece ==
    ASSUME NEW M, NEW X, Sendable(M, X), NEW limit \in Nat, NEW m \in M,
           NEW acc \in Cutting(m, M, X, limit), acc.chunk # <<>>
    PROVE  /\ Chunk(m, acc.chunk) \in PiecesOfMessages(M, X, limit)
           /\ Chunk(m, acc.chunk).message.items = acc.chunk
<1> DEFINE z == Chunk(m, acc.chunk)
<1>1. acc.chunk \in Seq(X) /\ (Len(acc.chunk) = 1 \/ z.size <= limit)
    BY DEF Cutting
<1>2. /\ z.message \in WithCuts(M, X) /\ z.message.items = acc.chunk
      /\ z.size \in Nat /\ JsonSize(z.message) <= z.size
    BY <1>1, CutsAre
<1>3. z = [message |-> z.message, size |-> z.size]
    BY DEF Chunk
<1>4. z \in [message : WithCuts(M, X), size : Nat]
    BY <1>2, <1>3
<1> HIDE DEF z
<1>5. z \in PiecesOfMessages(M, X, limit)
    BY <1>1, <1>2, <1>4 DEF PiecesOfMessages
<1> QED
    BY <1>2, <1>5 DEF z

\* The chunks that were cut, and the one at hand, have these items.
CutFrom(acc, items) == Carried(acc.pieces) \o acc.chunk = items

\* Adding an item goes on cutting, and loses nothing.
LEMMA AddItemCuts ==
    ASSUME NEW M, NEW X, Sendable(M, X), NEW limit \in Nat, NEW m \in M,
           NEW acc \in Cutting(m, M, X, limit), NEW x \in X,
           NEW items, CutFrom(acc, items), NEW next, next = AddItem(acc, x, m, limit)
    PROVE  /\ next \in Cutting(m, M, X, limit)
           /\ next.chunk # <<>>
           /\ CutFrom(next, Append(items, x))
<1> DEFINE Z == PiecesOfMessages(M, X, limit)
           C == {c \in Seq(X) : c = <<>> \/ Len(c) = 1 \/ Chunk(m, c).size <= limit}
<1>1. /\ acc.pieces \in Seq(Z) /\ acc.chunk \in C /\ acc.chunk \in Seq(X)
      /\ acc = [pieces |-> acc.pieces, chunk |-> acc.chunk]
    BY DEF Cutting
<1>2. \A z \in Z : z.message.items \in Seq(X)
    BY CutsAre DEF PiecesOfMessages
<1> DEFINE p == Carried(acc.pieces)
           c == acc.chunk
<1>3. p \in Seq(X)
  <2> HIDE DEF Z
  <2> QED
    BY <1>1, <1>2, CarriedRule
<1>4. CASE acc.chunk # <<>> /\ Chunk(m, Append(acc.chunk, x)).size > limit
  <2> DEFINE z == Chunk(m, acc.chunk)
  <2>1. next = [pieces |-> Append(acc.pieces, z), chunk |-> <<x>>]
    BY <1>4 DEF AddItem
  <2>2. z \in Z /\ z.message.items = c
    BY <1>4, ChunkIsPiece
  <2> HIDE DEF z, Z
  <2>3. Carried(Append(acc.pieces, z)) = p \o c
    BY <1>1, <1>2, <2>2, CarriedRule
  <2> HIDE DEF p, c
  <2>4. <<x>> \in C
    BY DEF C
  <2>5. Append(acc.pieces, z) \in Seq(Z)
    BY <1>1, <2>2
  <2>6. next \in [pieces : Seq(Z), chunk : C] /\ next.chunk = <<x>>
    BY <2>1, <2>4, <2>5
  <2>7. (p \o c) \o <<x>> = Append(p \o c, x)
    <3>1. c \in Seq(X)
        BY <1>1 DEF c
    <3> QED
        BY <1>3, <3>1
  <2>8. next.pieces = Append(acc.pieces, z) /\ <<x>> # <<>>
    BY <2>1
  <2> QED
    BY <2>3, <2>6, <2>7, <2>8 DEF Cutting, CutFrom, Z, p, c
<1>5. CASE ~(acc.chunk # <<>> /\ Chunk(m, Append(acc.chunk, x)).size > limit)
  <2>1. next = [pieces |-> acc.pieces, chunk |-> Append(c, x)]
    BY <1>1, <1>5 DEF AddItem
  <2>2. Append(c, x) \in Seq(X) /\ Append(c, x) # <<>>
    BY <1>1
  <2>3. Append(c, x) \in C
    <3>1. CASE c = <<>>
        <4>1. Len(Append(c, x)) = 1
            BY <3>1
        <4> QED
            BY <2>2, <4>1
    <3>2. CASE c # <<>>
        <4>1. Chunk(m, Append(c, x)).size \in Nat
            BY <2>2, CutsAre
        <4>2. Chunk(m, Append(c, x)).size <= limit
            BY <1>5, <3>2, <4>1
        <4> QED
            BY <2>2, <4>2
    <3> QED
        BY <3>1, <3>2
  <2> HIDE DEF C, Z
  <2>4. next \in [pieces : Seq(Z), chunk : C] /\ next.pieces = acc.pieces /\ next.chunk = Append(c, x)
    BY <1>1, <2>1, <2>3
  <2> HIDE DEF p, c
  <2>5. p \o Append(c, x) = Append(p \o c, x)
    <3>1. c \in Seq(X)
        BY <1>1 DEF c
    <3> QED
        BY <1>3, <3>1, JoinAppend
  <2> QED
    BY <2>2, <2>4, <2>5 DEF Cutting, CutFrom, C, Z, p, c
<1> QED
    BY <1>4, <1>5

\* A message that outgrows the limit is cut into pieces with all of its payloads.
LEMMA SplitKeeps ==
    ASSUME NEW M, NEW X, Sendable(M, X), NEW limit \in Nat, NEW m \in M
    PROVE  /\ SplitBatch(m, limit) \in Seq(PiecesOfMessages(M, X, limit))
           /\ Carried(SplitBatch(m, limit)) = m.items
<1> DEFINE Z == PiecesOfMessages(M, X, limit)
           D == Cutting(m, M, X, limit)
           cut(items) == Chunked(m, limit, items)
           P == {s \in Seq(X) : /\ s # <<>> => cut(s).chunk # <<>>
                                /\ CutFrom(cut(s), s)}
<1>1. \A z \in Z : z.message.items \in Seq(X)
    BY CutsAre DEF PiecesOfMessages
<1>2. /\ Carried(<<>>) = <<>>
      /\ \A s \in Seq(Z), z \in Z : Carried(Append(s, z)) = Carried(s) \o z.message.items
  <2> HIDE DEF Z
  <2> QED
    BY <1>1, CarriedRule
<1>3. m.items \in Seq(X) /\ m.items # <<>> /\ m.batch \in BOOLEAN /\ (~m.batch => Len(m.items) = 1)
    BY DEF Sendable
<1>4. CASE ~m.batch
  <2> DEFINE z == [message |-> m, size |-> JsonSize(m)]
  <2>1. SplitBatch(m, limit) = <<z>>
    BY <1>4 DEF SplitBatch
  <2>2. m \in WithCuts(M, X)
    BY DEF WithCuts
  <2>3. JsonSize(m) \in Nat
    BY <2>2, CutsAre
  <2>4. z \in Z
    BY <1>3, <1>4, <2>2, <2>3 DEF PiecesOfMessages
  <2>5. z.message.items = m.items
    OBVIOUS
  <2> HIDE DEF z, Z
  <2>6. <<z>> \in Seq(Z) /\ <<z>> = Append(<<>>, z) /\ <<>> \in Seq(Z)
    BY <2>4
  <2>7. Carried(Append(<<>>, z)) = <<>> \o m.items
    BY <1>2, <2>4, <2>5, <2>6
  <2>8. <<>> \o m.items = m.items
    BY <1>3
  <2> QED
    BY <2>1, <2>6, <2>7, <2>8 DEF Z
<1>5. CASE m.batch
  <2>1. /\ cut(<<>>) = NothingCut
        /\ \A s \in Seq(X) : cut(s) \in D
        /\ \A s \in Seq(X), x \in X : cut(Append(s, x)) = AddItem(cut(s), x, m, limit)
    <3>1. NothingCut \in D
        BY DEF Cutting, NothingCut
    <3>2. ASSUME NEW acc \in D, NEW x \in X PROVE AddItem(acc, x, m, limit) \in D
        <4>1. CutFrom(acc, Carried(acc.pieces) \o acc.chunk)
            BY DEF CutFrom
        <4> QED
            BY <4>1, AddItemCuts
    <3> HIDE DEF D, P, Z
    <3>3. /\ Chunked(m, limit, <<>>) = NothingCut
          /\ \A s \in Seq(X) : Chunked(m, limit, s) \in D
          /\ \A s \in Seq(X), x \in X :
                Chunked(m, limit, Append(s, x)) = AddItem(Chunked(m, limit, s), x, m, limit)
        <4>1. ClosedByAddItem(D, X, m, limit)
            BY <3>1, <3>2 DEF ClosedByAddItem
        <4> QED
            BY <4>1, ChunkedFolds
    <3> QED
        BY <3>3
  <2>2. <<>> \in P
    <3>1. cut(<<>>).pieces = <<>> /\ cut(<<>>).chunk = <<>>
        BY <2>1 DEF NothingCut
    <3>2. <<>> \o <<>> = <<>> /\ <<>> \in Seq(X)
        OBVIOUS
    <3> HIDE DEF cut
    <3> QED
        BY <1>2, <3>1, <3>2 DEF CutFrom
  <2>3. ASSUME NEW s \in Seq(X), NEW x \in X, s \in P PROVE Append(s, x) \in P
    <3> DEFINE acc == cut(s)
               next == AddItem(acc, x, m, limit)
    <3>1. acc \in D /\ cut(Append(s, x)) = next
        BY <2>1
    <3>2. CutFrom(acc, s)
        BY <2>3
    <3> HIDE DEF acc
    <3>3. next.chunk # <<>> /\ CutFrom(next, Append(s, x))
        <4> HIDE DEF P, Z, cut
        <4>1. acc \in Cutting(m, M, X, limit)
            BY <3>1
        <4> QED
            BY <3>2, <4>1, AddItemCuts
    <3>4. Append(s, x) \in Seq(X)
        OBVIOUS
    <3> HIDE DEF next
    <3> QED
        BY <3>1, <3>3, <3>4
  <2> DEFINE end == cut(m.items)
             z == Chunk(m, end.chunk)
  <2>4. end \in D /\ end.chunk # <<>> /\ CutFrom(end, m.items)
    <3>1. m.items \in P
        <4> HIDE DEF P
        <4> QED
            BY <1>3, <2>2, <2>3, ListInduction
    <3> QED
        BY <1>3, <2>1, <3>1
  <2>5. SplitBatch(m, limit) = Append(end.pieces, z)
    BY <1>5 DEF SplitBatch, Chunks, Chunked, NothingCut
  <2> HIDE DEF end
  <2>6. z \in Z /\ z.message.items = end.chunk /\ end.pieces \in Seq(Z)
    <3>1. z \in Z /\ z.message.items = end.chunk
        BY <2>4, ChunkIsPiece
    <3>2. end.pieces \in Seq(Z)
        BY <2>4 DEF Cutting
    <3> QED
        BY <3>1, <3>2
  <2> HIDE DEF z, Z
  <2>7. Append(end.pieces, z) \in Seq(Z)
    BY <2>6
  <2> QED
    BY <1>2, <2>4, <2>5, <2>6, <2>7 DEF CutFrom, Z
<1> QED
    BY <1>3, <1>4, <1>5

\* The messages of a section come in pieces with all of their payloads.
LEMMA SizedKeeps ==
    ASSUME NEW M, NEW X, Sendable(M, X), NEW limit \in Nat, NEW messages \in Seq(M)
    PROVE  /\ Sized(messages, limit) \in Seq(PiecesOfMessages(M, X, limit))
           /\ Carried(Sized(messages, limit)) = Payloads(messages)
<1> DEFINE Z == PiecesOfMessages(M, X, limit)
           sized(m) == IF JsonSize(m) <= limit THEN <<[message |-> m, size |-> JsonSize(m)]>>
                       ELSE SplitBatch(m, limit)
           f == [m \in M |-> sized(m)]
           P == {s \in Seq(M) : Carried(Flat(f, s)) = Payloads(s)}
<1>1. \A z \in Z : z.message.items \in Seq(X)
    BY CutsAre DEF PiecesOfMessages
<1>2. /\ Carried(<<>>) = <<>>
      /\ \A s \in Seq(Z), z \in Z : Carried(Append(s, z)) = Carried(s) \o z.message.items
      /\ \A s \in Seq(Z), t \in Seq(Z) : Carried(s \o t) = Carried(s) \o Carried(t)
  <2> HIDE DEF Z
  <2> QED
    BY <1>1, CarriedRule
<1>3. /\ Payloads(<<>>) = <<>>
      /\ \A s \in Seq(M), m \in M : Payloads(Append(s, m)) = Payloads(s) \o m.items
  <2>1. \A m \in M : m.items \in Seq(X)
    BY DEF Sendable
  <2> QED
    BY <2>1, PayloadsRule
<1>4. ASSUME NEW m \in M PROVE sized(m) \in Seq(Z) /\ Carried(sized(m)) = m.items
  <2>1. CASE JsonSize(m) <= limit
    <3> DEFINE z == [message |-> m, size |-> JsonSize(m)]
    <3>1. m \in WithCuts(M, X) /\ m.items \in Seq(X)
        BY DEF WithCuts, Sendable
    <3>2. JsonSize(m) \in Nat
        BY <3>1, CutsAre
    <3>3. z \in Z
        BY <2>1, <3>1, <3>2 DEF PiecesOfMessages
    <3>4. z.message.items = m.items /\ sized(m) = <<z>>
        BY <2>1
    <3> HIDE DEF z, Z, sized
    <3>5. <<z>> \in Seq(Z) /\ <<z>> = Append(<<>>, z) /\ <<>> \in Seq(Z)
        BY <3>3
    <3>6. Carried(Append(<<>>, z)) = <<>> \o m.items
        BY <1>2, <3>3, <3>4, <3>5
    <3>7. <<>> \o m.items = m.items
        BY <3>1
    <3> QED
        BY <3>4, <3>5, <3>6, <3>7
  <2>2. CASE ~(JsonSize(m) <= limit)
    BY <2>2, SplitKeeps
  <2> QED
    BY <2>1, <2>2
<1> HIDE DEF Z, sized
<1>5. f \in [M -> Seq(Z)] /\ \A m \in M : f[m] = sized(m)
    BY <1>4
<1>6. Sized(messages, limit) = Flat(f, messages)
  <2>1. [i \in DOMAIN messages |-> sized(messages[i])] = [i \in DOMAIN messages |-> f[messages[i]]]
    BY <1>5
  <2> QED
    BY <2>1 DEF Sized, Flat, sized
<1> HIDE DEF f
<1>7. /\ Flat(f, <<>>) = <<>>
      /\ \A s \in Seq(M) : Flat(f, s) \in Seq(Z)
      /\ \A s \in Seq(M), m \in M : Flat(f, Append(s, m)) = Flat(f, s) \o f[m]
    BY <1>5, FlatRule
<1>8. <<>> \in P
    BY <1>2, <1>3, <1>7
<1>9. ASSUME NEW s \in Seq(M), NEW m \in M, s \in P PROVE Append(s, m) \in P
  <2>1. Append(s, m) \in Seq(M)
    OBVIOUS
  <2>2. Carried(Flat(f, s)) = Payloads(s)
    BY <1>9
  <2>3. Carried(Flat(f, s) \o f[m]) = Carried(Flat(f, s)) \o Carried(f[m])
    BY <1>4, <1>5, <1>7, <1>2
  <2> QED
    BY <1>4, <1>5, <1>7, <1>3, <2>1, <2>2, <2>3
<1>10. messages \in P
  <2> HIDE DEF P
  <2> QED
    BY <1>8, <1>9, ListInduction
<1> QED
    BY <1>6, <1>7, <1>10 DEF Z
-----------------------------------------------------------------------------
(* The budget of a bundle                                                  *)

HeadBytes(head) == SumFunction([i \in DOMAIN head |-> JsonSize(head[i])])
PackedBytes(packed) == SumFunction([i \in DOMAIN packed |-> EntryBytes(packed[i])])

\* A bundle within the budget, but for empty sections at its end, or a message nobody
\* can split.
Fits(bundle, budget) ==
    \E n \in 0..Len(bundle) :
        /\ \A i \in n + 1..Len(bundle) : bundle[i].messages = <<>>
        /\ \/ SumFunction([i \in 1..n |-> EntryBytes(bundle[i])]) <= Usable(budget)
           \/ n = 1 /\ Len(bundle[1].messages) = 1 /\ Len(bundle[1].messages[1].items) = 1

\* The entries that sections called N are packed into.
Entries(M, X, N, F) ==
    [name : N, complete : BOOLEAN, failed : F, messages : Seq(WithCuts(M, X))]

\* The bytes of messages and of entries, one by one.
LEMMA HeadBytesRule ==
    ASSUME NEW M, NEW X, Sendable(M, X)
    PROVE  /\ HeadBytes(<<>>) = 0
           /\ \A s \in Seq(WithCuts(M, X)) : HeadBytes(s) \in Nat
           /\ \A s \in Seq(WithCuts(M, X)), m \in WithCuts(M, X) :
                 HeadBytes(Append(s, m)) = HeadBytes(s) + JsonSize(m)
<1> DEFINE C == WithCuts(M, X)
           f == [m \in C |-> JsonSize(m)]
<1>1. f \in [C -> Nat] /\ \A m \in C : f[m] = JsonSize(m)
    BY CutsAre
<1> HIDE DEF C
<1>2. ASSUME NEW s \in Seq(C) PROVE HeadBytes(s) = Total(f, s)
  <2>1. [i \in DOMAIN s |-> JsonSize(s[i])] = [i \in DOMAIN s |-> f[s[i]]]
    OBVIOUS
  <2> QED
    BY <2>1 DEF HeadBytes, Total
<1> HIDE DEF f
<1>3. <<>> \in Seq(C) /\ \A s \in Seq(C), m \in C : Append(s, m) \in Seq(C)
    OBVIOUS
<1>4. /\ Total(f, <<>>) = 0
      /\ \A s \in Seq(C) : Total(f, s) \in Nat
      /\ \A s \in Seq(C), m \in C : Total(f, Append(s, m)) = Total(f, s) + f[m]
    BY <1>1, TotalRule
<1>5. HeadBytes(<<>>) = 0
    BY <1>2, <1>3, <1>4
<1>6. \A s \in Seq(C) : HeadBytes(s) \in Nat
    BY <1>2, <1>4
<1>7. \A s \in Seq(C), m \in C : HeadBytes(Append(s, m)) = HeadBytes(s) + JsonSize(m)
    BY <1>1, <1>2, <1>3, <1>4
<1> QED
    BY <1>5, <1>6, <1>7 DEF C

LEMMA PackedBytesRule ==
    ASSUME NEW M, NEW X, Sendable(M, X), NEW N, NEW F
    PROVE  /\ PackedBytes(<<>>) = 0
           /\ \A s \in Seq(Entries(M, X, N, F)) : PackedBytes(s) \in Nat
           /\ \A s \in Seq(Entries(M, X, N, F)), e \in Entries(M, X, N, F) :
                 PackedBytes(Append(s, e)) = PackedBytes(s) + SECTION_OVERHEAD + HeadBytes(e.messages)
<1> DEFINE C == Entries(M, X, N, F)
           f == [e \in C |-> EntryBytes(e)]
<1>1. \A e \in C : EntryBytes(e) = SECTION_OVERHEAD + HeadBytes(e.messages) /\ HeadBytes(e.messages) \in Nat
    BY HeadBytesRule DEF EntryBytes, HeadBytes, Entries
<1> HIDE DEF C
<1>2. f \in [C -> Nat] /\ \A e \in C : f[e] = EntryBytes(e)
    BY <1>1, OutboxAssumption
<1>3. ASSUME NEW s \in Seq(C) PROVE PackedBytes(s) = Total(f, s)
  <2>1. [i \in DOMAIN s |-> EntryBytes(s[i])] = [i \in DOMAIN s |-> f[s[i]]]
    OBVIOUS
  <2> QED
    BY <2>1 DEF PackedBytes, Total
<1> HIDE DEF f
<1>4. <<>> \in Seq(C) /\ \A s \in Seq(C), e \in C : Append(s, e) \in Seq(C)
    OBVIOUS
<1>5. /\ Total(f, <<>>) = 0
      /\ \A s \in Seq(C) : Total(f, s) \in Nat
      /\ \A s \in Seq(C), e \in C : Total(f, Append(s, e)) = Total(f, s) + f[e]
    BY <1>2, TotalRule
<1>6. PackedBytes(<<>>) = 0
    BY <1>3, <1>4, <1>5
<1>7. \A s \in Seq(C) : PackedBytes(s) \in Nat
    BY <1>3, <1>5
<1>8. ASSUME NEW s \in Seq(C), NEW e \in C
      PROVE  PackedBytes(Append(s, e)) = PackedBytes(s) + SECTION_OVERHEAD + HeadBytes(e.messages)
  <2>1. PackedBytes(Append(s, e)) = PackedBytes(s) + EntryBytes(e)
    BY <1>2, <1>3, <1>4, <1>5
  <2>2. PackedBytes(s) \in Nat /\ SECTION_OVERHEAD \in Nat
    BY <1>7, OutboxAssumption
  <2> QED
    BY <1>1, <2>1, <2>2
<1> QED
    BY <1>6, <1>7, <1>8 DEF C

\* What is left for the sections of a bundle, and for the messages of one.
LEMMA UsableIs ==
    ASSUME NEW budget \in Nat
    PROVE  /\ Usable(budget) \in Nat /\ Room(budget) \in Nat
           /\ Room(budget) + SECTION_OVERHEAD = Usable(budget)
    BY OutboxAssumption DEF Usable, Room

\* What fits: nothing, what is within the budget, a message nobody can split, and all
\* of these with an empty section.
LEMMA FitsRule ==
    ASSUME NEW M, NEW X, Sendable(M, X), NEW N, NEW F, NEW budget \in Nat
    PROVE  /\ \A b \in Seq(Entries(M, X, N, F)) : PackedBytes(b) <= Usable(budget) => Fits(b, budget)
           /\ \A e \in Entries(M, X, N, F) :
                 Len(e.messages) = 1 /\ Len(e.messages[1].items) = 1 => Fits(<<e>>, budget)
           /\ \A b \in Seq(Entries(M, X, N, F)), e \in Entries(M, X, N, F) :
                 Fits(b, budget) /\ e.messages = <<>> => Fits(Append(b, e), budget)
<1> DEFINE C == Entries(M, X, N, F)
<1>1. ASSUME NEW b \in Seq(C), PackedBytes(b) <= Usable(budget) PROVE Fits(b, budget)
  <2>1. DOMAIN b = 1..Len(b) /\ Len(b) \in Nat
    OBVIOUS
  <2>2. SumFunction([i \in 1..Len(b) |-> EntryBytes(b[i])]) <= Usable(budget)
    BY <1>1, <2>1 DEF PackedBytes
  <2>3. Len(b) \in 0..Len(b) /\ Len(b) + 1..Len(b) = {}
    BY <2>1
  <2> QED
    BY <2>2, <2>3 DEF Fits
<1>2. ASSUME NEW e \in C, Len(e.messages) = 1, Len(e.messages[1].items) = 1
      PROVE  Fits(<<e>>, budget)
  <2>1. Len(<<e>>) = 1 /\ <<e>>[1] = e /\ 1 \in 0..1 /\ 1 + 1..1 = {}
    OBVIOUS
  <2> HIDE DEF C
  <2> QED
    BY <1>2, <2>1 DEF Fits
<1>3. ASSUME NEW b \in Seq(C), NEW e \in C, Fits(b, budget), e.messages = <<>>
      PROVE  Fits(Append(b, e), budget)
  <2> DEFINE r == Append(b, e)
  <2>1. PICK n \in 0..Len(b) :
           /\ \A i \in n + 1..Len(b) : b[i].messages = <<>>
           /\ \/ SumFunction([i \in 1..n |-> EntryBytes(b[i])]) <= Usable(budget)
              \/ n = 1 /\ Len(b[1].messages) = 1 /\ Len(b[1].messages[1].items) = 1
    BY <1>3 DEF Fits
  <2>2. /\ Len(r) = Len(b) + 1 /\ Len(b) \in Nat
        /\ r[Len(b) + 1] = e /\ \A i \in 1..Len(b) : r[i] = b[i]
    OBVIOUS
  <2> HIDE DEF r, C
  <2>3. n \in 0..Len(r)
    BY <2>2
  <2>4. ASSUME NEW i \in n + 1..Len(r) PROVE r[i].messages = <<>>
    <3>1. i \in n + 1..Len(b) \/ i = Len(b) + 1
        BY <2>2
    <3>2. i \in n + 1..Len(b) => i \in 1..Len(b)
        BY <2>2
    <3> QED
        BY <1>3, <2>1, <2>2, <3>1, <3>2
  <2>5. [i \in 1..n |-> EntryBytes(r[i])] = [i \in 1..n |-> EntryBytes(b[i])]
    <3>1. \A i \in 1..n : r[i] = b[i]
        BY <2>2
    <3> QED
        BY <3>1
  <2>6. n = 1 => r[1] = b[1]
    BY <2>2
  <2> QED
    BY <2>1, <2>3, <2>4, <2>5, <2>6 DEF Fits, r
<1> QED
    BY <1>1, <1>2, <1>3

\* What packing comes by: bundles that fit, and sections and messages for the next one
\* that would fit as well.
Packing(M, X, N, F, budget) ==
    {acc \in [bundles : Seq({b \in Seq(Entries(M, X, N, F)) : Fits(b, budget)}),
              packed : {b \in Seq(Entries(M, X, N, F)) : Fits(b, budget)}, used : Nat,
              head : Seq(WithCuts(M, X)), head_size : Nat] :
        /\ PackedBytes(acc.packed) <= acc.used
        /\ acc.packed = <<>> => acc.used = 0
        /\ acc.head = <<>> => acc.head_size = 0
        /\ HeadBytes(acc.head) <= acc.head_size
        /\ acc.head # <<>> =>
              \/ acc.used + SECTION_OVERHEAD + acc.head_size <= Usable(budget)
              \/ acc.packed = <<>> /\ Len(acc.head) = 1 /\ Len(acc.head[1].items) = 1}

\* Nothing is at hand.
AtRest(acc) == acc.head = <<>> /\ acc.head_size = 0

\* Nothing packed is packing.
LEMMA NothingPacks ==
    ASSUME NEW M, NEW X, Sendable(M, X), NEW N, NEW F, NEW budget \in Nat
    PROVE  NothingPacked \in Packing(M, X, N, F, budget) /\ AtRest(NothingPacked)
<1> DEFINE C == Entries(M, X, N, F)
           B == {b \in Seq(C) : Fits(b, budget)}
<1>1. PackedBytes(<<>>) = 0
    BY PackedBytesRule
<1>2. Usable(budget) \in Nat
    BY UsableIs
<1>3. <<>> \in Seq(C)
    OBVIOUS
<1>4. PackedBytes(<<>>) <= Usable(budget)
    BY <1>1, <1>2
<1>5. Fits(<<>>, budget)
    BY <1>3, <1>4, FitsRule
<1>6. <<>> \in B
    BY <1>3, <1>5
<1>7. HeadBytes(<<>>) = 0
    BY HeadBytesRule
<1> HIDE DEF B
<1>8. <<>> \in Seq(B) /\ <<>> \in Seq(WithCuts(M, X))
    OBVIOUS
<1>9. NothingPacked \in [bundles : Seq(B), packed : B, used : Nat,
                         head : Seq(WithCuts(M, X)), head_size : Nat]
    BY <1>6, <1>8 DEF NothingPacked
<1>10. /\ NothingPacked.packed = <<>> /\ NothingPacked.used = 0
      /\ NothingPacked.head = <<>> /\ NothingPacked.head_size = 0
    BY DEF NothingPacked
<1> QED
    BY <1>1, <1>7, <1>9, <1>10 DEF Packing, AtRest, B

\* What is packed fits when the messages at hand go with it.
LEMMA WithHead ==
    ASSUME NEW M, NEW X, Sendable(M, X), NEW N, NEW F, NEW budget \in Nat,
           NEW acc \in Packing(M, X, N, F, budget),
           NEW e \in Entries(M, X, N, F), e.messages = acc.head
    PROVE  /\ Append(acc.packed, e) \in {b \in Seq(Entries(M, X, N, F)) : Fits(b, budget)}
           /\ PackedBytes(Append(acc.packed, e)) <= acc.used + SECTION_OVERHEAD + acc.head_size
<1> DEFINE C == Entries(M, X, N, F)
           longer == Append(acc.packed, e)
<1>1. /\ acc.packed \in Seq(C) /\ Fits(acc.packed, budget)
      /\ acc.used \in Nat /\ acc.head_size \in Nat /\ acc.head \in Seq(WithCuts(M, X))
      /\ PackedBytes(acc.packed) <= acc.used /\ HeadBytes(acc.head) <= acc.head_size
    BY DEF Packing
<1>2. longer \in Seq(C)
    BY <1>1
<1>3. PackedBytes(longer) = PackedBytes(acc.packed) + SECTION_OVERHEAD + HeadBytes(acc.head)
    BY <1>1, PackedBytesRule
<1>4. PackedBytes(acc.packed) \in Nat /\ HeadBytes(acc.head) \in Nat /\ SECTION_OVERHEAD \in Nat
    BY <1>1, PackedBytesRule, HeadBytesRule, OutboxAssumption
<1>5. PackedBytes(longer) <= acc.used + SECTION_OVERHEAD + acc.head_size
    BY <1>1, <1>3, <1>4
<1>6. Fits(longer, budget)
  <2>1. CASE acc.head = <<>>
    BY <1>1, <2>1, FitsRule
  <2>2. CASE acc.used + SECTION_OVERHEAD + acc.head_size <= Usable(budget)
    <3>1. PackedBytes(longer) \in Nat /\ Usable(budget) \in Nat
        BY <1>2, PackedBytesRule, UsableIs
    <3>2. PackedBytes(longer) <= Usable(budget)
        BY <1>1, <1>4, <1>5, <2>2, <3>1
    <3> QED
        BY <1>2, <3>2, FitsRule
  <2>3. CASE acc.packed = <<>> /\ Len(acc.head) = 1 /\ Len(acc.head[1].items) = 1
    <3>1. longer = <<e>>
        BY <2>3
    <3>2. Fits(<<e>>, budget)
        BY <2>3, FitsRule
    <3> QED
        BY <3>1, <3>2
  <2> QED
    BY <2>1, <2>2, <2>3 DEF Packing
<1> QED
    BY <1>2, <1>5, <1>6

\* A bundle that is yielded fits.
LEMMA FlushPacks ==
    ASSUME NEW M, NEW X, Sendable(M, X), NEW N, NEW F, NEW budget \in Nat,
           NEW section, section.name \in N, section.failed \in F,
           NEW acc \in Packing(M, X, N, F, budget)
    PROVE  /\ Flush(acc, section) \in Packing(M, X, N, F, budget)
           /\ AtRest(Flush(acc, section)) /\ Flush(acc, section).packed = <<>>
<1> DEFINE C == Entries(M, X, N, F)
           B == {b \in Seq(C) : Fits(b, budget)}
           e == Piece(section, FALSE, acc.head)
           bundle == IF acc.head = <<>> THEN acc.packed ELSE Append(acc.packed, e)
           next == Flush(acc, section)
<1>1. acc \in [bundles : Seq(B), packed : B, used : Nat,
               head : Seq(WithCuts(M, X)), head_size : Nat]
    BY DEF Packing
<1>2. acc.head \in Seq(WithCuts(M, X)) /\ FALSE \in BOOLEAN
    BY <1>1
<1>3. e \in C /\ e.messages = acc.head
    BY <1>2 DEF Piece, Entries
<1>4. Append(acc.packed, e) \in B
    BY <1>3, WithHead
<1>5. <<>> \in B /\ PackedBytes(<<>>) = 0 /\ HeadBytes(<<>>) = 0
  <2>1. PackedBytes(<<>>) = 0 /\ HeadBytes(<<>>) = 0
    BY PackedBytesRule, HeadBytesRule
  <2>2. Usable(budget) \in Nat
    BY UsableIs
  <2>3. <<>> \in Seq(C)
    OBVIOUS
  <2>4. PackedBytes(<<>>) <= Usable(budget)
    BY <2>1, <2>2
  <2>5. Fits(<<>>, budget)
    BY <2>3, <2>4, FitsRule
  <2> QED
    BY <2>1, <2>3, <2>5
<1> HIDE DEF B
<1>6. bundle \in B
    BY <1>1, <1>4
<1>7. next = [acc EXCEPT !.bundles = Append(@, bundle),
                         !.packed = <<>>, !.used = 0, !.head = <<>>, !.head_size = 0]
    BY DEF Flush
<1> HIDE DEF bundle, e, next
<1>8. next = [bundles |-> Append(acc.bundles, bundle), packed |-> <<>>, used |-> 0,
              head |-> <<>>, head_size |-> 0]
    BY <1>1, <1>7
<1> USE DEF next
<1> HIDE DEF bundle, next
<1>9. Append(acc.bundles, bundle) \in Seq(B) /\ <<>> \in Seq(WithCuts(M, X))
    BY <1>1, <1>6
<1>10. next \in [bundles : Seq(B), packed : B, used : Nat,
                head : Seq(WithCuts(M, X)), head_size : Nat]
    BY <1>5, <1>8, <1>9
<1>11. next.packed = <<>> /\ next.used = 0 /\ next.head = <<>> /\ next.head_size = 0
    BY <1>8
<1>12. next \in Packing(M, X, N, F, budget)
    BY <1>5, <1>10, <1>11 DEF Packing, B
<1> QED
    BY <1>11, <1>12 DEF AtRest, next

\* A message that is taken fits with what is packed.
LEMMA TakePacks ==
    ASSUME NEW M, NEW X, Sendable(M, X), NEW N, NEW F, NEW budget \in Nat,
           NEW section, section.name \in N, section.failed \in F,
           NEW acc \in Packing(M, X, N, F, budget),
           NEW z \in PiecesOfMessages(M, X, Room(budget))
    PROVE  Take(acc, z, section, Usable(budget)) \in Packing(M, X, N, F, budget)
<1> DEFINE full == (acc.packed # <<>> \/ acc.head # <<>>) /\ Overflows(acc, z, Usable(budget))
           room == IF full THEN Flush(acc, section) ELSE acc
           next == Take(acc, z, section, Usable(budget))
           B == {b \in Seq(Entries(M, X, N, F)) : Fits(b, budget)}
<1>1. room \in Packing(M, X, N, F, budget)
    BY FlushPacks
<1>2. next = [room EXCEPT !.head = Append(@, z.message), !.head_size = @ + z.size]
    BY DEF Take
<1>3. /\ z.message \in WithCuts(M, X) /\ z.size \in Nat /\ JsonSize(z.message) <= z.size
      /\ z.size <= Room(budget) \/ Len(z.message.items) = 1
      /\ JsonSize(z.message) \in Nat
    BY CutsAre DEF PiecesOfMessages
<1>4. /\ Usable(budget) \in Nat /\ Room(budget) + SECTION_OVERHEAD = Usable(budget)
      /\ Room(budget) \in Nat /\ SECTION_OVERHEAD \in Nat
    BY UsableIs, OutboxAssumption
<1>5. \/ room.packed = <<>> /\ room.head = <<>>
      \/ room.used + SECTION_OVERHEAD + room.head_size + z.size <= Usable(budget)
  <2>1. CASE full
    BY <2>1, FlushPacks DEF AtRest
  <2>2. CASE ~full
    <3>1. acc.used \in Nat /\ acc.head_size \in Nat
        BY DEF Packing
    <3> QED
        BY <1>3, <1>4, <2>2, <3>1 DEF Overflows
  <2> QED
    BY <2>1, <2>2
<1> HIDE DEF room, next
<1>6. /\ room \in [bundles : Seq(B), packed : B, used : Nat,
                   head : Seq(WithCuts(M, X)), head_size : Nat]
      /\ PackedBytes(room.packed) <= room.used
      /\ room.packed = <<>> => room.used = 0
      /\ room.head = <<>> => room.head_size = 0
      /\ HeadBytes(room.head) <= room.head_size
    BY <1>1 DEF Packing
<1> HIDE DEF B
<1> DEFINE head == Append(room.head, z.message)
           size == room.head_size + z.size
<1>7. next = [bundles |-> room.bundles, packed |-> room.packed, used |-> room.used,
              head |-> head, head_size |-> size]
    BY <1>2, <1>6
<1>8. head \in Seq(WithCuts(M, X)) /\ head # <<>> /\ size \in Nat
    BY <1>3, <1>6
<1>9. HeadBytes(head) <= size
  <2>1. HeadBytes(head) = HeadBytes(room.head) + JsonSize(z.message) /\ HeadBytes(room.head) \in Nat
    BY <1>3, <1>6, HeadBytesRule
  <2> QED
    BY <1>3, <1>6, <2>1
<1>10. \/ room.used + SECTION_OVERHEAD + size <= Usable(budget)
       \/ room.packed = <<>> /\ Len(head) = 1 /\ Len(head[1].items) = 1
  <2>1. CASE room.used + SECTION_OVERHEAD + room.head_size + z.size <= Usable(budget)
    BY <1>3, <1>4, <1>6, <2>1
  <2>2. CASE room.packed = <<>> /\ room.head = <<>>
    <3>1. room.used = 0 /\ room.head_size = 0
        BY <1>6, <2>2
    <3>2. Len(head) = 1 /\ head[1] = z.message
        BY <2>2
    <3>3. z.size <= Room(budget) => room.used + SECTION_OVERHEAD + size <= Usable(budget)
        BY <1>3, <1>4, <3>1
    <3> QED
        BY <1>3, <2>2, <3>2, <3>3
  <2> QED
    BY <1>5, <2>1, <2>2
<1> HIDE DEF head, size
<1>11. /\ next \in [bundles : Seq(B), packed : B, used : Nat,
                    head : Seq(WithCuts(M, X)), head_size : Nat]
       /\ next.packed = room.packed /\ next.used = room.used
       /\ next.head = head /\ next.head_size = size
    BY <1>6, <1>7, <1>8
<1>12. next \in Packing(M, X, N, F, budget)
    BY <1>6, <1>8, <1>9, <1>10, <1>11 DEF Packing, B
<1> QED
    BY <1>12 DEF next

-----------------------------------------------------------------------------
(* What is packed of a section                                             *)

\* All entries so far, those of the bundles that were yielded first.
Log(acc) == Concat(acc.bundles) \o acc.packed

\* The messages of entries, in order.
Sent(entries) == Concat([j \in DOMAIN entries |-> entries[j].messages])

\* The pieces of a section, the last one or those before it.
Parts(M, X, section, last) ==
    [name : {section.name}, complete : {last}, failed : {section.failed},
     messages : Seq(WithCuts(M, X))]

\* Bundles are read one after the other.
LEMMA BundlesRule ==
    ASSUME NEW E, NEW bundles \in Seq(Seq(E)), NEW b \in Seq(E)
    PROVE  Concat(bundles) \in Seq(E) /\ Concat(Append(bundles, b)) = Concat(bundles) \o b
<1> DEFINE D == Seq(E)
<1>1. <<>> \in D /\ \A p \in D, q \in D : p \o q \in D
    OBVIOUS
<1>2. bundles \in Seq(D) /\ b \in D
    OBVIOUS
<1> HIDE DEF D
<1>3. /\ \A s \in Seq(D) : Concat(s) \in D
      /\ \A s \in Seq(D), q \in D : Concat(Append(s, q)) = Concat(s) \o q
    BY <1>1, ConcatFolds
<1>4. Concat(bundles) \in D /\ Concat(Append(bundles, b)) = Concat(bundles) \o b
    BY <1>2, <1>3
<1> QED
    BY <1>4 DEF D

\* The payloads of entries, entry by entry.
LEMMA SentRule ==
    ASSUME NEW M, NEW X, Sendable(M, X), NEW E, \A e \in E : e.messages \in Seq(WithCuts(M, X))
    PROVE  /\ Payloads(Sent(<<>>)) = <<>>
           /\ \A s \in Seq(E) : Payloads(Sent(s)) \in Seq(X)
           /\ \A s \in Seq(E), e \in E :
                 Payloads(Sent(Append(s, e))) = Payloads(Sent(s)) \o Payloads(e.messages)
           /\ \A s \in Seq(E), t \in Seq(E) :
                 Payloads(Sent(s \o t)) = Payloads(Sent(s)) \o Payloads(Sent(t))
<1> DEFINE C == WithCuts(M, X)
           f == [e \in E |-> e.messages]
<1>1. f \in [E -> Seq(C)]
    OBVIOUS
<1>2. ASSUME NEW s \in Seq(E) PROVE Sent(s) = Flat(f, s)
  <2>1. [j \in DOMAIN s |-> s[j].messages] = [j \in DOMAIN s |-> f[s[j]]]
    OBVIOUS
  <2> QED
    BY <2>1 DEF Sent, Flat
<1>3. \A m \in C : m.items \in Seq(X)
    BY CutsAre
<1>4. /\ <<>> \in Seq(E) /\ \A s \in Seq(E), e \in E : Append(s, e) \in Seq(E)
      /\ \A s \in Seq(E), t \in Seq(E) : s \o t \in Seq(E)
      /\ \A e \in E : f[e] = e.messages /\ f[e] \in Seq(C)
    OBVIOUS
<1> HIDE DEF f, C
<1>5. /\ Flat(f, <<>>) = <<>>
      /\ \A s \in Seq(E) : Flat(f, s) \in Seq(C)
      /\ \A s \in Seq(E), e \in E : Flat(f, Append(s, e)) = Flat(f, s) \o f[e]
    BY <1>1, FlatRule
<1>6. ASSUME NEW s \in Seq(E), NEW t \in Seq(E)
      PROVE  Flat(f, s \o t) = Flat(f, s) \o Flat(f, t)
    BY ONLY <1>1, FlatJoin
<1>7. /\ Payloads(<<>>) = <<>>
      /\ \A s \in Seq(C) : Payloads(s) \in Seq(X)
      /\ \A s \in Seq(C), t \in Seq(C) : Payloads(s \o t) = Payloads(s) \o Payloads(t)
    BY <1>3, PayloadsRule
<1>8. Payloads(Sent(<<>>)) = <<>>
    BY <1>2, <1>4, <1>5, <1>7
<1>9. \A s \in Seq(E) : Payloads(Sent(s)) \in Seq(X)
    BY <1>2, <1>5, <1>7
<1>10. ASSUME NEW s \in Seq(E), NEW e \in E
       PROVE  Payloads(Sent(Append(s, e))) = Payloads(Sent(s)) \o Payloads(e.messages)
  <2>1. Append(s, e) \in Seq(E) /\ f[e] = e.messages /\ f[e] \in Seq(C)
    BY <1>4
  <2>2. Sent(Append(s, e)) = Flat(f, s) \o f[e] /\ Sent(s) = Flat(f, s) /\ Flat(f, s) \in Seq(C)
    BY <1>2, <1>5, <2>1
  <2> QED
    BY <1>7, <2>1, <2>2
<1>11. ASSUME NEW s \in Seq(E), NEW t \in Seq(E)
       PROVE  Payloads(Sent(s \o t)) = Payloads(Sent(s)) \o Payloads(Sent(t))
  <2>1. s \o t \in Seq(E)
    BY <1>4
  <2>2. /\ Sent(s \o t) = Flat(f, s) \o Flat(f, t) /\ Sent(s) = Flat(f, s) /\ Sent(t) = Flat(f, t)
        /\ Flat(f, s) \in Seq(C) /\ Flat(f, t) \in Seq(C)
    BY <1>2, <1>5, <1>6, <2>1
  <2> QED
    BY <1>7, <2>2
<1> QED
    BY <1>8, <1>9, <1>10, <1>11

\* From acc to next, entries of E were added, and with what is at hand they carry the
\* payloads that were at hand before, and items.
Brings(acc, next, E, items) ==
    \E Q \in Seq(E) :
        /\ Log(next) = Log(acc) \o Q
        /\ Payloads(Sent(Q)) \o Payloads(next.head) = Payloads(acc.head) \o items

\* What packing has.
LEMMA PackingHas ==
    ASSUME NEW M, NEW X, Sendable(M, X), NEW N, NEW F, NEW budget,
           NEW acc \in Packing(M, X, N, F, budget)
    PROVE  /\ acc.bundles \in Seq({b \in Seq(Entries(M, X, N, F)) : Fits(b, budget)})
           /\ acc.bundles \in Seq(Seq(Entries(M, X, N, F)))
           /\ acc.packed \in Seq(Entries(M, X, N, F)) /\ Fits(acc.packed, budget)
           /\ Concat(acc.bundles) \in Seq(Entries(M, X, N, F))
           /\ Log(acc) \in Seq(Entries(M, X, N, F))
           /\ acc.head \in Seq(WithCuts(M, X))
           /\ Payloads(acc.head) \in Seq(X)
           /\ acc.used \in Nat /\ acc.head_size \in Nat
<1> DEFINE E == Entries(M, X, N, F)
           B == {b \in Seq(E) : Fits(b, budget)}
<1>1. /\ acc.bundles \in Seq(B) /\ acc.packed \in B
      /\ acc.head \in Seq(WithCuts(M, X)) /\ acc.used \in Nat /\ acc.head_size \in Nat
    BY DEF Packing
<1>2. \A b \in B : b \in Seq(E)
    OBVIOUS
<1>3. acc.bundles \in Seq(Seq(E))
    BY <1>1, <1>2
<1>4. acc.packed \in Seq(E) /\ Fits(acc.packed, budget)
    BY <1>1
<1>5. Concat(acc.bundles) \in Seq(E)
    BY <1>3, <1>4, BundlesRule
<1>6. Log(acc) \in Seq(E)
    BY <1>4, <1>5 DEF Log
<1>7. \A m \in WithCuts(M, X) : m.items \in Seq(X)
    BY CutsAre
<1>8. Payloads(acc.head) \in Seq(X)
    BY <1>1, <1>7, PayloadsRule
<1> QED
    BY <1>1, <1>3, <1>4, <1>5, <1>6, <1>8

\* The bundle that is yielded has the messages at hand.
LEMMA FlushBrings ==
    ASSUME NEW M, NEW X, Sendable(M, X), NEW N, NEW F, NEW budget \in Nat,
           NEW section, section.name \in N, section.failed \in F,
           NEW acc \in Packing(M, X, N, F, budget)
    PROVE  Brings(acc, Flush(acc, section), Parts(M, X, section, FALSE), <<>>)
<1> DEFINE E == Entries(M, X, N, F)
           C == WithCuts(M, X)
           K == Parts(M, X, section, FALSE)
           e == Piece(section, FALSE, acc.head)
           Q == IF acc.head = <<>> THEN <<>> ELSE <<e>>
           bundle == IF acc.head = <<>> THEN acc.packed ELSE Append(acc.packed, e)
           next == Flush(acc, section)
<1>1. /\ acc.bundles \in Seq(Seq(E)) /\ acc.packed \in Seq(E)
      /\ Concat(acc.bundles) \in Seq(E) /\ acc.head \in Seq(C) /\ Payloads(acc.head) \in Seq(X)
    BY PackingHas
<1>2. e \in K /\ e \in E /\ e.messages = acc.head
    BY <1>1 DEF Piece, Parts, Entries
<1>3. \A k \in K : k.messages \in Seq(C)
    BY DEF Parts
<1>4. next.bundles = Append(acc.bundles, bundle) /\ next.packed = <<>> /\ next.head = <<>>
  <2>1. next = [acc EXCEPT !.bundles = Append(@, bundle),
                           !.packed = <<>>, !.used = 0, !.head = <<>>, !.head_size = 0]
    BY DEF Flush
  <2>2. acc = [bundles |-> acc.bundles, packed |-> acc.packed, used |-> acc.used,
               head |-> acc.head, head_size |-> acc.head_size]
    BY DEF Packing
  <2> HIDE DEF next, bundle
  <2> QED
    BY <2>1, <2>2
<1>5. /\ Payloads(Sent(<<>>)) = <<>>
      /\ \A s \in Seq(K), k \in K :
            Payloads(Sent(Append(s, k))) = Payloads(Sent(s)) \o Payloads(k.messages)
  <2> HIDE DEF K, C
  <2> QED
    BY <1>3, SentRule DEF C
<1>6. Payloads(<<>>) = <<>>
  <2>1. \A m \in C : m.items \in Seq(X)
    BY CutsAre
  <2> QED
    BY <2>1, PayloadsRule
<1> HIDE DEF e, K, E, C, next
<1>7. Q \in Seq(K) /\ Q \in Seq(E) /\ bundle = acc.packed \o Q /\ bundle \in Seq(E)
  <2> DEFINE packed == acc.packed
  <2>1. packed \in Seq(E)
    BY <1>1
  <2> HIDE DEF packed
  <2>2. /\ <<e>> \in Seq(K) /\ <<e>> \in Seq(E) /\ <<>> \in Seq(K) /\ <<>> \in Seq(E)
        /\ Append(packed, e) \in Seq(E)
    BY <1>2, <2>1
  <2>3. packed \o <<>> = packed /\ packed \o <<e>> = Append(packed, e)
    BY <1>2, <2>1
  <2> QED
    BY <2>1, <2>2, <2>3 DEF packed
<1>8. Payloads(Sent(Q)) = Payloads(acc.head)
  <2>1. CASE acc.head = <<>>
    BY <1>5, <1>6, <2>1
  <2>2. CASE acc.head # <<>>
    <3>1. Q = Append(<<>>, e) /\ <<>> \in Seq(K)
        BY <2>2
    <3>2. Payloads(Sent(Append(<<>>, e))) = Payloads(Sent(<<>>)) \o Payloads(e.messages)
        BY <1>2, <1>5, <3>1
    <3>3. Payloads(Sent(Q)) = <<>> \o Payloads(acc.head)
        BY <1>2, <1>5, <3>1, <3>2
    <3> HIDE DEF Q
    <3> QED
        BY <1>1, <3>3
  <2> QED
    BY <2>1, <2>2
<1> HIDE DEF Q, bundle
<1>9. Log(next) = Log(acc) \o Q
  <2>1. Concat(next.bundles) = Concat(acc.bundles) \o bundle
    BY <1>1, <1>4, <1>7, BundlesRule
  <2>2. Log(next) = Concat(acc.bundles) \o bundle
    <3>1. Concat(acc.bundles) \o bundle \in Seq(E)
        BY <1>1, <1>7
    <3> QED
        BY <1>4, <2>1, <3>1 DEF Log
  <2>3. Concat(acc.bundles) \o (acc.packed \o Q) = (Concat(acc.bundles) \o acc.packed) \o Q
    <3> DEFINE a == Concat(acc.bundles)
               p == acc.packed
    <3>1. a \in Seq(E) /\ p \in Seq(E)
        BY <1>1
    <3> HIDE DEF a, p
    <3>2. a \o (p \o Q) = (a \o p) \o Q
        BY <1>7, <3>1
    <3> QED
        BY <3>2 DEF a, p
  <2> QED
    BY <1>7, <2>2, <2>3 DEF Log
<1>10. Payloads(Sent(Q)) \o Payloads(next.head) = Payloads(acc.head) \o <<>>
    BY <1>4, <1>6, <1>8
<1> QED
    BY <1>7, <1>9, <1>10 DEF Brings, K, next

\* It does not matter which lists are joined first.
Joins(a, b, c) == (a \o b) \o c = a \o (b \o c)

LEMMA JoinsAre ==
    ASSUME NEW S, NEW a \in Seq(S), NEW b \in Seq(S), NEW c \in Seq(S)
    PROVE  Joins(a, b, c)
    BY JoinThree DEF Joins

\* What is brought and then more is brought.
LEMMA BringsMore ==
    ASSUME NEW M, NEW X, Sendable(M, X), NEW N, NEW F, NEW budget,
           NEW K, K \subseteq Entries(M, X, N, F),
           NEW a \in Packing(M, X, N, F, budget), NEW b \in Packing(M, X, N, F, budget),
           NEW c \in Packing(M, X, N, F, budget), NEW u \in Seq(X), NEW v \in Seq(X),
           Brings(a, b, K, u), Brings(b, c, K, v)
    PROVE  Brings(a, c, K, u \o v)
<1> DEFINE E == Entries(M, X, N, F)
           la == Log(a)
           lb == Log(b)
           lc == Log(c)
           ha == Payloads(a.head)
           hb == Payloads(b.head)
           hc == Payloads(c.head)
<1>1. /\ la \in Seq(E) /\ lb \in Seq(E) /\ lc \in Seq(E)
      /\ ha \in Seq(X) /\ hb \in Seq(X) /\ hc \in Seq(X)
    BY PackingHas
<1>2. PICK p \in Seq(K) : lb = la \o p /\ Payloads(Sent(p)) \o hb = ha \o u
    BY DEF Brings
<1>3. PICK q \in Seq(K) : lc = lb \o q /\ Payloads(Sent(q)) \o hc = hb \o v
    BY DEF Brings
<1> DEFINE sp == Payloads(Sent(p))
           sq == Payloads(Sent(q))
<1>4. \A k \in K : k.messages \in Seq(WithCuts(M, X))
    BY DEF Entries
<1>5. sp \in Seq(X) /\ sq \in Seq(X) /\ Payloads(Sent(p \o q)) = sp \o sq
    BY <1>4, SentRule
<1>6. p \in Seq(E) /\ q \in Seq(E) /\ p \o q \in Seq(K)
  <2> HIDE DEF E
  <2>1. K \subseteq E
    BY DEF E
  <2> QED
    BY <2>1
<1>7. lb = la \o p /\ sp \o hb = ha \o u /\ lc = lb \o q /\ sq \o hc = hb \o v
    BY <1>2, <1>3
<1>8. Log(c) = lc /\ Log(a) = la /\ Payloads(a.head) = ha /\ Payloads(c.head) = hc
    OBVIOUS
<1> HIDE DEF E, la, lb, lc, ha, hb, hc, sp, sq
<1>9. p \in Seq(E) /\ q \in Seq(E) /\ sp \in Seq(X) /\ sq \in Seq(X)
    BY <1>5, <1>6
<1>10. Joins(la, p, q)
    BY <1>1, <1>9, JoinsAre
<1>11. Joins(sp, sq, hc)
    BY <1>1, <1>9, JoinsAre
<1>12. Joins(sp, hb, v)
    BY <1>1, <1>9, JoinsAre
<1>13. Joins(ha, u, v)
    BY <1>1, JoinsAre
<1>14. (sp \o sq) \o hc = ha \o (u \o v)
    BY <1>7, <1>11, <1>12, <1>13 DEF Joins
<1>15. lc = la \o (p \o q)
    BY <1>7, <1>10 DEF Joins
<1>16. p \o q \in Seq(K) /\ Payloads(Sent(p \o q)) \o hc = ha \o (u \o v)
    BY <1>5, <1>6, <1>14
<1> QED
    BY <1>8, <1>15, <1>16 DEF Brings

\* A message that is taken is at hand, after what was.
LEMMA TakeBrings ==
    ASSUME NEW M, NEW X, Sendable(M, X), NEW N, NEW F, NEW budget \in Nat,
           NEW section, section.name \in N, section.failed \in F,
           NEW acc \in Packing(M, X, N, F, budget),
           NEW z \in PiecesOfMessages(M, X, Room(budget))
    PROVE  Brings(acc, Take(acc, z, section, Usable(budget)), Parts(M, X, section, FALSE),
                  z.message.items)
<1> DEFINE full == (acc.packed # <<>> \/ acc.head # <<>>) /\ Overflows(acc, z, Usable(budget))
           room == IF full THEN Flush(acc, section) ELSE acc
           next == Take(acc, z, section, Usable(budget))
           K == Parts(M, X, section, FALSE)
           items == z.message.items
           J == Packing(M, X, N, F, budget)
<1>1. room \in J /\ next \in J
    BY FlushPacks, TakePacks
<1>2. K \subseteq Entries(M, X, N, F)
    BY DEF Parts, Entries
<1>3. <<>> \in Seq(X) /\ items \in Seq(X) /\ z.message \in WithCuts(M, X)
    BY CutsAre DEF PiecesOfMessages
<1>4. \A s \in Seq(X) : s \o <<>> = s /\ <<>> \o s = s
    OBVIOUS
<1>5. /\ Payloads(<<>>) = <<>>
      /\ \A s \in Seq(WithCuts(M, X)), m \in WithCuts(M, X) :
            Payloads(Append(s, m)) = Payloads(s) \o m.items
  <2>1. \A m \in WithCuts(M, X) : m.items \in Seq(X)
    BY CutsAre
  <2> QED
    BY <2>1, PayloadsRule
<1>6. Payloads(Sent(<<>>)) = <<>> /\ <<>> \in Seq(K)
  <2>1. \A k \in K : k.messages \in Seq(WithCuts(M, X))
    BY DEF Parts
  <2>2. Payloads(Sent(<<>>)) = <<>>
    BY <2>1, SentRule
  <2> QED
    BY <2>2
<1>7. \A a \in J : /\ Log(a) \in Seq(Entries(M, X, N, F)) /\ Payloads(a.head) \in Seq(X)
                   /\ a.head \in Seq(WithCuts(M, X))
    BY PackingHas
<1>8. Brings(acc, room, K, <<>>)
  <2>1. CASE full
    BY <2>1, FlushBrings
  <2>2. CASE ~full
    <3>1. Log(acc) = Log(acc) \o <<>>
      <4> DEFINE l == Log(acc)
      <4>1. l \in Seq(Entries(M, X, N, F))
        BY <1>7
      <4> HIDE DEF l
      <4>2. l = l \o <<>>
        BY <4>1
      <4> QED
        BY <4>2 DEF l
    <3>2. Payloads(Sent(<<>>)) \o Payloads(acc.head) = Payloads(acc.head) \o <<>>
        BY <1>4, <1>6, <1>7
    <3>3. room = acc
        BY <2>2
    <3> QED
        BY <1>6, <3>1, <3>2, <3>3 DEF Brings
  <2> QED
    BY <2>1, <2>2
<1>9. next.bundles = room.bundles /\ next.packed = room.packed
      /\ next.head = Append(room.head, z.message)
  <2>1. next = [room EXCEPT !.head = Append(@, z.message), !.head_size = @ + z.size]
    BY DEF Take
  <2> HIDE DEF room, next
  <2>2. room = [bundles |-> room.bundles, packed |-> room.packed, used |-> room.used,
                head |-> room.head, head_size |-> room.head_size]
    BY <1>1 DEF Packing
  <2> QED
    BY <2>1, <2>2
<1>10. Brings(room, next, K, items)
  <2> HIDE DEF room, next, K, J, items
  <2>1. Log(next) = Log(room) \o <<>>
      <3> DEFINE l == Log(room)
      <3>1. l \in Seq(Entries(M, X, N, F)) /\ Log(next) = l
        BY <1>1, <1>7, <1>9 DEF Log
      <3> HIDE DEF l
      <3>2. l = l \o <<>>
        BY <3>1
      <3> QED
        BY <3>1, <3>2 DEF l
  <2>2. Payloads(next.head) = Payloads(room.head) \o items
    BY <1>1, <1>3, <1>5, <1>7, <1>9 DEF items
  <2>3. Payloads(next.head) \in Seq(X)
    BY <1>1, <1>7
  <2>4. Payloads(Sent(<<>>)) \o Payloads(next.head) = Payloads(room.head) \o items
    BY <1>4, <1>6, <2>2, <2>3
  <2> QED
    BY <1>6, <2>1, <2>4 DEF Brings
<1>11. <<>> \o items = items
    BY <1>3, <1>4
<1> HIDE DEF room, next, K, items, full
<1>12. Brings(acc, next, K, <<>> \o items)
    BY <1>1, <1>2, <1>3, <1>8, <1>10, BringsMore
<1> QED
    BY <1>11, <1>12 DEF next, K, items

\* All messages of a section are taken, and what of them is not at hand is packed.
LEMMA TakenBrings ==
    ASSUME NEW M, NEW X, Sendable(M, X), NEW N, NEW F, NEW budget \in Nat,
           NEW section, section.name \in N, section.failed \in F,
           NEW start \in Packing(M, X, N, F, budget),
           NEW zs \in Seq(PiecesOfMessages(M, X, Room(budget)))
    PROVE  /\ Taken(start, section, budget, zs) \in Packing(M, X, N, F, budget)
           /\ Brings(start, Taken(start, section, budget, zs), Parts(M, X, section, FALSE),
                     Carried(zs))
<1> DEFINE J == Packing(M, X, N, F, budget)
           Z == PiecesOfMessages(M, X, Room(budget))
           K == Parts(M, X, section, FALSE)
           taken(s) == Taken(start, section, budget, s)
           P == {s \in Seq(Z) : Brings(start, taken(s), K, Carried(s))}
<1>1. ClosedByTake(J, Z, section, budget, start)
    BY TakePacks DEF ClosedByTake
<1>2. K \subseteq Entries(M, X, N, F)
    BY DEF Parts, Entries
<1>3. \A z \in Z : z.message.items \in Seq(X)
    BY CutsAre DEF PiecesOfMessages
<1>4. ASSUME NEW a \in J, NEW z \in Z
      PROVE  Brings(a, Take(a, z, section, Usable(budget)), K, z.message.items)
    BY TakeBrings
<1>5. \A a \in J : Log(a) \in Seq(Entries(M, X, N, F)) /\ Payloads(a.head) \in Seq(X)
    BY PackingHas
<1>6. Payloads(Sent(<<>>)) = <<>> /\ <<>> \in Seq(K)
  <2>1. \A k \in K : k.messages \in Seq(WithCuts(M, X))
    BY DEF Parts
  <2>2. Payloads(Sent(<<>>)) = <<>>
    BY <2>1, SentRule
  <2> QED
    BY <2>2
<1>7. <<>> \in Seq(Z)
    OBVIOUS
<1> HIDE DEF Z, K
<1>8. /\ taken(<<>>) = start
      /\ \A s \in Seq(Z) : taken(s) \in J
      /\ \A s \in Seq(Z), z \in Z :
            taken(Append(s, z)) = Take(taken(s), z, section, Usable(budget))
    BY <1>1, TakenFolds
<1>9. /\ Carried(<<>>) = <<>>
      /\ \A s \in Seq(Z) : Carried(s) \in Seq(X)
      /\ \A s \in Seq(Z), z \in Z : Carried(Append(s, z)) = Carried(s) \o z.message.items
    BY <1>3, CarriedRule
<1> HIDE DEF taken
<1>10. <<>> \in P
  <2> DEFINE l == Log(start)
             h == Payloads(start.head)
  <2>1. l \in Seq(Entries(M, X, N, F)) /\ h \in Seq(X)
    BY <1>5
  <2> HIDE DEF l, h
  <2>2. l = l \o <<>> /\ <<>> \o h = h \o <<>>
    BY <2>1
  <2>3. Brings(start, start, K, <<>>)
    BY <1>6, <2>2 DEF Brings, l, h
  <2> QED
    BY <1>8, <1>9, <1>7, <2>3
<1>11. ASSUME NEW s \in Seq(Z), NEW z \in Z, s \in P PROVE Append(s, z) \in P
  <2> DEFINE a == taken(s)
             b == Take(a, z, section, Usable(budget))
             items == z.message.items
  <2>1. Append(s, z) \in Seq(Z)
    OBVIOUS
  <2>2. a \in J /\ taken(Append(s, z)) = b /\ b \in J
    BY <1>8, <2>1
  <2>3. Brings(start, a, K, Carried(s))
    BY <1>11
  <2>4. Brings(a, b, K, items)
    BY <1>4, <2>2
  <2>5. Carried(s) \in Seq(X) /\ items \in Seq(X)
    BY <1>3, <1>9
  <2> HIDE DEF a, b, items
  <2>6. Brings(start, b, K, Carried(s) \o items)
    BY <1>2, <2>2, <2>3, <2>4, <2>5, BringsMore
  <2> QED
    BY <1>9, <2>1, <2>2, <2>6 DEF items
<1> HIDE DEF P
<1>12. \A s \in Seq(Z) : s \in P
    BY <1>10, <1>11, ListInduction
<1> QED
    BY <1>8, <1>12 DEF P, taken, K, Z

\* What a section is packed into: entries of its name, of which the last and no other
\* says that it is complete, with all its payloads.
Blocks(M, X, section) ==
    {b \in Seq(Entries(M, X, {section.name}, {section.failed})) :
        /\ b # <<>>
        /\ \A j \in DOMAIN b : b[j].complete <=> j = Len(b)
        /\ Payloads(Sent(b)) = Payloads(section.messages)}

\* Pieces, and a last one, are a block when they have the payloads of the section.
LEMMA PartsAreBlock ==
    ASSUME NEW M, NEW X, Sendable(M, X), NEW section,
           NEW P \in Seq(Parts(M, X, section, FALSE)), NEW last \in Parts(M, X, section, TRUE),
           Payloads(Sent(P)) \o Payloads(last.messages) = Payloads(section.messages)
    PROVE  Append(P, last) \in Blocks(M, X, section)
<1> DEFINE E == Entries(M, X, {section.name}, {section.failed})
           K == Parts(M, X, section, FALSE)
           b == Append(P, last)
<1>1. /\ last \in E /\ last.complete = TRUE
      /\ \A k \in K : k \in E /\ k.complete = FALSE
      /\ \A e \in E : e.messages \in Seq(WithCuts(M, X))
    BY DEF Parts, Entries
<1> HIDE DEF E, K
<1>2. P \in Seq(K)
    BY DEF K
<1>3. \A j \in DOMAIN P : P[j] \in E /\ P[j].complete = FALSE
    BY <1>1, <1>2
<1>4. P \in Seq(E)
    BY <1>2, <1>3
<1>5. /\ b \in Seq(E) /\ b # <<>> /\ Len(b) = Len(P) + 1 /\ DOMAIN b = 1..(Len(P) + 1)
      /\ b[Len(P) + 1] = last /\ \A i \in 1..Len(P) : b[i] = P[i]
      /\ DOMAIN P = 1..Len(P) /\ Len(P) \in Nat
    BY <1>1, <1>4
<1> HIDE DEF b
<1>6. ASSUME NEW j \in DOMAIN b PROVE b[j].complete <=> j = Len(b)
  <2>1. CASE j = Len(P) + 1
    BY <1>1, <1>5, <2>1
  <2>2. CASE j # Len(P) + 1
    <3>1. j \in 1..Len(P) /\ j # Len(b)
        BY <1>5, <2>2
    <3> QED
        BY <1>3, <1>5, <3>1
  <2> QED
    BY <2>1, <2>2
<1>7. Payloads(Sent(Append(P, last))) = Payloads(Sent(P)) \o Payloads(last.messages)
  <2>1. \A s \in Seq(E), e \in E :
            Payloads(Sent(Append(s, e))) = Payloads(Sent(s)) \o Payloads(e.messages)
    BY <1>1, SentRule
  <2> QED
    BY <1>1, <1>4, <2>1
<1>8. b \in Blocks(M, X, section)
    BY <1>5, <1>6, <1>7 DEF Blocks, E, b
<1> QED
    BY <1>8 DEF b

AddsBlock(M, X, section, acc, next) ==
    \E b \in Blocks(M, X, section) : Log(next) = Log(acc) \o b

\* A section is packed into one of its blocks.
LEMMA PackSectionIs ==
    ASSUME NEW M, NEW X, Sendable(M, X), NEW N, NEW F, NEW budget \in Nat,
           NEW section, section.name \in N, section.failed \in F, section.messages \in Seq(M),
           NEW acc \in Packing(M, X, N, F, budget), AtRest(acc)
    PROVE  /\ PackSection(acc, section, budget) \in Packing(M, X, N, F, budget)
           /\ AtRest(PackSection(acc, section, budget))
           /\ AddsBlock(M, X, section, acc, PackSection(acc, section, budget))
<1> DEFINE J == Packing(M, X, N, F, budget)
           E == Entries(M, X, N, F)
           B == {b \in Seq(E) : Fits(b, budget)}
           C == WithCuts(M, X)
           K == Parts(M, X, section, FALSE)
           zs == Sized(section.messages, Room(budget))
           end == TakeAll(acc, section, budget)
           last == Piece(section, TRUE, end.head)
           longer == Append(end.packed, last)
           next == PackSection(acc, section, budget)
<1>1. zs \in Seq(PiecesOfMessages(M, X, Room(budget))) /\ Carried(zs) = Payloads(section.messages)
    BY UsableIs, SizedKeeps
<1>2. end = Taken(acc, section, budget, zs)
    BY DEF TakeAll, Taken
<1>3. end \in J /\ Brings(acc, end, K, Payloads(section.messages))
    BY <1>1, <1>2, TakenBrings
<1>4. next = [end EXCEPT !.packed = Append(@, last), !.used = @ + SECTION_OVERHEAD + end.head_size,
                         !.head = <<>>, !.head_size = 0]
    BY DEF PackSection
<1> HIDE DEF end, zs
<1>5. /\ end \in [bundles : Seq(B), packed : B, used : Nat, head : Seq(C), head_size : Nat]
    BY <1>3 DEF Packing
<1>6. /\ end.packed \in Seq(E) /\ end.head \in Seq(C) /\ Concat(end.bundles) \in Seq(E)
      /\ end.used \in Nat /\ end.head_size \in Nat
    BY <1>3, PackingHas
<1>7. /\ last \in E /\ last \in Parts(M, X, section, TRUE) /\ last.messages = end.head
    BY <1>6 DEF Piece, Parts, Entries
<1> HIDE DEF last
<1>8. longer \in B /\ PackedBytes(longer) <= end.used + SECTION_OVERHEAD + end.head_size
    BY <1>3, <1>7, WithHead
<1>9. longer # <<>>
  <2> DEFINE p == end.packed
  <2>1. p \in Seq(E)
    BY <1>6
  <2> HIDE DEF p
  <2>2. Append(p, last) # <<>>
    BY <1>7, <2>1
  <2> QED
    BY <2>2 DEF p
<1> HIDE DEF longer, next, B, E
<1>10. next = [bundles |-> end.bundles, packed |-> longer,
              used |-> end.used + SECTION_OVERHEAD + end.head_size,
              head |-> <<>>, head_size |-> 0]
    BY <1>5, <1>4 DEF longer
<1>11. next \in J /\ AtRest(next)
  <2>1. <<>> \in Seq(C) /\ end.used + SECTION_OVERHEAD + end.head_size \in Nat
    BY <1>6, OutboxAssumption
  <2>2. next \in [bundles : Seq(B), packed : B, used : Nat, head : Seq(C), head_size : Nat]
    BY <1>5, <1>8, <1>10, <2>1
  <2>3. /\ next.packed = longer /\ next.used = end.used + SECTION_OVERHEAD + end.head_size
        /\ next.head = <<>> /\ next.head_size = 0
    BY <1>10
  <2>4. HeadBytes(<<>>) = 0
    BY HeadBytesRule
  <2> QED
    BY <1>8, <1>9, <2>2, <2>3, <2>4 DEF Packing, AtRest, B, E
<1>12. PICK P \in Seq(K) : /\ Log(end) = Log(acc) \o P
                           /\ Payloads(Sent(P)) \o Payloads(end.head)
                                 = Payloads(acc.head) \o Payloads(section.messages)
    BY <1>3 DEF Brings
<1> DEFINE b == Append(P, last)
<1>13. b \in Blocks(M, X, section)
  <2>1. Payloads(acc.head) = <<>> /\ Payloads(section.messages) \in Seq(X)
    <3>1. \A m \in M : m.items \in Seq(X)
        BY DEF Sendable
    <3>2. Payloads(<<>>) = <<>> /\ Payloads(section.messages) \in Seq(X)
        BY <3>1, PayloadsRule
    <3> QED
        BY <3>2 DEF AtRest
  <2>2. Payloads(acc.head) \o Payloads(section.messages) = Payloads(section.messages)
    <3> DEFINE s == Payloads(section.messages)
    <3>1. s \in Seq(X)
        BY <2>1
    <3> HIDE DEF s
    <3>2. <<>> \o s = s
        BY <3>1
    <3> QED
        BY <2>1, <3>2 DEF s
  <2>3. Payloads(Sent(P)) \o Payloads(last.messages) = Payloads(section.messages)
    BY <1>7, <1>12, <2>2
  <2> QED
    BY <1>7, <2>3, PartsAreBlock
<1>14. Log(next) = Log(acc) \o b
  <2> DEFINE c == Concat(end.bundles)
             p == end.packed
             l == Log(acc)
  <2>1. c \in Seq(E) /\ p \in Seq(E) /\ l \in Seq(E) /\ last \in E
    BY <1>6, <1>7, PackingHas DEF E
  <2>2. P \in Seq(E)
    <3>1. K \subseteq E
        BY DEF Parts, Entries, E
    <3> HIDE DEF K
    <3> QED
        BY <3>1
  <2>3. Log(next) = c \o Append(p, last) /\ c \o p = l \o P
    BY <1>10, <1>12 DEF Log, longer
  <2> HIDE DEF c, p, l
  <2>4. c \o Append(p, last) = Append(c \o p, last) /\ l \o Append(P, last) = Append(l \o P, last)
    BY <2>1, <2>2
  <2> QED
    BY <2>3, <2>4 DEF l
<1> QED
    BY <1>11, <1>13, <1>14 DEF next, AddsBlock

-----------------------------------------------------------------------------
(* All sections                                                            *)

\* The pieces of a section among the entries of two lists, of its own and of others.
LEMMA PiecesRule ==
    ASSUME NEW U, NEW name
    PROVE  /\ PiecesOf(<<>>, name) = <<>>
           /\ \A s \in Seq(U) : PiecesOf(s, name) \in Seq(U)
           /\ \A s \in Seq(U), t \in Seq(U) :
                 PiecesOf(s \o t, name) = PiecesOf(s, name) \o PiecesOf(t, name)
           /\ \A s \in Seq(U) : (\A j \in DOMAIN s : s[j].name = name) => PiecesOf(s, name) = s
           /\ \A s \in Seq(U) : (\A j \in DOMAIN s : s[j].name # name) => PiecesOf(s, name) = <<>>
<1> DEFINE G == [s \in Seq(U) |-> PiecesOf(s, name)]
           Good == {x \in U : x.name = name}
<1>1. Keeps(G, U, Good)
    BY PiecesKeep
<1>2. /\ <<>> \in Seq(U) /\ \A s \in Seq(U), t \in Seq(U) : s \o t \in Seq(U)
      /\ \A s \in Seq(U) : G[s] = PiecesOf(s, name)
      /\ \A s \in Seq(U) : \A j \in DOMAIN s : s[j] \in U
    OBVIOUS
<1>3. \A x \in U : x \in Good <=> x.name = name
    OBVIOUS
<1> HIDE DEF G, Good
<1>4. /\ \A s \in Seq(U), t \in Seq(U) : G[s \o t] = G[s] \o G[t]
      /\ \A s \in Seq(U) : Every(s, Good) => G[s] = s
      /\ \A s \in Seq(U) : NoneIn(s, Good) => G[s] = <<>>
    BY <1>1, KeptRule
<1>5. G[<<>>] = <<>> /\ \A s \in Seq(U) : G[s] \in Seq(U)
    BY <1>1 DEF Keeps
<1>6. ASSUME NEW s \in Seq(U)
      PROVE  /\ (\A j \in DOMAIN s : s[j].name = name) => Every(s, Good)
             /\ (\A j \in DOMAIN s : s[j].name # name) => NoneIn(s, Good)
    BY <1>2, <1>3 DEF Every, NoneIn
<1>7. PiecesOf(<<>>, name) = <<>> /\ \A s \in Seq(U) : PiecesOf(s, name) \in Seq(U)
    BY <1>2, <1>5
<1>8. ASSUME NEW s \in Seq(U), NEW t \in Seq(U)
      PROVE  PiecesOf(s \o t, name) = PiecesOf(s, name) \o PiecesOf(t, name)
  <2>1. s \o t \in Seq(U)
    BY <1>2
  <2>2. /\ G[s \o t] = PiecesOf(s \o t, name)
        /\ G[s] = PiecesOf(s, name) /\ G[t] = PiecesOf(t, name)
    BY <1>2, <2>1
  <2>3. G[s \o t] = G[s] \o G[t]
    BY <1>4
  <2> QED
    BY <2>2, <2>3
<1>9. ASSUME NEW s \in Seq(U)
      PROVE  /\ (\A j \in DOMAIN s : s[j].name = name) => PiecesOf(s, name) = s
             /\ (\A j \in DOMAIN s : s[j].name # name) => PiecesOf(s, name) = <<>>
    BY <1>2, <1>4, <1>6
<1> QED
    BY <1>7, <1>8, <1>9

\* Each section has a name of its own.
Distinct(t) == \A i, j \in DOMAIN t : t[i].name = t[j].name => i = j

\* The entries of sections: those of each are a block of it, and come in their order.
Carries(M, X, t, entries) ==
    /\ \A i \in DOMAIN t : PiecesOf(entries, t[i].name) \in Blocks(M, X, t[i])
    /\ \A j \in DOMAIN entries : \E i \in DOMAIN t : entries[j].name = t[i].name
    /\ \A i, j \in DOMAIN entries : \A k, l \in DOMAIN t :
          entries[i].name = t[k].name /\ entries[j].name = t[l].name /\ i < j => k <= l

\* The block of one more section comes after the others.
LEMMA CarriesMore ==
    ASSUME NEW M, NEW X, NEW N, NEW F, NEW S, NEW t \in Seq(S), NEW section \in S,
           section.name \in N, section.failed \in F, Distinct(Append(t, section)),
           NEW entries \in Seq(Entries(M, X, N, F)), Carries(M, X, t, entries),
           NEW b \in Blocks(M, X, section)
    PROVE  Carries(M, X, Append(t, section), entries \o b)
<1> DEFINE E == Entries(M, X, N, F)
           n == Len(t)
           r == Append(t, section)
           m == Len(entries)
           both == entries \o b
<1>1. b \in Seq(E) /\ \A j \in DOMAIN b : b[j].name = section.name
  <2> DEFINE K == Entries(M, X, {section.name}, {section.failed})
  <2>1. b \in Seq(K)
    BY DEF Blocks
  <2>2. \A k \in K : k \in E /\ k.name = section.name
    BY DEF Entries
  <2> HIDE DEF K, E
  <2>3. \A j \in DOMAIN b : b[j] \in K
    BY <2>1
  <2> QED
    BY <2>1, <2>2, <2>3
<1>2. /\ DOMAIN t = 1..n /\ n \in Nat /\ DOMAIN r = 1..(n + 1)
      /\ r[n + 1] = section /\ \A i \in 1..n : r[i] = t[i]
    OBVIOUS
<1> HIDE DEF E
<1>3. entries \in Seq(E)
    BY DEF E
<1>4. /\ DOMAIN entries = 1..m /\ m \in Nat /\ DOMAIN b = 1..Len(b) /\ Len(b) \in Nat
      /\ DOMAIN both = 1..(m + Len(b))
      /\ \A j \in 1..m : both[j] = entries[j]
      /\ \A j \in 1..Len(b) : both[m + j] = b[j]
    BY <1>1, <1>3
<1> HIDE DEF r, both, m, n
<1>5. \A i \in 1..n : t[i].name # section.name
  <2> SUFFICES ASSUME NEW i \in 1..n, t[i].name = section.name PROVE FALSE
    OBVIOUS
  <2>1. i \in DOMAIN r /\ n + 1 \in DOMAIN r /\ r[i].name = r[n + 1].name /\ i # n + 1
    BY <1>2
  <2> QED
    BY <2>1 DEF Distinct, r
<1>6. ASSUME NEW j \in DOMAIN both
      PROVE  \/ j \in 1..m /\ both[j].name = entries[j].name /\ both[j].name # section.name
             \/ j > m /\ both[j].name = section.name
  <2>1. CASE j <= m
    <3>1. j \in DOMAIN entries /\ both[j] = entries[j] /\ j \in 1..m
        BY <1>4, <2>1
    <3>2. PICK i \in DOMAIN t : entries[j].name = t[i].name
        BY <3>1 DEF Carries
    <3>3. entries[j].name # section.name
        BY <1>2, <1>5, <3>2
    <3> QED
        BY <3>1, <3>3
  <2>2. CASE j > m
    <3>1. j - m \in 1..Len(b) /\ m + (j - m) = j
        BY <1>4, <2>2
    <3>2. both[j] = b[j - m] /\ b[j - m].name = section.name
        BY <1>1, <1>4, <3>1
    <3> QED
        BY <2>2, <3>2
  <2>3. j \in Nat
    BY <1>4
  <2> QED
    BY <1>4, <2>1, <2>2, <2>3
<1>7. ASSUME NEW i \in DOMAIN r PROVE PiecesOf(both, r[i].name) \in Blocks(M, X, r[i])
  <2>1. PiecesOf(both, r[i].name) = PiecesOf(entries, r[i].name) \o PiecesOf(b, r[i].name)
    <3>1. \A s \in Seq(E), q \in Seq(E) :
             PiecesOf(s \o q, r[i].name) = PiecesOf(s, r[i].name) \o PiecesOf(q, r[i].name)
        BY PiecesRule
    <3> QED
        BY <1>1, <1>3, <3>1 DEF both
  <2> DEFINE p == PiecesOf(entries, r[i].name)
             q == PiecesOf(b, r[i].name)
  <2>2. p \in Seq(E) /\ q \in Seq(E)
    BY <1>1, <1>3, PiecesRule
  <2>3. CASE i \in 1..n
    <3>1. r[i] = t[i] /\ p \in Blocks(M, X, t[i])
        BY <1>2, <2>3 DEF Carries
    <3>2. \A j \in DOMAIN b : b[j].name # r[i].name
        BY <1>1, <1>5, <2>3, <3>1
    <3>3. q = <<>>
        BY <1>1, <3>2, PiecesRule
    <3> HIDE DEF p, q
    <3>4. p \o q = p
        BY <2>2, <3>3
    <3> QED
        BY <2>1, <3>1, <3>4 DEF p, q
  <2>4. CASE i = n + 1
    <3>1. r[i] = section
        BY <1>2, <2>4
    <3>2. \A j \in DOMAIN entries : entries[j].name # section.name
      <4> SUFFICES ASSUME NEW j \in DOMAIN entries PROVE entries[j].name # section.name
        OBVIOUS
      <4>1. PICK k \in DOMAIN t : entries[j].name = t[k].name
        BY DEF Carries
      <4> QED
        BY <1>2, <1>5, <4>1
    <3>3. p = <<>> /\ q = b
        BY <1>1, <1>3, <3>1, <3>2, PiecesRule
    <3> HIDE DEF p, q
    <3>4. <<>> \o b = b
        BY <1>1
    <3> QED
        BY <2>1, <3>1, <3>3, <3>4 DEF p, q
  <2> QED
    BY <1>2, <2>3, <2>4
<1>8. ASSUME NEW j \in DOMAIN both PROVE \E i \in DOMAIN r : both[j].name = r[i].name
  <2>1. CASE j \in 1..m
    <3>1. j \in DOMAIN entries /\ both[j] = entries[j]
        BY <1>4, <2>1
    <3>2. PICK i \in DOMAIN t : entries[j].name = t[i].name
        BY <3>1 DEF Carries
    <3>3. i \in DOMAIN r /\ r[i] = t[i]
        BY <1>2, <3>2
    <3> QED
        BY <3>1, <3>2, <3>3
  <2>2. CASE both[j].name = section.name
    <3>1. n + 1 \in DOMAIN r /\ r[n + 1] = section
        BY <1>2
    <3> QED
        BY <2>2, <3>1
  <2> QED
    BY <1>6, <2>1, <2>2
<1>9. ASSUME NEW i \in DOMAIN both, NEW j \in DOMAIN both, NEW k \in DOMAIN r, NEW l \in DOMAIN r,
             both[i].name = r[k].name, both[j].name = r[l].name, i < j
      PROVE  k <= l
  <2>1. i \in Nat /\ j \in Nat /\ k \in 1..(n + 1) /\ l \in 1..(n + 1) /\ n \in Nat /\ m \in Nat
    BY <1>2, <1>4
  <2>2. CASE l = n + 1
    BY <2>1, <2>2
  <2>3. CASE l # n + 1
    <3>1. l \in 1..n /\ r[l] = t[l] /\ t[l].name # section.name
        BY <1>2, <1>5, <2>1, <2>3
    <3>2. j \in 1..m /\ both[j].name = entries[j].name
        BY <1>6, <1>9, <3>1
    <3>3. i \in 1..m
        BY <1>9, <2>1, <3>2, <1>4
    <3>4. both[i].name = entries[i].name /\ both[i].name # section.name
        BY <1>6, <2>1, <3>3
    <3>5. k # n + 1
        BY <1>2, <1>9, <3>4
    <3>6. k \in 1..n /\ r[k] = t[k]
        BY <1>2, <2>1, <3>5
    <3>7. /\ i \in DOMAIN entries /\ j \in DOMAIN entries /\ k \in DOMAIN t /\ l \in DOMAIN t
          /\ entries[i].name = t[k].name /\ entries[j].name = t[l].name
        BY <1>2, <1>4, <1>9, <3>1, <3>2, <3>3, <3>4, <3>6
    <3> QED
        BY <1>9, <3>7 DEF Carries
  <2> QED
    BY <2>2, <2>3
<1> QED
    BY <1>7, <1>8, <1>9 DEF Carries, r, both

\* What was packed of some sections carries them, in bundles that fit.
PackedUp(M, X, N, F, budget, t, acc) ==
    /\ acc \in Packing(M, X, N, F, budget)
    /\ AtRest(acc)
    /\ Distinct(t) => Carries(M, X, t, Log(acc))

LEMMA PackAllCarries ==
    ASSUME NEW M, NEW X, Sendable(M, X), NEW N, NEW F, NEW budget \in Nat, NEW S,
           \A s \in S : s.name \in N /\ s.failed \in F /\ s.messages \in Seq(M),
           NEW sections \in Seq(S)
    PROVE  PackedUp(M, X, N, F, budget, sections, PackAll(sections, budget))
<1> DEFINE E == Entries(M, X, N, F)
           J == Packing(M, X, N, F, budget)
           D == {acc \in J : AtRest(acc)}
           pack(t) == PackAll(t, budget)
           P == {t \in Seq(S) : PackedUp(M, X, N, F, budget, t, pack(t))}
<1>1. ClosedByPackSection(D, S, budget)
  <2>1. NothingPacked \in D
    BY NothingPacks
  <2>2. ASSUME NEW acc \in D, NEW section \in S PROVE PackSection(acc, section, budget) \in D
    BY PackSectionIs
  <2> QED
    BY <2>1, <2>2 DEF ClosedByPackSection
<1>2. \A acc \in J : Log(acc) \in Seq(E)
    BY PackingHas
<1>3. /\ <<>> \in Seq(S) /\ \A t \in Seq(S), s \in S : Append(t, s) \in Seq(S)
      /\ \A acc \in D : acc \in J /\ AtRest(acc)
    OBVIOUS
<1>4. ASSUME NEW acc \in D, NEW section \in S
      PROVE  AddsBlock(M, X, section, acc, PackSection(acc, section, budget))
  <2>1. /\ acc \in J /\ AtRest(acc)
        /\ section.name \in N /\ section.failed \in F /\ section.messages \in Seq(M)
    OBVIOUS
  <2> HIDE DEF D
  <2> QED
    BY <2>1, PackSectionIs
<1> HIDE DEF D, E, J
<1>5. /\ pack(<<>>) = NothingPacked
      /\ \A t \in Seq(S) : pack(t) \in D
      /\ \A t \in Seq(S), s \in S : pack(Append(t, s)) = PackSection(pack(t), s, budget)
    BY <1>1, PackAllFolds
<1> HIDE DEF pack
<1>6. <<>> \in P
  <2>1. Log(NothingPacked) = <<>>
    <3>1. Concat(<<>>) = <<>>
      <4> DEFINE Empty == {<<>>}
      <4>1. <<>> \in Empty /\ \A a \in Empty, x \in Empty : a \o x \in Empty
        OBVIOUS
      <4> HIDE DEF Empty
      <4> QED
        BY <4>1, ConcatFolds
    <3> QED
        BY <3>1 DEF Log, NothingPacked
  <2>2. Carries(M, X, <<>>, <<>>)
    BY DEF Carries
  <2>3. pack(<<>>) \in D /\ pack(<<>>) = NothingPacked
    BY <1>5, <1>3
  <2> QED
    BY <1>3, <2>1, <2>2, <2>3 DEF PackedUp, J
<1>7. ASSUME NEW t \in Seq(S), NEW s \in S, t \in P PROVE Append(t, s) \in P
  <2> DEFINE acc == pack(t)
             next == pack(Append(t, s))
  <2>1. acc \in D /\ next \in D /\ next = PackSection(acc, s, budget) /\ Append(t, s) \in Seq(S)
    BY <1>5, <1>3
  <2>2. PICK b \in Blocks(M, X, s) : Log(next) = Log(acc) \o b
    BY <1>4, <2>1 DEF AddsBlock
  <2>3. ASSUME Distinct(Append(t, s)) PROVE Carries(M, X, Append(t, s), Log(next))
    <3>1. Distinct(t)
      <4> DEFINE r == Append(t, s)
      <4>1. /\ DOMAIN t \subseteq DOMAIN r /\ \A i \in DOMAIN t : r[i] = t[i]
        OBVIOUS
      <4>2. Distinct(r)
        BY <2>3
      <4> HIDE DEF r
      <4> QED
        BY <4>1, <4>2 DEF Distinct
    <3>2. Carries(M, X, t, Log(acc))
        BY <1>7, <3>1 DEF PackedUp
    <3>3. Log(acc) \in Seq(E)
        BY <1>2, <1>3, <2>1
    <3>4. Carries(M, X, Append(t, s), Log(acc) \o b)
        BY <2>3, <3>2, <3>3, CarriesMore DEF E
    <3> QED
        BY <2>2, <3>4
  <2> QED
    BY <1>3, <2>1, <2>3 DEF PackedUp, J
<1> HIDE DEF P
<1>8. \A t \in Seq(S) : t \in P
    BY <1>6, <1>7, ListInduction
<1> QED
    BY <1>8 DEF P, pack

\* What collectors leave can be sent.
LEMMA CollectedIs ==
    ASSUME NEW sections, Collected(sections)
    PROVE  LET S == ToSet(sections)
               M == UNION {ToSet(s.messages) : s \in S}
               X == UNION {ToSet(m.items) : m \in M} IN
           /\ sections \in Seq(S) /\ Distinct(sections)
           /\ Sendable(M, X)
           /\ \A s \in S : s.messages \in Seq(M)
<1> DEFINE S == ToSet(sections)
           M == UNION {ToSet(s.messages) : s \in S}
           X == UNION {ToSet(m.items) : m \in M}
<1>1. sections \in Seq(S) /\ Distinct(sections)
    BY DEF Collected, IsList, Distinct
<1>2. ASSUME NEW s \in S
      PROVE  /\ s.messages \in Seq(ToSet(s.messages))
             /\ \A m \in ToSet(s.messages) :
                   /\ m.items \in Seq(ToSet(m.items)) /\ m.items # <<>> /\ m.batch \in BOOLEAN
                   /\ ~m.batch => Len(m.items) = 1
                   /\ \A item \in ToSet(m.items) : item.size \in Nat
    BY DEF Collected, IsList
<1>3. \A A, C : A \subseteq C => \A q \in Seq(A) : q \in Seq(C)
    OBVIOUS
<1> HIDE DEF S
<1>4. ASSUME NEW s \in S PROVE s.messages \in Seq(M)
  <2>1. ToSet(s.messages) \subseteq M
    OBVIOUS
  <2> HIDE DEF M
  <2> QED
    BY <1>2, <1>3, <2>1
<1>5. ASSUME NEW m \in M
      PROVE  /\ m.items \in Seq(ToSet(m.items)) /\ m.items # <<>> /\ m.batch \in BOOLEAN
             /\ ~m.batch => Len(m.items) = 1
             /\ \A item \in ToSet(m.items) : item.size \in Nat
    BY <1>2
<1> HIDE DEF M
<1>6. ASSUME NEW m \in M PROVE m.items \in Seq(X)
  <2>1. ToSet(m.items) \subseteq X
    OBVIOUS
  <2> HIDE DEF X
  <2> QED
    BY <1>5, <1>3, <2>1
<1>7. \A x \in X : x.size \in Nat
    BY <1>5
<1> HIDE DEF X
<1>8. Sendable(M, X)
    BY <1>5, <1>6, <1>7 DEF Sendable
<1> QED
    BY <1>1, <1>4, <1>8 DEF S, M, X

\* What a subscriber is sent carries all sections, in bundles within the budget.
LEMMA BundlesCarryEverything ==
    ASSUME NEW sections, Collected(sections), NEW budget \in Nat
    PROVE  /\ CarriesEverything(sections, IterBundles(sections, budget))
           /\ WithinBudget(IterBundles(sections, budget), budget)
<1> DEFINE S == ToSet(sections)
           M == UNION {ToSet(s.messages) : s \in S}
           X == UNION {ToSet(m.items) : m \in M}
           N == {s.name : s \in S}
           F == {s.failed : s \in S}
           E == Entries(M, X, N, F)
           B == {b \in Seq(E) : Fits(b, budget)}
           end == PackAll(sections, budget)
           sent == IterBundles(sections, budget)
<1>1. /\ sections \in Seq(S) /\ Distinct(sections) /\ Sendable(M, X)
      /\ \A s \in S : s.messages \in Seq(M)
    BY CollectedIs
<1>2. \A s \in S : s.name \in N /\ s.failed \in F
    OBVIOUS
<1> HIDE DEF S, M, X, N, F
<1>3. PackedUp(M, X, N, F, budget, sections, end)
    BY <1>1, <1>2, PackAllCarries
<1>4. /\ end.bundles \in Seq(B) /\ end.packed \in B /\ end.bundles \in Seq(Seq(E))
      /\ Concat(end.bundles) \in Seq(E) /\ end.packed \in Seq(E)
    BY <1>1, <1>3, PackingHas DEF PackedUp
<1>5. Carries(M, X, sections, Log(end))
    BY <1>1, <1>3 DEF PackedUp
<1>6. sent = IF end.packed = <<>> THEN end.bundles ELSE Append(end.bundles, end.packed)
    BY DEF IterBundles
<1> HIDE DEF end, sent, E
<1>7. Concat(sent) = Log(end)
  <2>1. CASE end.packed = <<>>
    <3> DEFINE c == Concat(end.bundles)
    <3>1. c \in Seq(E)
        BY <1>4
    <3> HIDE DEF c
    <3>2. c \o <<>> = c
        BY <3>1
    <3> QED
        BY <1>6, <2>1, <3>2 DEF Log, c
  <2>2. CASE end.packed # <<>>
    BY <1>4, <1>6, <2>2, BundlesRule DEF Log
  <2> QED
    BY <2>1, <2>2
<1>8. \A j \in DOMAIN sent : Fits(sent[j], budget)
  <2> DEFINE bundles == end.bundles
             packed == end.packed
  <2>1. \A b \in B : Fits(b, budget)
    OBVIOUS
  <2> HIDE DEF B
  <2>2. bundles \in Seq(B) /\ packed \in B
    BY <1>4
  <2> HIDE DEF bundles, packed
  <2>3. Append(bundles, packed) \in Seq(B)
    BY <2>2
  <2>4. sent \in Seq(B)
    BY <1>6, <2>2, <2>3 DEF bundles, packed
  <2>5. \A j \in DOMAIN sent : sent[j] \in B
    BY <2>4
  <2> QED
    BY <2>1, <2>5
<1>9. WithinBudget(sent, budget)
    BY <1>8 DEF WithinBudget, Fits
<1>10. CarriesEverything(sections, sent)
  <2> DEFINE entries == Concat(sent)
  <2>1. Carries(M, X, sections, entries)
    BY <1>5, <1>7
  <2> HIDE DEF entries
  <2>2. ASSUME NEW i \in DOMAIN sections
        PROVE  LET pieces == PiecesOf(entries, sections[i].name) IN
               /\ pieces # <<>>
               /\ \A j \in DOMAIN pieces : pieces[j].complete <=> j = Len(pieces)
               /\ \A j \in DOMAIN pieces : pieces[j].failed = sections[i].failed
               /\ Payloads(Sent(pieces)) = Payloads(sections[i].messages)
    <3> DEFINE pieces == PiecesOf(entries, sections[i].name)
               s == sections[i]
    <3>1. pieces \in Blocks(M, X, s)
        BY <2>1 DEF Carries
    <3> HIDE DEF pieces, s
    <3>2. /\ pieces \in Seq(Entries(M, X, {s.name}, {s.failed}))
          /\ pieces # <<>>
          /\ \A j \in DOMAIN pieces : pieces[j].complete <=> j = Len(pieces)
          /\ Payloads(Sent(pieces)) = Payloads(s.messages)
        BY <3>1 DEF Blocks
    <3>3. \A j \in DOMAIN pieces : pieces[j].failed = s.failed
      <4> DEFINE K == Entries(M, X, {s.name}, {s.failed})
      <4>1. \A e \in K : e.failed = s.failed
        BY DEF Entries
      <4> HIDE DEF K
      <4>2. pieces \in Seq(K)
        BY <3>2 DEF K
      <4> QED
        BY <4>1, <4>2
    <3> QED
        BY <3>2, <3>3 DEF pieces, s
  <2>3. ASSUME NEW i \in DOMAIN entries, NEW j \in DOMAIN entries,
               NEW k \in DOMAIN sections, NEW l \in DOMAIN sections,
               entries[i].name = sections[k].name, entries[j].name = sections[l].name, i < j
        PROVE  k <= l
    BY <2>1, <2>3 DEF Carries
  <2> QED
    BY <2>2, <2>3 DEF CarriesEverything, Sent, entries
<1> QED
    BY <1>9, <1>10 DEF sent

-----------------------------------------------------------------------------
(* The tasks                                                               *)

\* A task that packs or groups is one of those there are, and its result is what the
\* code makes of it.
OutboxResults ==
    /\ task.kind = "state" =>
          /\ task.input \in StateTasks
          /\ done => result = IterBundles(task.input.sections, task.input.budget)
    /\ task.kind = "commit" =>
          /\ task.input \in Transactions
          /\ done => result = Collapse(task.input)

LEMMA OutboxResultsInvariant == TaskSpec => []OutboxResults
<1>1. TaskInit => OutboxResults
    BY DEF TaskInit, OutboxResults
<1>2. OutboxResults /\ [TaskNext]_taskVars => OutboxResults'
  <2> SUFFICES ASSUME OutboxResults, [TaskNext]_taskVars PROVE OutboxResults'
    OBVIOUS
  <2>1. CASE CountPoll
    BY <2>1 DEF CountPoll, OutboxResults
  <2>2. CASE PackState
    BY <2>2 DEF PackState, OutboxResults
  <2>3. CASE CommitTransaction
    BY <2>3 DEF CommitTransaction, OutboxResults
  <2>4. CASE ImportMeeting
    BY <2>4 DEF ImportMeeting, OutboxResults
  <2>5. CASE ImportInviteFile
    BY <2>5 DEF ImportInviteFile, OutboxResults
  <2>6. CASE UNCHANGED taskVars
    BY <2>6 DEF taskVars, OutboxResults
  <2> QED
    BY <2>1, <2>2, <2>3, <2>4, <2>5, <2>6 DEF TaskNext
<1> QED
    BY <1>1, <1>2, PTL DEF TaskSpec

\* OutboxKeepsMessages: whatever collectors leave, a new subscriber is sent all of it, each
\* section marked complete by its last piece only, in bundles that outgrow the budget only
\* with a message nobody can split (iter_bundles); and whatever a transaction published,
\* grouping it at commit changes neither what a target is sent of an action nor its order
\* (TransactionBatcher).
THEOREM OutboxDelivers == TaskSpec => []OutboxKeepsMessages
<1>1. OutboxResults => OutboxKeepsMessages
  <2> SUFFICES ASSUME OutboxResults PROVE OutboxKeepsMessages
    OBVIOUS
  <2>1. StateIsPacked
    <3> SUFFICES ASSUME Done("state")
                 PROVE  /\ CarriesEverything(task.input.sections, result)
                        /\ WithinBudget(result, task.input.budget)
        BY DEF StateIsPacked
    <3>1. /\ task.input \in StateTasks
          /\ result = IterBundles(task.input.sections, task.input.budget)
        BY DEF OutboxResults, Done
    <3>2. Collected(task.input.sections) /\ task.input.budget \in Nat
        BY <3>1, AlgorithmsAssumption
    <3> QED
        BY <3>1, <3>2, BundlesCarryEverything
  <2>2. GroupingKeepsStreams
    <3> SUFFICES ASSUME Done("commit") PROVE KeepsEveryStream(task.input, result)
        BY DEF GroupingKeepsStreams
    <3>1. task.input \in Transactions /\ result = Collapse(task.input)
        BY DEF OutboxResults, Done
    <3>2. Published(task.input)
        BY <3>1, AlgorithmsAssumption
    <3> QED
        BY <3>1, <3>2, CollapseKeeps
  <2> QED
    BY <2>1, <2>2 DEF OutboxKeepsMessages
<1> QED
    BY <1>1, OutboxResultsInvariant, PTL
=============================================================================
