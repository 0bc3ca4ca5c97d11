--------------------------- MODULE MCAlgorithms ---------------------------
(***************************************************************************)
(* Algorithms for TLC: three voters and up to three proposals; up to three *)
(* sections of small messages; up to five messages of a transaction.       *)
(***************************************************************************)
EXTENDS Algorithms

PollOf(method, n) ==
    [method |-> method, proposals |-> 1..n, winners |-> 1, deny |-> FALSE,
     stars |-> 1, min |-> 0, max |-> 0, allow_random |-> TRUE]

SomePolls ==
    {PollOf("simple", 1), PollOf("combined_simple", 2), PollOf("majority", 2),
     PollOf("majority", 3), PollOf("schulze", 3), PollOf("irv", 3),
     PollOf("scottish_stv", 3)}
    \cup {[PollOf("dutt", 2) EXCEPT !.min = 1, !.max = max] : max \in {0, 2}}
    \cup {[PollOf("schulze", 2) EXCEPT !.deny = TRUE]}
    \cup {[PollOf("repeated_schulze", 3) EXCEPT !.winners = 2, !.stars = 2],
          [PollOf("repeated_schulze", 3) EXCEPT !.winners = NoWinners]}
    \cup {[PollOf("repeated_schulze", 2) EXCEPT !.winners = 2, !.deny = TRUE,
                                                 !.stars = 2]}
    \cup {[PollOf("irv", 3) EXCEPT !.allow_random = FALSE]}
    \cup {[PollOf("repeated_irv", 3) EXCEPT !.winners = 2, !.min = 2]}

ThreeVoters == 1..3
SomeWeights == {<<1, 1, 1>>, <<3, 1, 1>>, <<0, 0, 0>>}

\* Messages of one section, with the bytes of each payload.
SizeLists == {<<1>>, <<6>>, <<1, 6>>, <<6, 1>>, <<1, 1, 1>>, <<2, 2, 2>>, <<6, 6>>}

MessagesOf(i, lists) ==
    [j \in DOMAIN lists |->
        [action |-> "changed", batch |-> Len(lists[j]) > 1,
         items |-> [k \in DOMAIN lists[j] |-> [id |-> <<i, j, k>>, size |-> lists[j][k]]]]]

SectionsOf(contents) ==
    [i \in DOMAIN contents |->
        [name |-> i, failed |-> i = 2, messages |-> MessagesOf(i, contents[i])]]

SomeStates ==
    LET few == {<<>>} \cup {<<s>> : s \in SizeLists}
        more == few \cup {<<s, t>> : s, t \in SizeLists} IN
    [sections : {SectionsOf(<<s, t, u>>) : s \in few, t \in more, u \in few},
     budget : {3, 9, 13, 20}]

\* Actions a and b to the targets 1 and 2; b is a batch already.
SomeTransactions ==
    LET entries == [message : {Single("a", 0), BatchOf("b", <<0, 1>>)}, target : 1..2] IN
    {[i \in DOMAIN s |-> [s[i] EXCEPT !.message.items = [k \in DOMAIN @ |-> <<i, k>>]]] :
     s \in SeqOf(entries, 5)}

\* Two groups, two items with a document of the same tag, proposals and posts
\* whose keys overlap, one button, a note.
MeetingGroup(about, members, to) ==
    [about |-> about, votes |-> 0, members |-> members, delegate_to |-> to]

Proposal(pk, item, group, paragraph) ==
    SavedProposal(
        [pk |-> pk, item |-> item, body |-> "body" \o ToString(pk), author |-> "ann",
         meeting_group |-> group, as_group |-> group # None, state |-> "approved",
         prop_id |-> pk, tags |-> {}, paragraph |-> paragraph])

Button(pk, flag) ==
    [pk |-> pk, look |-> "like", flag_mode |-> flag, about |-> "about" \o ToString(pk)]

Reaction(user, item, type, object) ==
    [button |-> 1, user |-> user, item |-> item, content_type |-> type, object |-> object]

EmptyMeeting ==
    [groups |-> [g \in {} |-> None], items |-> {}, documents |-> {}, proposals |-> {},
     posts |-> {}, participants |-> {}, buttons |-> {}, reactions |-> {}, notes |-> {}]

Source(to, swapped, reactions) ==
    [groups |-> [g1 |-> MeetingGroup("one", {"ann"}, to), g2 |-> MeetingGroup("two", {"ann", "bob"}, None)],
     items |-> {[pk |-> i, title |-> "item" \o ToString(i), state |-> "closed",
                 order |-> IF swapped THEN 3 - i ELSE i] : i \in 1..2},
     documents |-> {[pk |-> i, item |-> i, base_tag |-> 5,
                     body |-> <<"first" \o ToString(i), "second" \o ToString(i)>>] : i \in 1..2},
     proposals |-> {Proposal(1, 1, "g1", NoParagraph), Proposal(2, 2, None, <<2, 2>>),
                    Proposal(3, 1, "g2", <<1, 1>>)},
     posts |-> {[pk |-> i, item |-> 3 - i, body |-> "post" \o ToString(i), author |-> "bob",
                 meeting_group |-> None, as_group |-> FALSE] : i \in 1..2},
     participants |-> {"ann", "bob"}, buttons |-> {Button(1, FALSE)},
     reactions |-> reactions,
     notes |-> {[user |-> "bob", proposal |-> 2, body |-> "note"]}]

SomeSources ==
    {Source(to, swapped, reactions) :
     to \in {None, "g2"}, swapped \in BOOLEAN,
     reactions \in SUBSET {Reaction("ann", 1, "proposal", 1), Reaction("bob", 2, "proposal", 2),
                           Reaction("bob", 2, "discussionpost", 1)}}

\* Targets: empty, with a group and a button of the same name, the source itself.
TargetsOf(source) ==
    {EmptyMeeting, source}
    \cup {[EmptyMeeting EXCEPT !.groups = [g2 |-> MeetingGroup("old", {"eve"}, None)],
                                !.items = {[pk |-> 9, title |-> "old", state |-> "private",
                                            order |-> 4]},
                                !.buttons = {Button(7, flag)}] : flag \in BOOLEAN}

\* Up to two options differ from the usual ones.
SomeContexts ==
    LET usual == DefaultExport \cup {"include_reactions", "include_notes", "use_existing_groups"}
        all == ClearOptions \cup IncludeOptions \cup ImportOptions IN
    {(usual \ d) \cup (d \ usual) : d \in {d \in SUBSET all : Cardinality(d) <= 2}}

SomeImports ==
    UNION {[source : {s}, target : TargetsOf(s), ctx : SomeContexts,
            active : {{"ann", "bob"}, {"bob"}}, by : {"clone"}]
           \cup [source : {s}, target : TargetsOf(s), active : {{"ann", "bob"}, {"bob"}},
                 ctx : {c \ {"include_notes"} : c \in SomeContexts}, by : {"file"}] :
           s \in SomeSources}

\* Values in two spellings, known and unknown groups.
Normal == [c \in {"", "A", "a", "b", "7", "g", "h", "x", "y", "mo", "pa"} |->
             IF c = "A" THEN "a" ELSE c]

Invite(user_data, roles, state, moderator) ==
    [user_data |-> user_data, roles |-> roles, state |-> state,
     groups |-> [g \in {} |-> ""], moderator |-> moderator]

SomeInvites ==
    {{}, {Invite({<<"email", "a">>}, {"pa"}, "open", FALSE)},
     {Invite({<<"email", "a">>}, {"pa", "mo"}, "accepted", TRUE)},
     {Invite({<<"email", "a">>, <<"member_id", "7">>}, {"pa", "mo"}, "revoked", FALSE),
      Invite({<<"email", "b">>}, {"pa"}, "revoked", FALSE)},
     {Invite({<<"member_id", "7">>}, {"pa"}, "open", FALSE)}}

Files(format, columns, values, n) ==
    [format : {format}, columns : {columns}, invites : SomeInvites,
     lines : SeqOf({r \in SeqOf(UNION {values[i] : i \in DOMAIN values}, Len(columns)) :
                      \A i \in DOMAIN r : r[i] \in values[i]}, n)]

SomeFiles ==
    UNION {Files(f, <<"email", "roles">>, <<{"", "A", "a", "b"}, {"", "mo"}>>, 3) \cup
           Files(f, <<"roles", "email", "group">>, <<{"", "mo"}, {"", "b"}, {"", "g"}>>, 2) :
           f \in {"text", "spreadsheet"}}
    \cup UNION {Files(f, <<"email", "group", "grouprole">>,
                      <<{"a", "b"}, {"", "g"}, {"", "x", "y"}>>, 2) \cup
                Files(f, <<"email", "member_id", "group">>,
                      <<{"", "a"}, {"", "7"}, {"", "g", "h"}>>, 2) :
                f \in {"text", "json"}}
=============================================================================
