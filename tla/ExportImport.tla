--------------------------- MODULE ExportImport ---------------------------
(***************************************************************************)
(* Export of a meeting's structure and its import into another meeting, by *)
(* file or by cloning.  A meeting is the rows of its tables; rows refer to *)
(* each other by primary key, exported data by the key of the exported row *)
(* or by name (groupid, base tag), and the importer turns the keys into    *)
(* those of the rows it creates.                                           *)
(*                                                                         *)
(* The options of BaseContext and of the Importer that are switched on are *)
(* a set of names.  Texts, titles and dates are single values, already     *)
(* cleaned when they were saved.                                           *)
(***************************************************************************)
EXTENDS Integers, Sequences, FiniteSets, FiniteSetsExt

None == "none"           \* no user, no group, no state
NoParagraph == <<0, 0>>  \* a proposal that amends no text
NoPropId == 0

ClearOptions ==
    {"clear_group_authors", "clear_authors", "clear_ai_states",
     "clear_proposal_states", "clear_proposal_id"}
IncludeOptions ==
    {"include_groups", "include_proposals", "include_discussions",
     "include_buttons", "include_reactions", "include_notes"}
\* missing_blank stands for MissingUser.BLANK; without it missing users RAISE.
ImportOptions == {"use_existing_groups", "add_participants", "missing_blank"}

\* The validators of BaseContext.
ValidContext(ctx) ==
    /\ "include_groups" \notin ctx => "clear_group_authors" \in ctx
    /\ "include_reactions" \in ctx => "include_buttons" \in ctx

Rows(on, rows) == IF on THEN rows ELSE {}

ClearAuthor(row, ctx) ==
    [row EXCEPT !.author = IF "clear_authors" \in ctx THEN None ELSE @,
                !.meeting_group = IF "clear_group_authors" \in ctx THEN None ELSE @]

\* maybe_clear_prop_id_from_tags takes the old id from the tags of a dict only.
PropIdTag(id) == <<"id", id>>

ProposalData(p, ctx, isDict) ==
    [ClearAuthor(p, ctx) EXCEPT
        !.state = IF "clear_proposal_states" \in ctx THEN None ELSE @,
        !.prop_id = IF "clear_proposal_id" \in ctx THEN NoPropId ELSE @,
        !.tags = IF "clear_proposal_id" \in ctx /\ isDict /\ p.prop_id # NoPropId
                 THEN @ \ {PropIdTag(p.prop_id)} ELSE @]

AgendaItemData(i, ctx) ==
    [i EXCEPT !.state = IF "clear_ai_states" \in ctx THEN None ELSE @]

\* Reactions to what is not included are left out, too.
ReactionKept(r, ctx) ==
    /\ "include_reactions" \in ctx
    /\ r.content_type = "proposal" => "include_proposals" \in ctx
    /\ r.content_type = "discussionpost" => "include_discussions" \in ctx

\* The validators of MeetingStructure, on the rows of a meeting (export) or on
\* the data of an export (import).  Reading the paragraph of an amendment makes
\* a dict of it.
MeetingStructure(s, ctx, isDict) ==
    [groups |-> [g \in Rows("include_groups" \in ctx, DOMAIN s.groups) |-> s.groups[g]],
     items |-> {AgendaItemData(i, ctx) : i \in s.items},
     documents |-> s.documents,
     proposals |-> {ProposalData(p, ctx, isDict \/ p.paragraph # NoParagraph) :
                    p \in Rows("include_proposals" \in ctx, s.proposals)},
     posts |-> {ClearAuthor(d, ctx) : d \in Rows("include_discussions" \in ctx, s.posts)},
     buttons |-> Rows("include_buttons" \in ctx, s.buttons),
     reactions |-> {r \in Rows("include_buttons" \in ctx, s.reactions) : ReactionKept(r, ctx)},
     notes |-> Rows("include_notes" \in ctx, s.notes)]

RowOf(rows, pk) == CHOOSE r \in rows : r.pk = pk

\* A paragraph goes out as the base tag of its document and its number there.
TransformParagraph(m, p) ==
    IF p.paragraph = NoParagraph THEN p
    ELSE [p EXCEPT !.paragraph = <<RowOf(m.documents, @[1]).base_tag, @[2]>>]

Export(m, ctx) ==
    MeetingStructure([m EXCEPT !.proposals = {TransformParagraph(m, p) : p \in @}], ctx, FALSE)

\* The import reads exported data with the same validators.
PrepData(data, ctx) == MeetingStructure(data, ctx, TRUE)

-----------------------------------------------------------------------------

\* The validators across rows: ids and tags are unique in an item, and groups
\* are among those exported.
UniqueInItem(data) ==
    /\ \A p, q \in data.proposals :
          p.item = q.item /\ p.prop_id = q.prop_id /\ p.prop_id # NoPropId => p = q
    /\ \A d, e \in data.documents : d.item = e.item /\ d.base_tag = e.base_tag => d = e

KnownGroups(data) ==
    \A row \in data.proposals \cup data.posts :
        row.meeting_group \in DOMAIN data.groups \cup {None}

\* The users that the data names.
CollectUsers(data) ==
    (UNION {data.groups[g].members : g \in DOMAIN data.groups}
     \cup {row.author : row \in data.proposals \cup data.posts}
     \cup {r.user : r \in data.reactions} \cup {n.user : n \in data.notes}) \ {None}

\* The primary keys of new rows, by the exported key: rows are created item by
\* item, in the order of the export.
NewKeys(rows, used) ==
    LET item(r) == IF "item" \in DOMAIN r THEN r.item ELSE 0
        before(q, r) == item(q) < item(r) \/ (item(q) = item(r) /\ q.pk <= r.pk) IN
    [k \in {r.pk : r \in rows} |->
        Max(used \cup {0}) + Cardinality({q \in rows : before(q, RowOf(rows, k))})]

Keys(rows) == {r.pk : r \in rows}

\* Mutant: delegations are resolved as the groups are created, one after another.
DelegatesToExistingGroups(target, data, g, userMap) ==
    LET mgd == data.groups[g]
        old == IF g \in DOMAIN target.groups THEN target.groups[g]
               ELSE [about |-> None, votes |-> 0, members |-> {}, delegate_to |-> None] IN
    [about |-> mgd.about,
     votes |-> IF mgd.votes = 0 THEN old.votes ELSE mgd.votes,
     members |-> old.members \cup ({userMap[u] : u \in mgd.members} \ {None}),
     delegate_to |-> IF mgd.delegate_to \in DOMAIN target.groups THEN mgd.delegate_to
                     ELSE old.delegate_to]

\* Groups: update_or_create by groupid, where a value that is None does not
\* replace one; then the delegations, once every group exists.
ImportedGroup(target, data, g, userMap) ==
    LET mgd == data.groups[g]
        old == IF g \in DOMAIN target.groups THEN target.groups[g]
               ELSE [about |-> None, votes |-> 0, members |-> {}, delegate_to |-> None] IN
    [about |-> mgd.about,
     votes |-> IF mgd.votes = 0 THEN old.votes ELSE mgd.votes,
     members |-> old.members \cup ({userMap[u] : u \in mgd.members} \ {None}),
     delegate_to |-> IF mgd.delegate_to = None THEN old.delegate_to ELSE mgd.delegate_to]

ImportedGroups(target, data, userMap) ==
    [g \in DOMAIN target.groups \cup DOMAIN data.groups |->
        IF g \in DOMAIN data.groups THEN ImportedGroup(target, data, g, userMap)
        ELSE target.groups[g]]

\* AgendaItem.save puts a new item last; the order of the source is not in the
\* data.  A state that was cleared is the initial one.
ImportedItem(target, i, key) ==
    [i EXCEPT !.pk = key[i.pk],
              !.state = IF @ = None THEN "private" ELSE @,
              !.order = Max({o.order : o \in target.items} \cup {0})
                        + Cardinality({k \in DOMAIN key : k <= i.pk})]

\* Proposal.save gives a new id where there is none, adds the id and the tag of
\* the paragraph to the tags, and clears as_group where there is no group.
NewPropId(pk) == 100 + pk

SavedProposal(p) ==
    LET id == IF p.prop_id = NoPropId THEN NewPropId(p.pk) ELSE p.prop_id IN
    [p EXCEPT !.prop_id = id, !.tags = @ \cup {PropIdTag(id)},
              !.as_group = @ /\ p.meeting_group # None]

ParagraphTag(documents, paragraph) ==
    <<"paragraph", RowOf(documents, paragraph[1]).base_tag, paragraph[2]>>

\* The document is found by its base tag among those of the same item.
ImportedProposal(p, documents, key, itemKey, userMap) ==
    LET doc == CHOOSE d \in documents :
                  d.item = itemKey[p.item] /\ d.base_tag = p.paragraph[1]
        paragraph == IF p.paragraph = NoParagraph THEN NoParagraph
                     ELSE <<doc.pk, p.paragraph[2]>> IN
    SavedProposal(
        [p EXCEPT !.pk = key[@], !.item = itemKey[@], !.author = userMap[@],
                  !.state = IF @ = None THEN "published" ELSE @,
                  !.paragraph = paragraph,
                  !.tags = @ \cup (IF paragraph = NoParagraph THEN {}
                                   ELSE {ParagraphTag(documents, paragraph)})])

ImportedPost(d, key, itemKey, userMap) ==
    [d EXCEPT !.pk = key[@], !.item = itemKey[@], !.author = userMap[@],
              !.as_group = @ /\ d.meeting_group # None]

\* A button of the target with the same title, colour and icon is used again.
SameLook(target, b) == {t \in target.buttons : t.look = b.look}

ImportedButton(target, b, key) ==
    [b EXCEPT !.pk = IF SameLook(target, b) = {} THEN key[@]
                     ELSE (CHOOSE t \in SameLook(target, b) : TRUE).pk]

\* resolve_reaction_generic: which map has the object is told by its type.
ImportedReaction(r, buttonKey, itemKey, propKey, postKey) ==
    [r EXCEPT !.button = buttonKey[@], !.item = itemKey[@],
              !.object = IF r.content_type = "proposal" THEN propKey[@] ELSE postKey[@]]

ImportedNote(n, propKey) == [n EXCEPT !.proposal = propKey[@]]

\* What makes the import fail, and its transaction roll back.
Fails(target, data, ctx, active) ==
    LET missing == CollectUsers(data) \ active IN
    \/ ~UniqueInItem(data) \/ ~KnownGroups(data)
    \/ missing # {} /\ "missing_blank" \notin ctx
    \/ \E row \in data.reactions \cup data.notes : row.user \in missing
    \/ "use_existing_groups" \notin ctx /\ DOMAIN data.groups \cap DOMAIN target.groups # {}
    \/ \E b \in data.buttons : \E t \in SameLook(target, b) : t.flag_mode # b.flag_mode

\* Importer.populate, on a target whose import does not fail; used has the keys
\* of the rows of all meetings.
Populate(target, data, ctx, active, used) ==
    LET userMap == [u \in CollectUsers(data) \cup {None} |-> IF u \in active THEN u ELSE None]
        itemKey == NewKeys(data.items, used.items)
        documentKey == NewKeys(data.documents, used.documents)
        propKey == NewKeys(data.proposals, used.proposals)
        postKey == NewKeys(data.posts, used.posts)
        newButtons == NewKeys({b \in data.buttons : SameLook(target, b) = {}}, used.buttons)
        buttons == {<<b.pk, ImportedButton(target, b, newButtons)>> : b \in data.buttons}
        buttonKey == [k \in Keys(data.buttons) |->
                        (CHOOSE b \in buttons : b[1] = k)[2].pk]
        documents == {[d EXCEPT !.pk = documentKey[@], !.item = itemKey[@]] :
                      d \in data.documents} IN
    [groups |-> ImportedGroups(target, data, userMap),
     items |-> target.items \cup {ImportedItem(target, i, itemKey) : i \in data.items},
     documents |-> target.documents \cup documents,
     proposals |-> target.proposals \cup
        {ImportedProposal(p, documents, propKey, itemKey, userMap) : p \in data.proposals},
     posts |-> target.posts \cup
        {ImportedPost(d, postKey, itemKey, userMap) : d \in data.posts},
     participants |-> target.participants \cup
        Rows("add_participants" \in ctx, CollectUsers(data) \cap active),
     buttons |-> {t \in target.buttons : t.pk \notin {b[2].pk : b \in buttons}}
                 \cup {b[2] : b \in buttons},
     reactions |-> target.reactions \cup
        {ImportedReaction(r, buttonKey, itemKey, propKey, postKey) : r \in data.reactions},
     notes |-> target.notes \cup
        {ImportedNote(n, propKey) : n \in {n \in data.notes : n.proposal \in DOMAIN propKey}}]

UsedKeys(meetings) ==
    [items |-> UNION {Keys(m.items) : m \in meetings},
     documents |-> UNION {Keys(m.documents) : m \in meetings},
     proposals |-> UNION {Keys(m.proposals) : m \in meetings},
     posts |-> UNION {Keys(m.posts) : m \in meetings},
     buttons |-> UNION {Keys(m.buttons) : m \in meetings}]

\* The outcome of an import into the target: the target after it.
Import(source, target, data, ctx, active) ==
    IF Fails(target, data, ctx, active) THEN target
    ELSE Populate(target, data, ctx, active, UsedKeys({source, target}))

\* Cloning exports and imports under the same options; a file is exported with
\* the default ones, and the options are those of its import.
DefaultExport == {"include_groups", "include_proposals", "include_discussions",
                  "include_buttons"}

Clone(source, target, ctx, active) ==
    Import(source, target, PrepData(Export(source, ctx), ctx), ctx, active)

ImportFile(source, target, ctx, active) ==
    LET exported == Export(source, DefaultExport \cup {"include_reactions"}) IN
    Import(source, target, PrepData(exported, ctx), ctx, active)

-----------------------------------------------------------------------------
\* What a meeting says, in words of the meeting: no primary keys.

TitleOf(m, item) == RowOf(m.items, item).title

ParagraphText(m, p) ==
    IF p.paragraph = NoParagraph THEN None
    ELSE RowOf(m.documents, p.paragraph[1]).body[p.paragraph[2]]

ProposalSaid(m, p) ==
    [item |-> TitleOf(m, p.item), body |-> p.body, author |-> p.author,
     meeting_group |-> p.meeting_group, as_group |-> p.as_group, state |-> p.state,
     amends |-> ParagraphText(m, p)]

PostSaid(m, d) ==
    [item |-> TitleOf(m, d.item), body |-> d.body, author |-> d.author,
     meeting_group |-> d.meeting_group, as_group |-> d.as_group]

ReactionSaid(m, r) ==
    LET object == RowOf(IF r.content_type = "proposal" THEN m.proposals ELSE m.posts, r.object) IN
    [button |-> RowOf(m.buttons, r.button).look, user |-> r.user,
     item |-> TitleOf(m, r.item), at |-> TitleOf(m, object.item),
     type |-> r.content_type, to |-> object.body]

NoteSaid(m, n) == [user |-> n.user, body |-> n.body, about |-> RowOf(m.proposals, n.proposal).body]

\* The same with what the options clear, and users nobody is found for, blanked.
Blanked(said, ctx, active) ==
    LET group == IF "clear_group_authors" \in ctx THEN None ELSE said.meeting_group IN
    [said EXCEPT !.author = IF "clear_authors" \in ctx \/ @ \notin active THEN None ELSE @,
                 !.meeting_group = group,
                 !.as_group = @ /\ group # None]

ExpectedProposal(m, p, ctx, active) ==
    [Blanked(ProposalSaid(m, p), ctx, active) EXCEPT
        !.state = IF "clear_proposal_states" \in ctx THEN "published" ELSE @]

\* An import adds to the target what the source says of everything the options
\* include, said of the rows it created, and changes no row that was there.
KeepsContent(source, target, ctx, active, after) ==
    LET new(rows, old) == {r \in rows : r.pk \notin Keys(old)} IN
    /\ target.items \subseteq after.items /\ target.proposals \subseteq after.proposals
    /\ target.posts \subseteq after.posts /\ target.documents \subseteq after.documents
    /\ {ProposalSaid(after, p) : p \in new(after.proposals, target.proposals)}
       = {ExpectedProposal(source, p, ctx, active) :
          p \in Rows("include_proposals" \in ctx, source.proposals)}
    /\ {PostSaid(after, d) : d \in new(after.posts, target.posts)}
       = {Blanked(PostSaid(source, d), ctx, active) :
          d \in Rows("include_discussions" \in ctx, source.posts)}
    /\ {ReactionSaid(after, r) : r \in after.reactions \ target.reactions}
       = {ReactionSaid(source, r) : r \in {r \in source.reactions : ReactionKept(r, ctx)}}
    /\ {NoteSaid(after, n) : n \in after.notes \ target.notes}
       = {NoteSaid(source, n) :
          n \in Rows({"include_notes", "include_proposals"} \subseteq ctx, source.notes)}
    /\ "include_groups" \in ctx =>
          \A g \in DOMAIN source.groups :
              /\ source.groups[g].members \cap active \subseteq after.groups[g].members
              /\ source.groups[g].delegate_to \in {None, after.groups[g].delegate_to}

\* Every reference of the meeting is to a row of the meeting, and those of a
\* reaction and of an amendment to rows of the same item.
Closed(m) ==
    /\ \A row \in m.documents \cup m.proposals \cup m.posts : row.item \in Keys(m.items)
    /\ \A row \in m.proposals \cup m.posts : row.meeting_group \in DOMAIN m.groups \cup {None}
    /\ \A p \in m.proposals : p.paragraph # NoParagraph =>
          \E d \in m.documents :
             d.pk = p.paragraph[1] /\ d.item = p.item /\ p.paragraph[2] \in DOMAIN d.body
    /\ \A r \in m.reactions :
          /\ r.button \in Keys(m.buttons)
          /\ \E row \in IF r.content_type = "proposal" THEN m.proposals ELSE m.posts :
                row.pk = r.object /\ row.item = r.item
    /\ \A n \in m.notes : n.proposal \in Keys(m.proposals)
    /\ \A g \in DOMAIN m.groups : m.groups[g].delegate_to \in DOMAIN m.groups \cup {None}
    /\ \A b, c \in m.buttons : b.look = c.look => b = c
    /\ \A p, q \in m.proposals : p.item = q.item /\ p.prop_id = q.prop_id => p = q
=============================================================================
