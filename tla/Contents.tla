----------------------------- MODULE Contents -----------------------------
(***************************************************************************)
(* What hangs under an agenda item and around it: text documents and the   *)
(* amendments of their paragraphs, discussion posts, reactions and private *)
(* notes; rooms, meeting components, participant tags and participant      *)
(* numbers.  Each kind has its table, the requests that change it, the     *)
(* receivers that tell the open pages and the collector that fills a page  *)
(* which subscribes.                                                       *)
(*                                                                         *)
(* A request commits, and its messages reach the pages, in one step.  The  *)
(* exceptions are the requests that read a row, validate, and write it     *)
(* later without a lock: they are begun in one step and finished in        *)
(* another, and at most one of them is in flight.                          *)
(***************************************************************************)
EXTENDS Integers, Sequences, FiniteSets, SequencesExt

CONSTANTS
    Users,        \* participants of the meeting
    Moderator,    \* the one of them who moderates; the others hold every other role
    Texts,        \* bodies of text documents, posts and notes
    RoomPolls,    \* polls a room may show
    RoomProposals, \* proposals a room may highlight
    Tags,         \* tags the settings of the tag component allow
    MaxEdits,     \* bound on how often a text document gets new paragraphs
    Focuses,      \* which of the kinds below, and of Participation, are explored
    NoRow         \* None, or no such row

VARIABLES
    focus,   \* the kind of content this behaviour is about
    db,      \* the tables
    page,    \* per user, what their open page shows
    req,     \* what the request in flight has read and will write
    asked    \* the polls whose ballot somebody asked the room to show

contentsVars == <<focus, db, page, req, asked>>

ASSUME ContentsAssumption ==
    /\ Moderator \in Users
    /\ MaxEdits \in Nat
    /\ NoRow \notin [title : Texts, body : Texts]
    /\ Focuses \subseteq {"amendments", "discussion", "reactions", "rooms", "highlights",
                          "settings", "speaking", "roles", "groups", "presence"}

Idle == [kind |-> "idle"]

-----------------------------------------------------------------------------
(* The rows.                                                               *)

TextDocument == [title : Texts, body : Texts]
ReactionButton == [active : BOOLEAN, flag_mode : BOOLEAN]
Room == [poll : RoomPolls \cup {NoRow}, show_ballot : BOOLEAN, title : Texts]
\* The component of the tags has settings; active_users has none, and is
\* disabled when the meeting closes.
Component == {row \in [name : {"gtags", "active_users"}, enabled : BOOLEAN,
                      is_valid : BOOLEAN] : row.name = "active_users" => row.is_valid}

\* Content of the agenda item in the order it was created.
DiscussionPosts == {"post", "other post"}

\* RoomHighlightedProposal, in its order.
HighlightLists == {s \in SeqOf(RoomProposals, Cardinality(RoomProposals)) : IsInjective(s)}

-----------------------------------------------------------------------------
(* The collectors: what a page is sent when it subscribes.                 *)

\* AgendaItemListSerializer.related_modified
RelatedModified(d) == IF d.created = <<>> THEN NoRow ELSE Last(d.created)

MayViewItem(c, d) == c = Moderator \/ d.item # "private"

AgendaItemFor(c, d) == IF MayViewItem(c, d) THEN RelatedModified(d) ELSE NoRow

TextDocuments(d) == IF d.doc = NoRow THEN NoRow ELSE <<d.doc, d.paragraphs>>

DiscussionPostsOf(d) == ToSet(d.created)

ReactionButtons(d) == d.button
ReactionCounts(d) == Cardinality(d.reactions)
OwnReactions(c, d) == c \in d.reactions

Notes(c, d) == d.notes[c]

Rooms(d) == d.room
RoomHighlight(d) == d.highlighted

MeetingComponents(d) ==
    IF d.component # NoRow /\ d.component.is_valid THEN d.component ELSE NoRow

AllTags(d) == [u \in Users |-> IF d.tags[u] = NoRow THEN {} ELSE d.tags[u]]

ParticipantNumbers(d) == d.numbers

\* The channels of the meeting.
MeetingPage(c, d) ==
    [related_modified |-> AgendaItemFor(c, d), button |-> ReactionButtons(d),
     room |-> Rooms(d), component |-> MeetingComponents(d), tags |-> AllTags(d),
     numbers |-> ParticipantNumbers(d)]

\* The channels of the agenda item and of the room.
ItemPage(c, d) ==
    [doc |-> TextDocuments(d), posts |-> DiscussionPostsOf(d),
     count |-> ReactionCounts(d), own |-> OwnReactions(c, d), note |-> Notes(c, d),
     highlighted |-> RoomHighlight(d)]

EmptyItemPage ==
    [doc |-> NoRow, posts |-> {}, count |-> 0, own |-> FALSE, note |-> NoRow,
     highlighted |-> <<>>]

-----------------------------------------------------------------------------
(* Messages.                                                               *)

Msg(channel, part, key, data) ==
    [channel |-> channel, part |-> part, key |-> key, data |-> data]

Hears(c, pg, channel) ==
    \/ channel = "meeting"
    \/ channel = "participants" /\ c # Moderator
    \/ channel = "moderators" /\ c = Moderator
    \/ channel = "item" /\ pg.open
    \/ channel = c

\* What a page does with a message: it replaces what it showed.  With a button
\* it drops the counts, and it leaves an agenda item or a room that is gone.
Apply(pg, msg) ==
    IF msg.part = "close" THEN [pg EXCEPT !.open = FALSE, !.item = EmptyItemPage]
    ELSE LET shown == [pg EXCEPT ![msg.part][msg.key] = msg.data] IN
         IF msg.key = "button" /\ msg.data = NoRow
         THEN [shown EXCEPT !.item.count = 0, !.item.own = FALSE] ELSE shown

Out == INSTANCE Outbox WITH FRAME_OVERHEAD <- 0, SECTION_OVERHEAD <- 0, Envelope <- 0,
                            VOTEIT_BATCH_THRESHOLD <- 3

\* What the transaction published as its batcher sends it: rows that change and
\* rows that go have actions of their own.
Sent(out) ==
    LET entry(msg) ==
            [message |-> Out!Single(<<msg.part, msg.key, msg.data = NoRow>>, msg),
             target |-> msg.channel]
        sent == Out!Collapse([i \in DOMAIN out |-> entry(out[i])]) IN
    Out!Payloads([i \in DOMAIN sent |-> sent[i].message])

\* Everything the request published, to everybody who subscribes.
Publish(out) ==
    page' = [c \in Users |->
                FoldLeft(Apply, page[c],
                         SelectSeq(Sent(out), LAMBDA msg : Hears(c, page[c], msg.channel)))]

Commit(d, out) == db' = d /\ Publish(out) /\ UNCHANGED focus

Broadcast(key, data) == <<Msg("meeting", "meeting", key, data)>>

\* publish_agenda_changed, and the related_modified in it
AgendaChanged(d) ==
    LET message(channel) == Msg(channel, "meeting", "related_modified", RelatedModified(d)) IN
    IF d.item = "private" THEN <<message("moderators")>>
    ELSE <<message("participants"), message("moderators")>>

ContentsInit ==
    /\ focus \in Focuses
    /\ db = [item |-> IF focus \in {"rooms", "highlights"} THEN "upcoming" ELSE "private",
             block_discussion |-> FALSE, meeting |-> "ongoing",
             doc |-> NoRow, paragraphs |-> NoRow, next_pk |-> 1, amendments |-> {},
             created |-> <<>>, notes |-> [u \in Users |-> NoRow],
             button |-> NoRow, reactions |-> {},
             room |-> NoRow, highlighted |-> <<>>,
             proposals |-> RoomProposals, polls |-> RoomPolls,
             component |-> NoRow, tags |-> [u \in Users |-> NoRow],
             numbers |-> [u \in Users |-> 0]]
    /\ page = [c \in Users |->
                  [open |-> FALSE, meeting |-> MeetingPage(c, db), item |-> EmptyItemPage]]
    /\ req = Idle
    /\ asked = {}

-----------------------------------------------------------------------------
(* The agenda item, and the page a user has open on it.                    *)

\* A transition of the agenda item and what the pages are told: participants
\* are sent the deletion of an item that becomes private, and leave it.
MoveAgendaItem(target) ==
    LET d == [db EXCEPT !.item = target] IN
    /\ target # db.item
    /\ Commit(d, (IF target = "private"
                  THEN <<Msg("participants", "close", "", ""),
                         Msg("participants", "meeting", "related_modified", NoRow)>>
                  ELSE <<>>) \o AgendaChanged(d))
    /\ UNCHANGED <<req, asked>>

ChangeItem(blocked) ==
    LET d == [db EXCEPT !.block_discussion = blocked] IN
    /\ Commit(d, AgendaChanged(d))
    /\ UNCHANGED <<req, asked>>

\* The page subscribes to the item's channel.
OpenItem(c) ==
    /\ ~page[c].open /\ MayViewItem(c, db)
    /\ page' = [page EXCEPT ![c].open = TRUE, ![c].item = ItemPage(c, db)]
    /\ UNCHANGED <<focus, db, req, asked>>

CloseItem(c) ==
    /\ page[c].open
    /\ page' = [page EXCEPT ![c] = Apply(page[c], Msg(c, "close", "", ""))]
    /\ UNCHANGED <<focus, db, req, asked>>

AgendaItemNext ==
    \/ \E target \in {"private", "upcoming", "closed"} : MoveAgendaItem(target)
    \/ \E c \in Users : OpenItem(c) \/ CloseItem(c)

-----------------------------------------------------------------------------
(* Text documents and amendments of their paragraphs.                      *)

UpcomingOngoingOrPrivate == db.item \in {"upcoming", "private"}

DocChanged(d) == <<Msg("item", "item", "doc", <<d.doc, d.paragraphs>>)>>

\* text_document_updated: new paragraphs when the row is new or its body is
\* not the one that was read.
SaveDocument(d, row, refresh) ==
    LET saved == [d EXCEPT !.doc = row] IN
    IF ~refresh THEN saved
    ELSE [saved EXCEPT !.paragraphs = [pk |-> d.next_pk, body |-> row.body],
                       !.next_pk = d.next_pk + 1]

CreateDocument(row) ==
    LET d == SaveDocument(db, row, TRUE) IN
    /\ db.doc = NoRow
    /\ UpcomingOngoingOrPrivate
    /\ db.next_pk <= MaxEdits
    /\ Commit(d, DocChanged(d))
    /\ UNCHANGED <<req, asked>>

HasNoProposals == db.amendments = {}

\* PATCH of a document: the permission and the row are read first.
BeginEditDocument(row) ==
    /\ req = Idle
    /\ db.doc # NoRow /\ row # db.doc
    /\ UpcomingOngoingOrPrivate /\ HasNoProposals
    /\ req' = [kind |-> "document", row |-> row, read |-> db.doc]
    /\ UNCHANGED <<focus, db, page, asked>>

\* Mutant: paragraphs in use may be deleted (on_delete is not RESTRICT).
ParagraphsAreFreeAlways == TRUE

\* Deleting paragraphs an amendment refers to raises RestrictedError.
ParagraphsAreFree == db.amendments = {}

\* TextDocument.save: the whole row is written as it was read, with the changes
\* of the request; a row that was deleted since is inserted again.  The error
\* rolls the save back.
WriteDocument(row, read) ==
    LET refresh == row.body # read.body
        d == SaveDocument(db, row, refresh) IN
    /\ refresh => db.next_pk <= MaxEdits
    /\ IF refresh => ParagraphsAreFree
       THEN Commit(d, DocChanged(d))
       ELSE UNCHANGED <<focus, db, page>>

FinishEditDocument ==
    /\ req.kind = "document"
    /\ WriteDocument(req.row, req.read)
    /\ req' = Idle
    /\ UNCHANGED asked

\* The same request, while another one is in flight.
EditDocument(row) ==
    /\ req # Idle
    /\ db.doc # NoRow /\ row # db.doc
    /\ UpcomingOngoingOrPrivate /\ HasNoProposals
    /\ WriteDocument(row, db.doc)
    /\ UNCHANGED <<req, asked>>

DeleteDocument ==
    /\ db.doc # NoRow
    /\ UpcomingOngoingOrPrivate /\ HasNoProposals
    /\ Commit([db EXCEPT !.doc = NoRow, !.paragraphs = NoRow],
              <<Msg("item", "item", "doc", NoRow)>>)
    /\ UNCHANGED <<req, asked>>

\* POST of an amendment: the paragraph is read and the text compared with it.
AmendmentRead == [paragraph |-> db.paragraphs.pk, against |-> db.paragraphs.body]

MayAmend == db.paragraphs # NoRow /\ UpcomingOngoingOrPrivate

BeginAmend ==
    /\ req = Idle /\ MayAmend
    /\ req' = [kind |-> "amendment", row |-> AmendmentRead]
    /\ UNCHANGED <<focus, db, page, asked>>

\* The same request, while another one is in flight.
Amend ==
    /\ req # Idle /\ MayAmend
    /\ Commit([db EXCEPT !.amendments = @ \cup {AmendmentRead}], <<>>)
    /\ UNCHANGED <<req, asked>>

\* The foreign key of the row that is written.
ParagraphExists == db.paragraphs # NoRow /\ db.paragraphs.pk = req.row.paragraph

FinishAmend ==
    /\ req.kind = "amendment"
    /\ IF ParagraphExists
       THEN Commit([db EXCEPT !.amendments = @ \cup {req.row}], <<>>)
       ELSE UNCHANGED <<focus, db, page>>
    /\ req' = Idle
    /\ UNCHANGED asked

DeleteAmendment(row) ==
    /\ row \in db.amendments
    /\ UpcomingOngoingOrPrivate
    /\ Commit([db EXCEPT !.amendments = @ \ {row}], <<>>)
    /\ UNCHANGED <<req, asked>>

AmendmentsNext ==
    \/ AgendaItemNext
    \/ \E row \in TextDocument :
          CreateDocument(row) \/ BeginEditDocument(row) \/ EditDocument(row)
    \/ FinishEditDocument
    \/ DeleteDocument
    \/ BeginAmend
    \/ Amend
    \/ FinishAmend
    \/ \E row \in db.amendments : DeleteAmendment(row)

-----------------------------------------------------------------------------
(* Discussion posts and private notes.                                     *)

\* schedule_related_modified_push: after the commit, to everybody who may see
\* the item.
CreatePost(c, post) ==
    LET d == [db EXCEPT !.created = Append(@, post)] IN
    /\ ~Contains(db.created, post)
    /\ c = Moderator \/ (db.item # "private" /\ ~db.block_discussion)
    /\ Commit(d, <<Msg("item", "item", "posts", ToSet(d.created))>> \o AgendaChanged(d))
    /\ UNCHANGED <<req, asked>>

RelatedModifiedPush(d) == AgendaChanged(d)

\* By its author or a moderator.
DeletePost(post) ==
    LET d == [db EXCEPT !.created = SelectSeq(@, LAMBDA p : p # post)] IN
    /\ Contains(db.created, post)
    /\ Commit(d, <<Msg("item", "item", "posts", ToSet(d.created))>> \o RelatedModifiedPush(d))
    /\ UNCHANGED <<req, asked>>

\* CreateNoteSerializer.create updates the user's note on the proposal when
\* there is one.
SaveNote(c, body) ==
    /\ db.notes[c] # body
    /\ Commit([db EXCEPT !.notes[c] = body], <<Msg(c, "item", "note", body)>>)
    /\ UNCHANGED <<req, asked>>

\* DELETE of the note and delete_all; a proposal that is deleted takes the
\* notes of all users with it.
DeleteNotes(owners) ==
    /\ owners # {} /\ \A u \in owners : db.notes[u] # NoRow
    /\ Commit([db EXCEPT !.notes = [u \in Users |-> IF u \in owners THEN NoRow ELSE @[u]]],
              SetToSeq({Msg(u, "item", "note", NoRow) : u \in owners}))
    /\ UNCHANGED <<req, asked>>

DiscussionNext ==
    \/ AgendaItemNext
    \/ \E blocked \in BOOLEAN \ {db.block_discussion} : ChangeItem(blocked)
    \/ \E c \in Users, post \in DiscussionPosts : CreatePost(c, post)
    \/ \E post \in DiscussionPosts : DeletePost(post)
    \/ \E c \in Users, body \in Texts : SaveNote(c, body)
    \/ \E owners \in SUBSET Users : DeleteNotes(owners)

-----------------------------------------------------------------------------
(* Reactions to one post.                                                  *)

SaveButton(row) ==
    /\ db.meeting = "ongoing"
    /\ db.button # NoRow => row.flag_mode = db.button.flag_mode
    /\ Commit([db EXCEPT !.button = row], Broadcast("button", row))
    /\ UNCHANGED <<req, asked>>

\* Mutant: the row that is about to be deleted is not subtracted.
CountBeforeDeleteItself(d) == ReactionCounts(d)

\* _send_count: how many reactions the button has on the object; a row that is
\* about to be deleted is still counted by the query.
CountBeforeDelete(d) == ReactionCounts(d) - 1

CountMsg(count) == Msg("item", "item", "count", count)

MayReact(c) ==
    /\ db.button # NoRow /\ db.button.active
    /\ db.meeting = "ongoing"
    /\ db.button.flag_mode => c = Moderator

\* get_or_create: of a flag there is one row, whoever set it.
SetReaction(c) ==
    LET d == [db EXCEPT !.reactions = @ \cup {c}] IN
    /\ MayReact(c)
    /\ IF db.button.flag_mode THEN db.reactions = {} ELSE c \notin db.reactions
    /\ Commit(d, <<CountMsg(ReactionCounts(d)), Msg(c, "item", "own", TRUE)>>)
    /\ UNCHANGED <<req, asked>>

\* pre_delete of every row, while all of them are still there.
ReactionsDeleted(rows) ==
    SetToSeq({CountMsg(CountBeforeDelete(db)) : u \in rows}
             \cup {Msg(u, "item", "own", FALSE) : u \in rows})

RemoveReaction(c) ==
    LET rows == IF db.button.flag_mode THEN db.reactions ELSE db.reactions \cap {c} IN
    /\ MayReact(c)
    /\ Commit([db EXCEPT !.reactions = @ \ rows], ReactionsDeleted(rows))
    /\ UNCHANGED <<req, asked>>

\* The reactions go with the button.
DeleteButton ==
    /\ db.button # NoRow /\ db.meeting = "ongoing"
    /\ Commit([db EXCEPT !.button = NoRow, !.reactions = {}],
              ReactionsDeleted(db.reactions) \o Broadcast("button", NoRow))
    /\ UNCHANGED <<req, asked>>

\* meeting_component_updated, of a row that existed
ComponentUpdated(row) == Broadcast("component", IF row.is_valid THEN row ELSE NoRow)

\* disable_components_when_meeting_closes
DisabledOnClose ==
    db.component # NoRow /\ db.component.name = "active_users" /\ db.component.enabled

CloseMeeting ==
    /\ db.meeting # "closed"
    /\ LET d == [db EXCEPT !.meeting = "closed"] IN
       IF DisabledOnClose
       THEN LET row == [db.component EXCEPT !.enabled = FALSE] IN
            Commit([d EXCEPT !.component = row], ComponentUpdated(row))
       ELSE Commit(d, <<>>)
    /\ UNCHANGED <<req, asked>>

ReopenMeeting ==
    /\ db.meeting = "closed"
    /\ Commit([db EXCEPT !.meeting = "ongoing"], <<>>)
    /\ UNCHANGED <<req, asked>>

ReactionsNext ==
    \/ AgendaItemNext
    \/ CloseMeeting
    \/ ReopenMeeting
    \/ \E row \in ReactionButton : SaveButton(row)
    \/ DeleteButton
    \/ \E c \in Users : SetReaction(c) \/ RemoveReaction(c)

-----------------------------------------------------------------------------
(* Rooms.                                                                  *)

\* Mutant: save() does not look at the poll.
SavedRoomAsIs(row, read) == row

\* Room.save: a ballot that was shown is hidden when the poll is replaced.
SavedRoom(row, read) ==
    [row EXCEPT !.show_ballot = @ /\ ~(row.poll # read.poll /\ read.show_ballot)]

WriteRoom(row) == Commit([db EXCEPT !.room = row], Broadcast("room", row))

\* The poll a request names exists.
PollExists(row) == row.poll \in db.polls \cup {NoRow}

CreateRoom(row) ==
    /\ db.room = NoRow /\ PollExists(row)
    /\ WriteRoom(row)
    /\ asked' = asked \cup (IF row.show_ballot THEN {row.poll} ELSE {})
    /\ UNCHANGED req

\* A request that sets show_ballot asks for the ballot of the poll it sets, or
\* of the poll the row has.
AskBallot(row, read) ==
    asked' = IF row.show_ballot /\ ~read.show_ballot THEN asked \cup {row.poll} ELSE asked

\* PATCH by RoomDetailSerializer: every column is written as it was read.
BeginPatchRoom(row) ==
    /\ req = Idle
    /\ db.room # NoRow /\ row # db.room /\ PollExists(row)
    /\ req' = [kind |-> "room", row |-> row, read |-> db.room]
    /\ UNCHANGED <<focus, db, page, asked>>

FinishPatchRoom ==
    /\ req.kind = "room"
    /\ IF PollExists(req.row)
       THEN /\ WriteRoom(SavedRoom(req.row, req.read))
            /\ AskBallot(req.row, req.read)
       ELSE UNCHANGED <<focus, db, page, asked>>
    /\ req' = Idle

\* The handle request reads the row again under a lock.
HandleRoom(row) ==
    /\ db.room # NoRow /\ row # db.room /\ row.title = db.room.title
    /\ PollExists(row)
    /\ WriteRoom(SavedRoom(row, db.room))
    /\ AskBallot(row, db.room)
    /\ UNCHANGED req

\* The other half of handle: the highlighted proposals, in their order.
Highlight(list) ==
    /\ db.room # NoRow /\ ToSet(list) \subseteq db.proposals
    /\ Commit([db EXCEPT !.highlighted = list],
              <<Msg("item", "item", "highlighted", list)>>)
    /\ UNCHANGED <<req, asked>>

DeleteRoom ==
    /\ db.room # NoRow
    /\ Commit([db EXCEPT !.room = NoRow, !.highlighted = <<>>],
              Broadcast("room", NoRow) \o <<Msg("meeting", "close", "", "")>>)
    /\ UNCHANGED <<req, asked>>

\* ON DELETE SET_NULL and CASCADE send nothing about the room.
DeleteRoomPoll(p) ==
    /\ p \in db.polls
    /\ Commit([db EXCEPT !.polls = @ \ {p},
                         !.room = IF @ # NoRow /\ @.poll = p
                                  THEN [@ EXCEPT !.poll = NoRow] ELSE @], <<>>)
    /\ UNCHANGED <<req, asked>>

DeleteRoomProposal(q) ==
    /\ q \in db.proposals
    /\ Commit([db EXCEPT !.proposals = @ \ {q},
                         !.highlighted = SelectSeq(@, LAMBDA r : r # q)], <<>>)
    /\ UNCHANGED <<req, asked>>

RoomsNext ==
    \/ \E row \in Room : CreateRoom(row) \/ BeginPatchRoom(row) \/ HandleRoom(row)
    \/ FinishPatchRoom
    \/ DeleteRoom
    \/ \E p \in RoomPolls : DeleteRoomPoll(p)
    \/ \E c \in Users : OpenItem(c) \/ CloseItem(c)

HighlightsNext ==
    \/ \E row \in Room : CreateRoom(row)
    \/ \E list \in HighlightLists : Highlight(list)
    \/ DeleteRoom
    \/ \E q \in RoomProposals : DeleteRoomProposal(q)
    \/ \E c \in Users : OpenItem(c) \/ CloseItem(c)

-----------------------------------------------------------------------------
(* Components, participant tags and participant numbers.                   *)

CreateComponent(row) ==
    /\ db.component = NoRow
    /\ Commit([db EXCEPT !.component = row],
              IF row.is_valid THEN Broadcast("component", row) ELSE <<>>)
    /\ UNCHANGED <<req, asked>>

\* A component is enabled with settings that are valid, those it has or those
\* of the request; valid settings are not replaced by others.
PatchComponent(row) ==
    /\ db.component # NoRow /\ row.name = db.component.name
    /\ db.component.is_valid => row.is_valid
    /\ row.enabled /\ ~db.component.enabled => row.is_valid
    /\ Commit([db EXCEPT !.component = row], ComponentUpdated(row))
    /\ UNCHANGED <<req, asked>>

DeleteComponent ==
    /\ db.component # NoRow
    /\ Commit([db EXCEPT !.component = NoRow], Broadcast("component", NoRow))
    /\ UNCHANGED <<req, asked>>

\* get_adapted_from_ns
TagsApply ==
    /\ db.component # NoRow
    /\ db.component.name = "gtags" /\ db.component.enabled /\ db.component.is_valid

TagsMsg(u, chosen) == Broadcast("tags", [page[u].meeting.tags EXCEPT ![u] = chosen])

\* The row is made without a message and saved with one when the tags of the
\* namespace change.
SetTags(u, chosen) ==
    /\ db.meeting = "ongoing"
    /\ TagsApply /\ chosen # {}
    /\ Commit([db EXCEPT !.tags[u] = chosen], TagsMsg(u, chosen))
    /\ UNCHANGED <<req, asked>>

\* A set that does not validate leaves the row that get_or_create made.
RefusedTags(u) ==
    /\ db.meeting = "ongoing" /\ db.tags[u] = NoRow
    /\ Commit([db EXCEPT !.tags[u] = {}], <<>>)
    /\ UNCHANGED <<req, asked>>

\* remove_ns and destroy: the last namespace takes the row with it.
RemoveTags(u) ==
    /\ db.meeting = "ongoing" /\ db.tags[u] # NoRow
    /\ Commit([db EXCEPT !.tags[u] = NoRow], TagsMsg(u, {}))
    /\ UNCHANGED <<req, asked>>

\* import_pns, user by user in the order the database returns them; the unique
\* number of another user ends the import and rolls it back.
GiveNumber(numbers, u, n) ==
    IF numbers = NoRow \/ \E other \in Users \ {u} : numbers[other] = n THEN NoRow
    ELSE [numbers EXCEPT ![u] = n]

ImportNumbers(order, wanted, clear) ==
    LET before == IF clear THEN [u \in Users |-> 0] ELSE db.numbers
        after == FoldLeft(LAMBDA numbers, u : GiveNumber(numbers, u, wanted[u]),
                          before, order) IN
    /\ after # NoRow
    /\ Commit([db EXCEPT !.numbers = after],
              Broadcast("numbers", before)
              \o [i \in DOMAIN order |->
                     Msg("meeting", "meeting", "numbers",
                         [u \in Users |-> IF \E j \in 1..i : order[j] = u
                                         THEN wanted[u] ELSE before[u]])])
    /\ UNCHANGED <<req, asked>>

SettingsNext ==
    \/ CloseMeeting
    \/ ReopenMeeting
    \/ \E row \in Component : CreateComponent(row) \/ PatchComponent(row)
    \/ DeleteComponent
    \/ \E u \in Users : RefusedTags(u) \/ RemoveTags(u)
    \/ \E u \in Users, chosen \in SUBSET Tags : SetTags(u, chosen)
    \/ \E order \in {s \in SeqOf(Users, Cardinality(Users)) : IsInjective(s)},
          wanted \in [Users -> 1..Cardinality(Users)], clear \in BOOLEAN :
          ImportNumbers(order, wanted, clear)

-----------------------------------------------------------------------------

ContentsNext ==
    \/ focus = "amendments" /\ AmendmentsNext
    \/ focus = "discussion" /\ DiscussionNext
    \/ focus = "reactions" /\ ReactionsNext
    \/ focus = "rooms" /\ RoomsNext
    \/ focus = "highlights" /\ HighlightsNext
    \/ focus = "settings" /\ SettingsNext

ContentsSpec == ContentsInit /\ [][ContentsNext]_contentsVars

-----------------------------------------------------------------------------
(* What the contents promise.                                              *)

\* A page knows of the polls and proposals that were deleted (module LiveView)
\* and shows nothing for them.
LiveRoom(row) ==
    IF row # NoRow /\ row.poll \notin db.polls THEN [row EXCEPT !.poll = NoRow] ELSE row

LiveHighlights(list) == SelectSeq(list, LAMBDA q : q \in db.proposals)

\* A page that stays open shows what a page opened now is sent: the newest
\* content of the item, documents with their paragraphs, posts, how often and
\* by whom a button was pressed, notes, rooms, components, tags, numbers.
\* Tags are compared while a tag component is enabled: without one a new page
\* is sent none.
PageShowsTheRows ==
    \A c \in Users :
        LET now == MeetingPage(c, db)
            shown == page[c] IN
        /\ [shown.meeting EXCEPT !.tags = now.tags, !.room = LiveRoom(@)]
               = [now EXCEPT !.room = LiveRoom(@)]
        /\ TagsApply => shown.meeting.tags = now.tags
        /\ shown.open =>
              [shown.item EXCEPT !.highlighted = LiveHighlights(@)] = ItemPage(c, db)

\* An amendment keeps the paragraph it was written against: an edit of the
\* document that overlaps with the amendment's creation does not replace the
\* text under it, whichever of the two commits first.
AmendmentKeepsItsText ==
    \A row \in db.amendments :
        /\ db.paragraphs # NoRow
        /\ db.paragraphs.pk = row.paragraph
        /\ db.paragraphs.body = row.against

\* The ballot a room shows is one that somebody asked to show: replacing the
\* room's poll, or writing an old row back, never shows the ballot of a poll
\* nobody opened it for.
BallotWasAskedFor ==
    db.room # NoRow /\ db.room.show_ballot /\ db.room.poll # NoRow => db.room.poll \in asked
=============================================================================
