------------------------------- MODULE Outbox -------------------------------
(***************************************************************************)
(* How messages leave the server.  What a transaction publishes is grouped *)
(* by action and target when it commits (TransactionBatcher); what the     *)
(* collectors send a new subscriber is packed into channel.state bundles   *)
(* of a bounded size (iter_bundles).                                       *)
(*                                                                         *)
(* A message is an action and the payloads it carries: one, or several     *)
(* when it is the generated batch of the action.  A payload is known by an *)
(* id and by the bytes of its JSON.                                        *)
(***************************************************************************)
EXTENDS Naturals, Sequences, SequencesExt

CONSTANTS
    FRAME_OVERHEAD,          \* bytes of the wrapper of a bundle
    SECTION_OVERHEAD,        \* bytes of a section, its name included
    Envelope,                \* bytes of a message around its payloads
    VOTEIT_BATCH_THRESHOLD   \* messages of one action and target that make a batch

ASSUME OutboxAssumption ==
    /\ {FRAME_OVERHEAD, SECTION_OVERHEAD, Envelope} \subseteq Nat
    /\ VOTEIT_BATCH_THRESHOLD \in Nat \ {0}

Single(action, item) == [action |-> action, batch |-> FALSE, items |-> <<item>>]
BatchOf(action, items) == [action |-> action, batch |-> TRUE, items |-> items]

Concat(seqs) == FoldLeft(LAMBDA all, s : all \o s, <<>>, seqs)

-----------------------------------------------------------------------------
(* The messages of one transaction: entries [message, target] in the order *)
(* they were published.                                                    *)

\* Every element of a list is one of it.
IsList(s) == s \in Seq(ToSet(s))

\* What a transaction may publish.
Published(data) == IsList(data) /\ \A entry \in ToSet(data) : IsList(entry.message.items)

GroupKey(entry) == <<entry.message.action, entry.target>>

\* The groups, each at the place of its first message.
GroupKeys(data) ==
    FoldLeft(LAMBDA order, entry : IF Contains(order, GroupKey(entry)) THEN order
                                   ELSE Append(order, GroupKey(entry)),
             <<>>, data)

Group(data, key) ==
    FoldLeft(LAMBDA group, entry : IF GroupKey(entry) = key THEN Append(group, entry) ELSE group,
             <<>>, data)

\* A message that is a batch already has no batch class.
MayBatch(group) ==
    Len(group) >= VOTEIT_BATCH_THRESHOLD /\ ~Head(group).message.batch

Collapsed(group) ==
    IF MayBatch(group)
    THEN <<[message |-> BatchOf(Head(group).message.action,
                                Concat([i \in DOMAIN group |-> group[i].message.items])),
            target |-> Head(group).target]>>
    ELSE group

Collapse(data) ==
    LET order == GroupKeys(data) IN
    Concat([i \in DOMAIN order |-> Collapsed(Group(data, order[i]))])

-----------------------------------------------------------------------------
(* The initial state of a channel: sections [name, failed, messages], one  *)
(* per collector, in the order they ran.                                   *)

\* What collectors may leave: each section has a name of its own, a batch is only
\* made of something (add_batch), and what is no batch is one message.
Collected(sections) ==
    /\ IsList(sections)
    /\ \A i, j \in DOMAIN sections : sections[i].name = sections[j].name => i = j
    /\ \A section \in ToSet(sections) :
          /\ IsList(section.messages)
          /\ \A message \in ToSet(section.messages) :
                /\ IsList(message.items) /\ message.items # <<>>
                /\ message.batch \in BOOLEAN
                /\ ~message.batch => Len(message.items) = 1
                /\ \A item \in ToSet(message.items) : item.size \in Nat

Bytes(items) == SumFunction([i \in DOMAIN items |-> items[i].size])

\* _json_size; the items of a list are separated by commas.
JsonSize(message) == Envelope + Bytes(message.items) + Len(message.items) - 1

\* A smaller batch of the same type, counted with the comma after every item.
Chunk(message, items) ==
    [message |-> BatchOf(message.action, items), size |-> Envelope + Bytes(items) + Len(items)]

\* Into the chunk at hand, or into a new one when that would outgrow the limit.
AddItem(acc, item, message, limit) ==
    IF acc.chunk # <<>> /\ Chunk(message, Append(acc.chunk, item)).size > limit
    THEN [pieces |-> Append(acc.pieces, Chunk(message, acc.chunk)), chunk |-> <<item>>]
    ELSE [acc EXCEPT !.chunk = Append(@, item)]

Chunks(message, limit) ==
    FoldLeft(LAMBDA acc, item : AddItem(acc, item, message, limit),
             [pieces |-> <<>>, chunk |-> <<>>], message.items)

\* _split_batch; a piece is [message, size].
SplitBatch(message, limit) ==
    IF ~message.batch THEN <<[message |-> message, size |-> JsonSize(message)]>>
    ELSE LET end == Chunks(message, limit) IN Append(end.pieces, Chunk(message, end.chunk))

Sized(messages, limit) ==
    Concat([i \in DOMAIN messages |->
               IF JsonSize(messages[i]) <= limit
               THEN <<[message |-> messages[i], size |-> JsonSize(messages[i])]>>
               ELSE SplitBatch(messages[i], limit)])

Usable(budget) ==
    IF budget < FRAME_OVERHEAD + SECTION_OVERHEAD + 1 THEN SECTION_OVERHEAD + 1
    ELSE budget - FRAME_OVERHEAD

\* usable - overhead, which is not below zero as Usable keeps it.
Room(budget) == Usable(budget) - SECTION_OVERHEAD

Piece(section, done, head) ==
    [name |-> section.name, complete |-> done, failed |-> section.failed,
     messages |-> head]

\* What is being packed: the bundles that were yielded, the sections of the
\* next one and their bytes, and the messages of the section at hand.
NothingPacked == [bundles |-> <<>>, packed |-> <<>>, used |-> 0, head |-> <<>>, head_size |-> 0]

\* Mutant: a bundle that is full is yielded without the messages at hand.
FlushWithoutHead(acc, section) ==
    [acc EXCEPT !.bundles = Append(@, acc.packed),
                !.packed = <<>>, !.used = 0, !.head = <<>>, !.head_size = 0]

Flush(acc, section) ==
    [acc EXCEPT !.bundles = Append(@, IF acc.head = <<>> THEN acc.packed
                                      ELSE Append(acc.packed, Piece(section, FALSE, acc.head))),
                !.packed = <<>>, !.used = 0, !.head = <<>>, !.head_size = 0]

Overflows(acc, piece, usable) ==
    acc.used + SECTION_OVERHEAD + acc.head_size + piece.size > usable

\* An empty bundle takes a message however big it is.
Take(acc, piece, section, usable) ==
    LET full == (acc.packed # <<>> \/ acc.head # <<>>) /\ Overflows(acc, piece, usable)
        room == IF full THEN Flush(acc, section) ELSE acc IN
    [room EXCEPT !.head = Append(@, piece.message), !.head_size = @ + piece.size]

TakeAll(acc, section, budget) ==
    FoldLeft(LAMBDA b, piece : Take(b, piece, section, Usable(budget)),
             acc, Sized(section.messages, Room(budget)))

PackSection(acc, section, budget) ==
    LET end == TakeAll(acc, section, budget) IN
    [end EXCEPT !.packed = Append(@, Piece(section, TRUE, end.head)),
                !.used = @ + SECTION_OVERHEAD + end.head_size,
                !.head = <<>>, !.head_size = 0]

PackAll(sections, budget) ==
    FoldLeft(LAMBDA acc, section : PackSection(acc, section, budget), NothingPacked, sections)

\* iter_bundles; the place of a bundle is its seq.
IterBundles(sections, budget) ==
    LET end == PackAll(sections, budget) IN
    IF end.packed = <<>> THEN end.bundles ELSE Append(end.bundles, end.packed)

-----------------------------------------------------------------------------

Payloads(messages) == Concat([i \in DOMAIN messages |-> messages[i].items])

\* The pieces of the section called name.
PiecesOf(entries, name) ==
    FoldLeft(LAMBDA pieces, entry : IF entry.name = name THEN Append(pieces, entry) ELSE pieces,
             <<>>, entries)

\* A client that reads the bundles in order gets the payloads of every section
\* that was announced, all of them once and in the order of the collector, and
\* a section is marked complete by its last piece and by no other: a page never
\* waits for a section and never stops waiting too early.
CarriesEverything(sections, bundles) ==
    LET entries == Concat(bundles) IN
    /\ \A i \in DOMAIN sections :
          LET pieces == PiecesOf(entries, sections[i].name) IN
          /\ pieces # <<>>
          /\ \A j \in DOMAIN pieces : pieces[j].complete <=> j = Len(pieces)
          /\ \A j \in DOMAIN pieces : pieces[j].failed = sections[i].failed
          /\ Payloads(Concat([j \in DOMAIN pieces |-> pieces[j].messages]))
                = Payloads(sections[i].messages)
    /\ \A i, j \in DOMAIN entries : \A k, l \in DOMAIN sections :
          /\ entries[i].name = sections[k].name /\ entries[j].name = sections[l].name
          /\ i < j
          => k <= l

EntryBytes(entry) ==
    SECTION_OVERHEAD + SumFunction([i \in DOMAIN entry.messages |-> JsonSize(entry.messages[i])])

\* A bundle keeps within its budget unless it has nothing but one message that
\* is too big for any; sections without messages at its end come on top.
WithinBudget(bundles, budget) ==
    \A j \in DOMAIN bundles :
        LET bundle == bundles[j] IN
        \E n \in 0..Len(bundle) :
            /\ \A i \in n + 1..Len(bundle) : bundle[i].messages = <<>>
            /\ \/ SumFunction([i \in 1..n |-> EntryBytes(bundle[i])]) <= Usable(budget)
               \/ n = 1 /\ Len(bundle[1].messages) = 1 /\ Len(bundle[1].messages[1].items) = 1

\* Every target is sent the payloads that were published to it, those of one
\* action in the order they were published.
KeepsEveryStream(data, sent) ==
    LET stream(entries, key) ==
            Payloads([i \in DOMAIN Group(entries, key) |-> Group(entries, key)[i].message]) IN
    \A key \in ToSet(GroupKeys(data)) \cup ToSet(GroupKeys(sent)) :
        stream(sent, key) = stream(data, key)
=============================================================================
