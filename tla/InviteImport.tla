--------------------------- MODULE InviteImport ---------------------------
(***************************************************************************)
(* Invites made of the rows of a file or of a JSON list: reading the rows, *)
(* the roles of each, the checks on the table, and the invites and group   *)
(* annotations written in one transaction.                                 *)
(*                                                                         *)
(* A cell is a text, "" when it is empty or missing; a cell of the roles   *)
(* column names one role.  User data is a set of <<column, value>> pairs.  *)
(* The invites of a meeting are records of user data, roles, state, groups *)
(* (a function from groupid to a group role, "" for none), and whether a   *)
(* moderator has used the invite.                                          *)
(***************************************************************************)
EXTENDS Integers, Sequences, SequencesExt, FiniteSets

CONSTANTS
    MAX_ROWS,         \* rows read of a spreadsheet
    GroupIds,         \* groups of the meeting
    GroupRoleIds,     \* their roles
    BlockedRoles,     \* roles the dialect blocks
    NormalCell        \* the normal form of a value: lower case, stripped

UserDataKeys == {"email", "member_id"}
AnnotationKeys == {"group", "grouprole"}

Cell(row, i) == IF i \in DOMAIN row THEN row[i] ELSE ""

IsBlankRow(row) == \A i \in DOMAIN row : row[i] = ""

ColumnIndex(columns, name) == CHOOSE i \in DOMAIN columns : columns[i] = name

\* A spreadsheet has the cells under its header, of the first rows; of a text
\* the lines with anything on them are rows, however long.
DictRowsToColumnsRows(columns, lines) ==
    SelectSeq([k \in 1..(IF Len(lines) < MAX_ROWS THEN Len(lines) ELSE MAX_ROWS) |->
                  [i \in DOMAIN columns |-> Cell(lines[k], i)]],
              LAMBDA row : ~IsBlankRow(row))

ParseInviteFile(lines) == SelectSeq(lines, LAMBDA line : line # <<>>)

DetectAndParseFile(format, columns, lines) ==
    IF format = "spreadsheet" THEN DictRowsToColumnsRows(columns, lines)
    ELSE ParseInviteFile(lines)

RolesOfCell(cell) == {"pa"} \cup ({cell} \ {""})

WithoutCell(row, i) == IF i \in DOMAIN row THEN RemoveAt(row, i) ELSE row

\* Mutant: rows that only have roles keep them, though they are dropped later.
RolesOfBlankRowsKept(columns, rows) ==
    IF ~Contains(columns, "roles")
    THEN [columns |-> columns, rows |-> rows, roles |-> [k \in DOMAIN rows |-> {"pa"}]]
    ELSE LET i == ColumnIndex(columns, "roles") IN
         [columns |-> RemoveAt(columns, i),
          rows |-> [k \in DOMAIN rows |-> WithoutCell(rows[k], i)],
          roles |-> [k \in DOMAIN rows |-> RolesOfCell(Cell(rows[k], i))]]

\* The roles column is taken out; rows that are blank without it are dropped
\* with their roles, as the schema drops them: the lists stay parallel.
ExtractRolesPerRow(columns, rows) ==
    IF ~Contains(columns, "roles")
    THEN LET kept == SelectSeq(rows, LAMBDA row : ~IsBlankRow(row)) IN
         [columns |-> columns, rows |-> kept, roles |-> [k \in DOMAIN kept |-> {"pa"}]]
    ELSE LET i == ColumnIndex(columns, "roles")
             kept == SelectSeq(rows, LAMBDA row : ~IsBlankRow(WithoutCell(row, i))) IN
         [columns |-> RemoveAt(columns, i),
          rows |-> [k \in DOMAIN kept |-> WithoutCell(kept[k], i)],
          roles |-> [k \in DOMAIN kept |-> RolesOfCell(Cell(kept[k], i))]]

-----------------------------------------------------------------------------

\* grouprole has group to the left of it (columns[-1] is the last one).
GroupRoleColumn(columns) ==
    \A i \in DOMAIN columns : columns[i] = "grouprole" =>
        columns[IF i = 1 THEN Len(columns) ELSE i - 1] = "group"

\* Columns are known and unique, and each adapter is content.
CheckColumnReq(columns) ==
    /\ IsInjective(columns)
    /\ Range(columns) \subseteq UserDataKeys \cup AnnotationKeys
    /\ GroupRoleColumn(columns)

\* Every cell is brought to its normal form by the schema of its column.
Preflight(rows) == [k \in DOMAIN rows |-> [i \in DOMAIN rows[k] |-> NormalCell[rows[k][i]]]]

\* RowColInvitesBaseSchema.convert_rows: blank rows go, values are normalised.
ConvertRows(rows) == Preflight(SelectSeq(rows, LAMBDA row : ~IsBlankRow(row)))

\* ensure_unique, of the rows and of the cells of each row.
RowsAreUnique(rows) ==
    IsInjective(rows) /\ \A k \in DOMAIN rows : IsInjective(rows[k])

NothingOutsideColumns(columns, rows) ==
    \A k \in DOMAIN rows : \A i \in DOMAIN rows[k] : i > Len(columns) => rows[k][i] = ""

\* The user data of a row; what has no value is left out.
UserData(columns, row) ==
    {<<columns[i], Cell(row, i)>> : i \in {i \in DOMAIN columns :
        columns[i] \in UserDataKeys /\ Cell(row, i) # ""}}

\* A value appears with the same other values everywhere.
CheckIntersections(columns, rows) ==
    \A k, l \in DOMAIN rows :
        LET one == UserData(columns, rows[k])  two == UserData(columns, rows[l]) IN
        one \cap two # {} => one = two

\* Rows of one recipient and group agree on the group role.
CheckConflictingAnnotations(columns, rows) ==
    Contains(columns, "group") /\ Contains(columns, "grouprole") =>
        LET group(k) == Cell(rows[k], ColumnIndex(columns, "group"))
            role(k) == Cell(rows[k], ColumnIndex(columns, "grouprole"))
            ud(k) == UserData(columns, rows[k]) IN
        \A k, l \in DOMAIN rows :
            ud(k) = ud(l) /\ ud(k) # {} /\ group(k) = group(l) /\ group(k) # ""
            => role(k) = role(l)

\* Rows of one recipient agree on the roles.
CheckConflictingRoles(columns, rows, roles) ==
    \A k, l \in DOMAIN rows :
        UserData(columns, rows[k]) = UserData(columns, rows[l])
        /\ UserData(columns, rows[k]) # {} => roles[k] = roles[l]

RowValues(columns, rows, name) ==
    {Cell(rows[k], i) : k \in DOMAIN rows, i \in {i \in DOMAIN columns : columns[i] = name}} \ {""}

GroupsExist(columns, rows) == RowValues(columns, rows, "group") \subseteq GroupIds

GroupRolesExist(columns, rows) == RowValues(columns, rows, "grouprole") \subseteq GroupRoleIds

\* The annotation adapters know the groups and the group roles.
RunValidators(columns, rows) ==
    GroupsExist(columns, rows) /\ GroupRolesExist(columns, rows)

\* InviteCreateSerializer.validate_data: a JSON list is its own table.
ValidData(table) ==
    /\ CheckColumnReq(table.columns)
    /\ \A k \in DOMAIN table.rows : UserData(table.columns, table.rows[k]) # {}
    /\ CheckIntersections(table.columns, table.rows)
    /\ CheckConflictingAnnotations(table.columns, table.rows)

\* The validators of RowColInvitesBaseSchema.
ValidRows(table) ==
    /\ CheckColumnReq(table.columns)
    /\ RowsAreUnique(table.rows)
    /\ NothingOutsideColumns(table.columns, table.rows)
    /\ CheckIntersections(table.columns, table.rows)
    /\ CheckConflictingAnnotations(table.columns, table.rows)

ValidTable(table, format) ==
    /\ IF format = "json" THEN ValidData(table) ELSE ValidRows(table)
    /\ CheckConflictingRoles(table.columns, table.rows, table.roles)
    /\ RunValidators(table.columns, table.rows)

-----------------------------------------------------------------------------

\* The invites that have all of the user data of some item.
ExactMatches(invites, data) == {i \in invites : \E ud \in data : ud \subseteq i.user_data}

\* Invites that match only a part of a row; looked for when there are several
\* types of user data.
FindMixedUserData(invites, data) ==
    IF Cardinality({p[1] : p \in UNION data}) <= 1 THEN {}
    ELSE {i \in invites \ ExactMatches(invites, data) : i.user_data \cap UNION data # {}}

ModeratorLockout(invites, data, roles) ==
    "mo" \notin roles /\ \E i \in ExactMatches(invites, data) : i.moderator

CreateOrUpdateMixed(invites, data, roles) ==
    LET kept == roles \ BlockedRoles
        exact == ExactMatches(invites, data)
        new == {ud \in data : \A i \in exact : ~(ud \subseteq i.user_data)} IN
    (invites \ exact)
    \cup {[i EXCEPT !.roles = kept,
                    !.state = IF @ \in {"open", "accepted"} THEN @ ELSE "open"] : i \in exact}
    \cup {[user_data |-> ud, roles |-> kept, state |-> "open", groups |-> [g \in {} |-> ""],
           moderator |-> FALSE] : ud \in new}

\* format_effect_rows: the identity part of a row, with the empty cells.
EffectKey(columns, row) ==
    {<<columns[i], row[i]>> : i \in {i \in DOMAIN columns \cap DOMAIN row :
        columns[i] \in UserDataKeys}}

\* The group roles the rows of an invite ask for: the last row of a group wins.
CollapseMatchedRows(columns, rows, matched) ==
    LET at == ColumnIndex(columns, "group")
        groups == {Cell(rows[k], at) : k \in matched} \ {""}
        last(g) == CHOOSE k \in matched :
            Cell(rows[k], at) = g /\ \A l \in matched : l > k => Cell(rows[l], at) # g IN
    [g \in groups |-> IF Contains(columns, "grouprole")
                      THEN Cell(rows[last(g)], ColumnIndex(columns, "grouprole")) ELSE ""]

\* InviteGroup.annotate: an annotation of an open invite, a membership of the
\* user of an accepted one.
Annotate(invites, columns, rows) ==
    IF ~Contains(columns, "group") THEN invites
    ELSE {LET matched == {k \in DOMAIN rows : EffectKey(columns, rows[k]) \subseteq i.user_data}
              desired == CollapseMatchedRows(columns, rows, matched) IN
          [i EXCEPT !.groups = desired @@ @] : i \in invites}

\* Rows of the same roles are written together, in the order of their roles.
RoleCombos == <<{"mo", "pa"}, {"pa"}>>

WriteCombo(invites, table, combo) ==
    LET data == {UserData(table.columns, table.rows[k]) :
                 k \in {k \in DOMAIN table.rows : table.roles[k] = combo}} IN
    CreateOrUpdateMixed(invites, data, combo)

\* What refuses the table because of the invites there are.
RefusedTable(invites, table) ==
    LET data(R) == {UserData(table.columns, table.rows[k]) :
                    k \in {k \in DOMAIN table.rows : table.roles[k] \in R}} IN
    \/ FindMixedUserData(invites, data(Range(RoleCombos))) # {}
    \/ \E c \in Range(RoleCombos) : ModeratorLockout(invites, data({c}), c)

\* The outcome: whether it was accepted, and the invites after it.
ImportInvites(format, columns, lines, invites) ==
    LET extracted == ExtractRolesPerRow(columns, DetectAndParseFile(format, columns, lines))
        table == [extracted EXCEPT !.rows = ConvertRows(@)] IN
    IF ~ValidTable(table, format) \/ RefusedTable(invites, table)
    THEN [accepted |-> FALSE, invites |-> invites]
    ELSE [accepted |-> TRUE,
          invites |-> Annotate(FoldLeft(LAMBDA set, combo : WriteCombo(set, table, combo),
                                        invites, RoleCombos),
                               table.columns, table.rows)]

-----------------------------------------------------------------------------
\* What a line of the file asks for, read off that line alone.

Value(columns, line, name) ==
    IF Contains(columns, name) THEN NormalCell[Cell(line, ColumnIndex(columns, name))] ELSE ""

Identity(columns, line) ==
    {<<n, Value(columns, line, n)>> : n \in {n \in UserDataKeys : Value(columns, line, n) # ""}}

\* Every identity column has a value: the annotation finds its invite.
FullyIdentified(columns, line) ==
    \A n \in UserDataKeys : Contains(columns, n) => Value(columns, line, n) # ""

\* When all lines that say more than roles name somebody: each has an invite of
\* its own roles and the group it asks for, and the invites of others are as
\* they were.
EveryLineIsInvited(format, columns, lines, before, outcome) ==
    LET read == DetectAndParseFile(format, columns, lines)
        who(k) == Identity(columns, read[k])
        roles(k) == RolesOfCell(Value(columns, read[k], "roles")) \ BlockedRoles
        named == {k \in DOMAIN read : who(k) # {}}
        saysMore(k) == \E i \in DOMAIN read[k] :
            read[k][i] # "" /\ (i \in DOMAIN columns => columns[i] # "roles") IN
    outcome.accepted /\ (\A k \in DOMAIN read : saysMore(k) => k \in named) =>
        /\ \A k \in named : \E i \in outcome.invites :
              /\ who(k) \subseteq i.user_data
              /\ i.roles = roles(k) /\ i.state \in {"open", "accepted"}
              /\ Value(columns, read[k], "group") # "" /\ FullyIdentified(columns, read[k]) =>
                    /\ Value(columns, read[k], "group") \in DOMAIN i.groups
                    /\ i.groups[Value(columns, read[k], "group")]
                       = Value(columns, read[k], "grouprole")
        /\ \A i \in before : (\A k \in named : ~(who(k) \subseteq i.user_data))
                             => i \in outcome.invites
        /\ \A i \in outcome.invites : \/ \E j \in before : j.user_data = i.user_data
                                      \/ \E k \in named : who(k) = i.user_data
=============================================================================
