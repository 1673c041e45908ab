-------------------------------- MODULE Fields --------------------------------
(***************************************************************************)
(* The fields of one table, in object-builder.                             *)
(*                                                                         *)
(* A field is a row of the catalogue, a column of the user's table, a      *)
(* unique constraint when the field is unique, and an entry in the columns *)
(* of the views that show it.  Every edit is a transaction, but the row    *)
(* that Update compares with is read on another connection, before its     *)
(* first write, Delete works with a slug and a list of columns it read     *)
(* earlier in its transaction, and the admin application saves a view from *)
(* the copy it opened.  Several edits are in flight at once.               *)
(*                                                                         *)
(* Postgres runs the transactions at READ COMMITTED: what a statement      *)
(* reads is committed, and may be stale when a later one uses it.  From    *)
(* its first write to its commit a transaction holds the lock that the     *)
(* others need to write the same thing, so the writes are one step here.   *)
(***************************************************************************)
EXTENDS FiniteSets

CONSTANTS
    FieldIds,    \* the fields that are ever created
    Slugs,       \* the names a column can have
    Types,       \* the types of field, each with its type of column
    Views,       \* the views of the table
    Sessions,    \* the edits that can be in flight at once
    Overlapping, \* may two edits of the same field be in flight at once?
    Nothing      \* what is in the place of a row, column or constraint

VARIABLES
    field,   \* the catalogue: the row of each field
    table,   \* the user's table: its columns and unique constraints
    view,    \* the fields each view shows as columns
    session, \* the edits in flight, with what they have read
    spent,   \* the identifiers that have been used
    stale    \* history: unique fields renamed or retyped since they are unique

vars == <<field, table, view, session, spent, stale>>

Idle == [op |-> "idle"]

\* A row of the catalogue, as far as the table depends on it.
Rows == [slug : Slugs, type : Types, unique : BOOLEAN]

\* A column, with the field whose values it holds.
Columns == [type : Types, of : FieldIds]

\* A constraint has a name, made of the slug it was created for, and is on a
\* column, whose name can change.
Tables == [columns : [Slugs -> Columns \cup {Nothing}],
           constraints : [Slugs -> Slugs \cup {Nothing}]]

ASSUME OverlappingAssumption == Overlapping \in BOOLEAN
ASSUME NothingAssumption == Nothing \notin Rows /\ Nothing \notin Columns /\ Nothing \notin Slugs

Fields == {f \in FieldIds : field[f] # Nothing}

Init ==
    /\ field = [f \in FieldIds |-> Nothing]
    /\ table = [columns |-> [c \in Slugs |-> Nothing],
                constraints |-> [n \in Slugs |-> Nothing]]
    /\ view = [v \in Views |-> {}]
    /\ session = [s \in Sessions |-> Idle]
    /\ spent = {}
    /\ stale = {}

-----------------------------------------------------------------------------
(* What the statements of an edit do to the table.                         *)

HasColumn(t, c) == t.columns[c] # Nothing
HasConstraint(t, n) == t.constraints[n] # Nothing

AddColumn(t, c, col) == [t EXCEPT !.columns[c] = col]

\* The constraints on a column go with it.
DropColumn(t, c) ==
    [columns |-> [t.columns EXCEPT ![c] = Nothing],
     constraints |-> [n \in Slugs |-> IF t.constraints[n] = c THEN Nothing
                                      ELSE t.constraints[n]]]

\* They follow a column that is renamed, and keep their own names.
RenameColumn(t, from, to) ==
    [columns |-> [t.columns EXCEPT ![to] = t.columns[from], ![from] = Nothing],
     constraints |-> [n \in Slugs |-> IF t.constraints[n] = from THEN to
                                      ELSE t.constraints[n]]]

AddConstraint(t, c) == [t EXCEPT !.constraints[c] = c]
DropConstraint(t, n) == [t EXCEPT !.constraints[n] = Nothing]

-----------------------------------------------------------------------------
(* Creating a field.                                                       *)

\* Mutant: the field is unique in the catalogue only.
CreateUnconstrained(f, row) ==
    /\ f \notin spent
    /\ \A g \in Fields : field[g].slug # row.slug
    /\ ~HasColumn(table, row.slug)
    /\ field' = [field EXCEPT ![f] = row]
    /\ table' = AddColumn(table, row.slug, [type |-> row.type, of |-> f])
    /\ view' = [v \in Views |-> view[v] \cup {f}]
    /\ spent' = spent \cup {f}
    /\ UNCHANGED <<session, stale>>

\* A row, a column, a constraint and a place in every view of the table.  It
\* reads nothing it does not hold a lock for, so it is one step; when a
\* statement is refused, nothing is left of it.
Create(f, row) ==
    /\ f \notin spent
    /\ \A g \in Fields : field[g].slug # row.slug
    /\ ~HasColumn(table, row.slug)
    /\ row.unique => ~HasConstraint(table, row.slug)
    /\ field' = [field EXCEPT ![f] = row]
    /\ LET added == AddColumn(table, row.slug, [type |-> row.type, of |-> f]) IN
       table' = IF row.unique THEN AddConstraint(added, row.slug) ELSE added
    /\ view' = [v \in Views |-> view[v] \cup {f}]
    /\ spent' = spent \cup {f}
    /\ UNCHANGED <<session, stale>>

-----------------------------------------------------------------------------
(* Edits that take more than a step.                                       *)

Editing(s, f) == session[s].op \in {"update", "delete", "drop"} /\ session[s].field = f

\* An edit of a field begins.
Begin(s, f, edit) ==
    /\ session[s] = Idle
    /\ f \in Fields
    /\ Overlapping \/ \A other \in Sessions : ~Editing(other, f)
    /\ session' = [session EXCEPT ![s] = edit]
    /\ UNCHANGED <<field, table, view, spent, stale>>

End(s) == session' = [session EXCEPT ![s] = Idle]

\* A statement is refused, two transactions deadlock or the connection is
\* lost: nothing is left of the edit.  Or a view is closed without being saved.
Abort(s) ==
    /\ session[s] # Idle
    /\ End(s)
    /\ UNCHANGED <<field, table, view, spent, stale>>

-----------------------------------------------------------------------------
(* Updating a field.                                                       *)

\* GetByID reads the row as it is; the request holds the row as it should be.
StartUpdate(s, f, row) ==
    Begin(s, f, [op |-> "update", field |-> f, old |-> field[f], new |-> row])

\* A type that changes drops the column and adds another.
Retyped(t, f, old, new) ==
    IF old.type = new.type THEN t
    ELSE AddColumn(DropColumn(t, old.slug), new.slug, [type |-> new.type, of |-> f])
CanRetype(t, old, new) ==
    old.type # new.type =>
        HasColumn(t, old.slug) /\ ~HasColumn(DropColumn(t, old.slug), new.slug)

\* Mutant: the column keeps its name.
RenamedNever(t, old, new) == t

\* A slug that changes renames the column.
Renamed(t, old, new) ==
    IF old.slug = new.slug THEN t ELSE RenameColumn(t, old.slug, new.slug)
CanRename(t, old, new) ==
    old.slug # new.slug => HasColumn(t, old.slug) /\ ~HasColumn(t, new.slug)

\* A constraint is added under the new slug and dropped, if there is one,
\* under the old one.
Constrained(t, old, new) ==
    CASE ~old.unique /\ new.unique -> AddConstraint(t, new.slug)
      [] old.unique /\ ~new.unique -> DropConstraint(t, old.slug)
      [] OTHER                     -> t
CanConstrain(t, old, new) ==
    ~old.unique /\ new.unique => HasColumn(t, new.slug) /\ ~HasConstraint(t, new.slug)

\* Mutant: the column is renamed before it is retyped, under its new name.
CommitUpdateRenamesFirst(s) ==
    /\ session[s].op = "update"
    /\ LET f       == session[s].field
           old     == session[s].old
           new     == session[s].new
           renamed == Renamed(table, old, new)
           now     == [old EXCEPT !.slug = new.slug]
           retyped == Retyped(renamed, f, now, new) IN
       /\ f \in Fields
       /\ \A g \in Fields \ {f} : field[g].slug # new.slug
       /\ CanRename(table, old, new) /\ CanRetype(renamed, now, new)
       /\ CanConstrain(retyped, now, new)
       /\ field' = [field EXCEPT ![f] = new]
       /\ table' = Constrained(retyped, now, new)
    /\ End(s)
    /\ UNCHANGED <<view, spent, stale>>

\* The row is overwritten whole, and the table is changed by what differs
\* between the request and the row that was read.
CommitUpdate(s) ==
    /\ session[s].op = "update"
    /\ LET f       == session[s].field
           old     == session[s].old
           new     == session[s].new
           retyped == Retyped(table, f, old, new)
           renamed == Renamed(retyped, old, new) IN
       /\ f \in Fields
       /\ \A g \in Fields \ {f} : field[g].slug # new.slug
       /\ CanRetype(table, old, new)
       /\ CanRename(retyped, old, new)
       /\ CanConstrain(renamed, old, new)
       /\ field' = [field EXCEPT ![f] = new]
       /\ table' = Constrained(renamed, old, new)
       /\ stale' = IF old.unique /\ new.unique
                   THEN stale \cup {g \in {f} : old.slug # new.slug \/ old.type # new.type}
                   ELSE stale \ {f}
    /\ End(s)
    /\ UNCHANGED <<view, spent>>

-----------------------------------------------------------------------------
(* Deleting a field.                                                       *)

\* The field's slug is read and kept.
StartDelete(s, f) ==
    Begin(s, f, [op |-> "delete", field |-> f, slug |-> field[f].slug])

\* Mutant: the delete does not take note of where it is.
ReadViewUnmarked(s, v) ==
    /\ session[s].op = "delete"
    /\ session' = [session EXCEPT ![s] =
                     [op |-> "delete", field |-> session[s].field,
                      view |-> v, seen |-> view[v]]]
    /\ UNCHANGED <<field, table, view, spent, stale>>

\* Then the columns of a view: of whichever view the query returns first.
ReadView(s, v) ==
    /\ session[s].op = "delete"
    /\ session' = [session EXCEPT ![s] =
                     [op |-> "drop", field |-> session[s].field, slug |-> session[s].slug,
                      view |-> v, seen |-> view[v]]]
    /\ UNCHANGED <<field, table, view, spent, stale>>

\* The view is written back without the field, and the column is dropped.
\* The row may be gone already, but the column has to be there.
CommitDelete(s) ==
    /\ session[s].op = "drop"
    /\ LET f == session[s].field
           v == session[s].view IN
       /\ HasColumn(table, session[s].slug)
       /\ view' = IF f \in session[s].seen
                  THEN [view EXCEPT ![v] = session[s].seen \ {f}] ELSE view
       /\ field' = [field EXCEPT ![f] = Nothing]
       /\ table' = DropColumn(table, session[s].slug)
       /\ stale' = stale \ {f}
    /\ End(s)
    /\ UNCHANGED spent

-----------------------------------------------------------------------------
(* Editing a view.                                                         *)

\* The admin application loads a view and the fields of its table.
OpenView(s, v) ==
    /\ session[s] = Idle
    /\ session' = [session EXCEPT ![s] =
                     [op |-> "save", view |-> v, known |-> view[v] \cup Fields]]
    /\ UNCHANGED <<field, table, view, spent, stale>>

\* Update of a view overwrites its columns with the client's, whatever the
\* client changed.
SaveView(s, shown) ==
    /\ session[s].op = "save"
    /\ shown \subseteq session[s].known
    /\ view' = [view EXCEPT ![session[s].view] = shown]
    /\ End(s)
    /\ UNCHANGED <<field, table, spent, stale>>

-----------------------------------------------------------------------------
Next ==
    \/ \E f \in FieldIds, row \in Rows : Create(f, row)
    \/ \E s \in Sessions :
         \/ Abort(s)
         \/ CommitUpdate(s)
         \/ CommitDelete(s)
         \/ \E f \in FieldIds : StartDelete(s, f) \/ \E row \in Rows : StartUpdate(s, f, row)
         \/ \E v \in Views : ReadView(s, v) \/ OpenView(s, v)
         \/ \E shown \in SUBSET FieldIds : SaveView(s, shown)

Spec == Init /\ [][Next]_vars

-----------------------------------------------------------------------------
(* Properties.                                                             *)

Edits ==
    {Idle}
    \cup [op : {"update"}, field : FieldIds, old : Rows, new : Rows]
    \cup [op : {"delete"}, field : FieldIds, slug : Slugs]
    \cup [op : {"drop"}, field : FieldIds, slug : Slugs, view : Views, seen : SUBSET FieldIds]
    \cup [op : {"save"}, view : Views, known : SUBSET FieldIds]

\* The type of every variable.
FieldsTypeOK ==
    /\ field \in [FieldIds -> Rows \cup {Nothing}]
    /\ table \in Tables
    /\ view \in [Views -> SUBSET FieldIds]
    /\ session \in [Sessions -> Edits]
    /\ spent \subseteq FieldIds
    /\ stale \subseteq FieldIds

\* What the table has under a field's slug.
ColumnOf(f) == table.columns[field[f].slug]

\* slug.ts: a field's slug is the name of its column.  Every field has its own
\* column, under its slug and of its type, and there is no other column
\* (field.go, Create, Update and Delete).  Edits of different fields may be in
\* flight at once and swap, free and reuse each other's slugs; two edits of
\* one field may not.
CatalogueMatchesTable ==
    /\ \A f \in Fields : ColumnOf(f) = [type |-> field[f].type, of |-> f]
    /\ \A c \in Slugs : HasColumn(table, c) => \E f \in Fields : field[f].slug = c

\* A unique field is unique in the table, under its own name, unless it was
\* renamed or retyped since: no edit of another field takes its constraint
\* away (field.go, Create and Update).
UniqueUnlessStale ==
    \A f \in Fields \ stale :
        field[f].unique => table.constraints[field[f].slug] = field[f].slug

\* No update changes both the slug and the type of a field: the transaction
\* always fails, and the admin application sends two requests
\* (fields.ts, toUpdateBodies).
OneChangeAtATime ==
    [][\A f \in FieldIds : field[f] # Nothing /\ field'[f] # Nothing =>
          field'[f].slug = field[f].slug \/ field'[f].type = field[f].type]_vars

\* The table refuses duplicates in the column of a field.
Enforced(f) == \E n \in Slugs : table.constraints[n] = field[f].slug

\* backend-notes.md: taking "unique" from a renamed field drops a constraint
\* that is not there, in silence.  So an update of one field does not take the
\* constraint of another one away.
OthersStayUnique ==
    [][\A f \in Fields : field'[f] = field[f] /\ Enforced(f) => Enforced(f)']_vars
=============================================================================
