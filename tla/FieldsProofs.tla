----------------------------- MODULE FieldsProofs -----------------------------
(***************************************************************************)
(* Theorems about Fields, for any fields, slugs, types, views and number   *)
(* of edits in flight.                                                     *)
(***************************************************************************)
EXTENDS Fields, TLAPS

-----------------------------------------------------------------------------
(* Type correctness.                                                       *)

\* The statements turn a table into a table.
LEMMA TableType ==
    ASSUME NEW t \in Tables, NEW c \in Slugs, NEW d \in Slugs, NEW col \in Columns
    PROVE  /\ AddColumn(t, c, col) \in Tables
           /\ DropColumn(t, c) \in Tables
           /\ HasColumn(t, c) => RenameColumn(t, c, d) \in Tables
           /\ AddConstraint(t, c) \in Tables
           /\ DropConstraint(t, c) \in Tables
BY DEF Tables, AddColumn, DropColumn, RenameColumn, AddConstraint, DropConstraint, HasColumn

\* So does everything an update does.
LEMMA UpdatedTableType ==
    ASSUME NEW t \in Tables, NEW f \in FieldIds, NEW old \in Rows, NEW new \in Rows,
           CanRename(Retyped(t, f, old, new), old, new)
    PROVE  Constrained(Renamed(Retyped(t, f, old, new), old, new), old, new) \in Tables
<1>1. /\ old.slug \in Slugs /\ new.slug \in Slugs
      /\ [type |-> new.type, of |-> f] \in Columns
      /\ old.unique \in BOOLEAN /\ new.unique \in BOOLEAN
    BY DEF Rows, Columns
<1>2. Retyped(t, f, old, new) \in Tables
    BY <1>1, TableType DEF Retyped
<1>3. Renamed(Retyped(t, f, old, new), old, new) \in Tables
    BY <1>1, <1>2, TableType DEF Renamed, CanRename
<1>4. QED  BY <1>1, <1>3, TableType DEF Constrained

\* A session that begins or goes on keeps its type.
LEMMA SessionType ==
    ASSUME FieldsTypeOK, NEW s \in Sessions, NEW edit \in Edits,
           session' = [session EXCEPT ![s] = edit]
    PROVE  session' \in [Sessions -> Edits]
BY DEF FieldsTypeOK

LEMMA EditTypes ==
    /\ Idle \in Edits
    /\ \A f \in FieldIds, old \in Rows, new \in Rows :
         [op |-> "update", field |-> f, old |-> old, new |-> new] \in Edits
    /\ \A f \in FieldIds, c \in Slugs :
         [op |-> "delete", field |-> f, slug |-> c] \in Edits
    /\ \A f \in FieldIds, c \in Slugs, v \in Views, seen \in SUBSET FieldIds :
         [op |-> "drop", field |-> f, slug |-> c, view |-> v, seen |-> seen] \in Edits
    /\ \A v \in Views, known \in SUBSET FieldIds :
         [op |-> "save", view |-> v, known |-> known] \in Edits
BY DEF Edits

\* What an edit in each phase holds.
LEMMA EditFields ==
    ASSUME NEW e \in Edits
    PROVE  /\ e.op = "update" => e.field \in FieldIds /\ e.old \in Rows /\ e.new \in Rows
           /\ e.op = "delete" => e.field \in FieldIds /\ e.slug \in Slugs
           /\ e.op = "drop" => /\ e.field \in FieldIds /\ e.slug \in Slugs
                               /\ e.view \in Views /\ e.seen \subseteq FieldIds
           /\ e.op = "save" => e.view \in Views /\ e.known \subseteq FieldIds
BY DEF Edits, Idle

LEMMA InitType == Init => FieldsTypeOK
BY EditTypes DEF Init, FieldsTypeOK, Tables

\* One field appears.
LEMMA CreateType ==
    ASSUME FieldsTypeOK, NEW f \in FieldIds, NEW row \in Rows, Create(f, row)
    PROVE  FieldsTypeOK'
<1> DEFINE added == AddColumn(table, row.slug, [type |-> row.type, of |-> f])
<1>1. row.slug \in Slugs /\ [type |-> row.type, of |-> f] \in Columns
    BY DEF Rows, Columns
<1>2. added \in Tables
    BY <1>1, TableType DEF FieldsTypeOK
<1>3. table' \in Tables
  <2>1. AddConstraint(added, row.slug) \in Tables
      BY <1>1, <1>2, TableType
  <2>2. QED  BY <1>2, <2>1 DEF Create
<1>4. QED  BY <1>3 DEF FieldsTypeOK, Create

LEMMA CommitUpdateType ==
    ASSUME FieldsTypeOK, NEW s \in Sessions, CommitUpdate(s)
    PROVE  FieldsTypeOK'
<1>1. session[s] \in Edits /\ session[s].op = "update"
    BY DEF FieldsTypeOK, CommitUpdate
<1>2. session[s].field \in FieldIds /\ session[s].old \in Rows /\ session[s].new \in Rows
    BY <1>1, EditFields
<1>3. table' \in Tables
    BY <1>2, UpdatedTableType DEF FieldsTypeOK, CommitUpdate
<1>4. session' \in [Sessions -> Edits]
    BY SessionType, EditTypes DEF CommitUpdate, End
<1>5. stale' \subseteq FieldIds
    BY <1>2 DEF FieldsTypeOK, CommitUpdate
<1>6. QED  BY <1>2, <1>3, <1>4, <1>5 DEF FieldsTypeOK, CommitUpdate

LEMMA CommitDeleteType ==
    ASSUME FieldsTypeOK, NEW s \in Sessions, CommitDelete(s)
    PROVE  FieldsTypeOK'
<1>1. session[s] \in Edits /\ session[s].op = "drop"
    BY DEF FieldsTypeOK, CommitDelete
<1>2. /\ session[s].field \in FieldIds /\ session[s].slug \in Slugs
      /\ session[s].view \in Views /\ session[s].seen \subseteq FieldIds
    BY <1>1, EditFields
<1>3. table' \in Tables
    BY <1>2, TableType DEF FieldsTypeOK, CommitDelete, DropColumn, Tables
<1>4. session' \in [Sessions -> Edits]
    BY SessionType, EditTypes DEF CommitDelete, End
<1>5. view' \in [Views -> SUBSET FieldIds]
    BY <1>2 DEF FieldsTypeOK, CommitDelete
<1>6. QED  BY <1>2, <1>3, <1>4, <1>5 DEF FieldsTypeOK, CommitDelete

\* An edit ends without a trace.
LEMMA AbortType ==
    ASSUME FieldsTypeOK, NEW s \in Sessions, Abort(s)
    PROVE  FieldsTypeOK'
BY SessionType, EditTypes DEF FieldsTypeOK, Abort, End

\* An edit of a field begins.
LEMMA BeginType ==
    ASSUME FieldsTypeOK, NEW s \in Sessions, NEW f \in FieldIds,
           \/ StartDelete(s, f)
           \/ \E row \in Rows : StartUpdate(s, f, row)
    PROVE  FieldsTypeOK'
<1>1. field[f] \in Rows /\ field[f].slug \in Slugs
  <2>1. field[f] \in Rows
      BY DEF FieldsTypeOK, StartDelete, StartUpdate, Begin, Fields
  <2>2. QED  BY <2>1 DEF Rows
<1>2. ASSUME NEW edit \in Edits, Begin(s, f, edit)
      PROVE  FieldsTypeOK'
    BY <1>2, SessionType DEF FieldsTypeOK, Begin
<1>3. CASE StartDelete(s, f)
  <2>1. [op |-> "delete", field |-> f, slug |-> field[f].slug] \in Edits
      BY <1>1, EditTypes
  <2>2. QED  BY <1>2, <1>3, <2>1 DEF StartDelete
<1>4. ASSUME NEW row \in Rows, StartUpdate(s, f, row)
      PROVE  FieldsTypeOK'
  <2>1. [op |-> "update", field |-> f, old |-> field[f], new |-> row] \in Edits
      BY <1>1, EditTypes
  <2>2. QED  BY <1>2, <1>4, <2>1 DEF StartUpdate
<1>5. QED  BY <1>3, <1>4

\* A view is read.
LEMMA ReadType ==
    ASSUME FieldsTypeOK, NEW s \in Sessions, NEW v \in Views,
           ReadView(s, v) \/ OpenView(s, v)
    PROVE  FieldsTypeOK'
<1>1. view[v] \in SUBSET FieldIds /\ view[v] \cup Fields \in SUBSET FieldIds
    BY DEF FieldsTypeOK, Fields
<1>2. CASE ReadView(s, v)
  <2>1. session[s] \in Edits /\ session[s].op = "delete"
      BY <1>2 DEF FieldsTypeOK, ReadView
  <2>2. session[s].field \in FieldIds /\ session[s].slug \in Slugs
      BY <2>1, EditFields
  <2>3. [op |-> "drop", field |-> session[s].field, slug |-> session[s].slug,
         view |-> v, seen |-> view[v]] \in Edits
      BY <1>1, <2>2, EditTypes
  <2>4. session' \in [Sessions -> Edits]
      BY <1>2, <2>3, SessionType DEF ReadView
  <2>5. QED  BY <1>2, <2>4 DEF FieldsTypeOK, ReadView
<1>3. CASE OpenView(s, v)
  <2>1. [op |-> "save", view |-> v, known |-> view[v] \cup Fields] \in Edits
      BY <1>1, EditTypes
  <2>2. session' \in [Sessions -> Edits]
      BY <1>3, <2>1, SessionType DEF OpenView
  <2>3. QED  BY <1>3, <2>2 DEF FieldsTypeOK, OpenView
<1>4. QED  BY <1>2, <1>3

\* A view is written.
LEMMA SaveType ==
    ASSUME FieldsTypeOK, NEW s \in Sessions, NEW shown \in SUBSET FieldIds,
           SaveView(s, shown)
    PROVE  FieldsTypeOK'
<1>1. session' \in [Sessions -> Edits]
    BY SessionType, EditTypes DEF SaveView, End
<1>2. QED  BY <1>1 DEF FieldsTypeOK, SaveView

LEMMA NextType ==
    ASSUME FieldsTypeOK, [Next]_vars
    PROVE  FieldsTypeOK'
<1>1. CASE UNCHANGED vars
    BY <1>1 DEF FieldsTypeOK, vars
<1>2. CASE \E f \in FieldIds, row \in Rows : Create(f, row)
    BY <1>2, CreateType
<1>3. CASE \E s \in Sessions : Abort(s) \/ CommitUpdate(s) \/ CommitDelete(s)
    BY <1>3, AbortType, CommitUpdateType, CommitDeleteType
<1>4. CASE \E s \in Sessions : \E f \in FieldIds :
              StartDelete(s, f) \/ \E row \in Rows : StartUpdate(s, f, row)
    BY <1>4, BeginType
<1>5. CASE \E s \in Sessions : \E v \in Views : ReadView(s, v) \/ OpenView(s, v)
    BY <1>5, ReadType
<1>6. CASE \E s \in Sessions : \E shown \in SUBSET FieldIds : SaveView(s, shown)
    BY <1>6, SaveType
<1>7. QED  BY <1>1, <1>2, <1>3, <1>4, <1>5, <1>6 DEF Next

\* Every variable keeps its type.
THEOREM FieldsTypeCorrect == Spec => []FieldsTypeOK
<1>1. Init => FieldsTypeOK
    BY InitType
<1>2. FieldsTypeOK /\ [Next]_vars => FieldsTypeOK'
    BY NextType
<1>3. QED  BY <1>1, <1>2, PTL DEF Spec

-----------------------------------------------------------------------------
(* The catalogue and the table.                                            *)

\* What an edit in flight holds is still so.
ReadsHold ==
    \A s \in Sessions, f \in FieldIds :
        Editing(s, f) =>
            /\ f \in Fields
            /\ session[s].op = "update" => session[s].old = field[f]
            /\ session[s].op # "update" => session[s].slug = field[f].slug

\* No other edit of the same field is in flight.
Alone ==
    \A s, other \in Sessions, f \in FieldIds :
        Editing(s, f) /\ Editing(other, f) => s = other

\* CatalogueMatchesTable says nothing of the edits in flight, which will
\* change the table by what they hold; so it is not inductive by itself.
AgreeInv ==
    /\ Fields \subseteq spent
    /\ CatalogueMatchesTable
    /\ ReadsHold
    /\ Alone

\* Two fields have different slugs: one column cannot be both of theirs.
LEMMA SlugsDiffer ==
    ASSUME CatalogueMatchesTable, NEW f \in Fields, NEW g \in Fields, f # g
    PROVE  field[f].slug # field[g].slug
<1>1. ColumnOf(f).of = f /\ ColumnOf(g).of = g
    BY DEF CatalogueMatchesTable
<1>2. QED  BY <1>1 DEF ColumnOf

\* A field cannot be retyped and renamed at once: the column is dropped by the
\* first, and is not there for the second.
LEMMA OneThing ==
    ASSUME NEW t \in Tables, NEW f \in FieldIds, NEW old \in Rows, NEW new \in Rows,
           CanRename(Retyped(t, f, old, new), old, new)
    PROVE  old.slug = new.slug \/ old.type = new.type
<1>1. old.slug \in Slugs /\ new.slug \in Slugs
    BY DEF Rows
<1>2. t.columns \in [Slugs -> Columns \cup {Nothing}]
    BY DEF Tables
<1>3. SUFFICES ASSUME old.slug # new.slug, old.type # new.type PROVE FALSE
    OBVIOUS
<1>4. Retyped(t, f, old, new).columns =
        [[t.columns EXCEPT ![old.slug] = Nothing]
           EXCEPT ![new.slug] = [type |-> new.type, of |-> f]]
    BY <1>3 DEF Retyped, AddColumn, DropColumn
<1>5. Retyped(t, f, old, new).columns[old.slug] = Nothing
    BY <1>1, <1>2, <1>3, <1>4
<1>6. QED  BY <1>3, <1>5 DEF CanRename, HasColumn

\* An update that is not refused leaves the field with one column: the one it
\* is to have.
LEMMA UpdatedColumns ==
    ASSUME NEW t \in Tables, NEW f \in FieldIds, NEW old \in Rows, NEW new \in Rows,
           CanRetype(t, old, new), CanRename(Retyped(t, f, old, new), old, new),
           t.columns[old.slug] = [type |-> old.type, of |-> f]
    PROVE  Constrained(Renamed(Retyped(t, f, old, new), old, new), old, new).columns =
             [c \in Slugs |-> IF c = new.slug THEN [type |-> new.type, of |-> f]
                             ELSE IF c = old.slug THEN Nothing ELSE t.columns[c]]
<1> DEFINE retyped == Retyped(t, f, old, new)
           renamed == Renamed(retyped, old, new)
           after == [c \in Slugs |-> IF c = new.slug THEN [type |-> new.type, of |-> f]
                                    ELSE IF c = old.slug THEN Nothing ELSE t.columns[c]]
<1>1. old.slug \in Slugs /\ new.slug \in Slugs /\ old.type \in Types /\ new.type \in Types
    BY DEF Rows
<1>2. t.columns \in [Slugs -> Columns \cup {Nothing}]
    BY DEF Tables
<1>3. old.type # new.type => retyped.columns =
        [[t.columns EXCEPT ![old.slug] = Nothing]
           EXCEPT ![new.slug] = [type |-> new.type, of |-> f]]
    BY DEF Retyped, AddColumn, DropColumn
<1>4. old.slug = new.slug \/ old.type = new.type
    BY OneThing
<1>5. renamed.columns = after
  <2>1. CASE old.slug = new.slug /\ old.type = new.type
    <3>1. renamed = t
        BY <2>1 DEF Renamed, Retyped
    <3>2. t.columns = after
        BY <1>1, <1>2, <2>1
    <3>3. QED  BY <3>1, <3>2
  <2>2. CASE old.slug = new.slug /\ old.type # new.type
    <3>1. renamed = retyped
        BY <2>2 DEF Renamed
    <3>2. retyped.columns = after
        BY <1>1, <1>2, <1>3, <2>2
    <3>3. QED  BY <3>1, <3>2
  <2>3. CASE old.slug # new.slug /\ old.type = new.type
    <3>1. renamed.columns =
            [t.columns EXCEPT ![new.slug] = t.columns[old.slug], ![old.slug] = Nothing]
        BY <2>3 DEF Renamed, Retyped, RenameColumn
    <3>2. QED  BY <1>1, <1>2, <2>3, <3>1
  <2>4. QED  BY <1>4, <2>1, <2>2, <2>3
<1>6. Constrained(renamed, old, new).columns = renamed.columns
    BY DEF Constrained, AddConstraint, DropConstraint
<1>7. QED  BY <1>5, <1>6

LEMMA InitAgrees == Init => AgreeInv
<1>1. ASSUME Init PROVE Fields = {} /\ \A s \in Sessions, f \in FieldIds : ~Editing(s, f)
    BY <1>1 DEF Init, Fields, Editing, Idle
<1>2. ASSUME Init PROVE CatalogueMatchesTable
    BY <1>1, <1>2 DEF Init, CatalogueMatchesTable, HasColumn
<1>3. QED  BY <1>1, <1>2 DEF AgreeInv, ReadsHold, Alone

\* A field that appears has a column of its own.
LEMMA CreateAgrees ==
    ASSUME FieldsTypeOK, AgreeInv, NEW f \in FieldIds, NEW row \in Rows, Create(f, row)
    PROVE  AgreeInv'
<1> DEFINE col == [type |-> row.type, of |-> f]
<1>1. row.slug \in Slugs /\ col \in Columns /\ f \notin Fields
    BY DEF Rows, Columns, AgreeInv, Create
<1>2. field' = [field EXCEPT ![f] = row] /\ Fields' = Fields \cup {f}
    BY <1>1, NothingAssumption DEF FieldsTypeOK, Create, Fields
<1>3. table'.columns = [table.columns EXCEPT ![row.slug] = col]
    BY DEF Create, AddColumn, AddConstraint
<1>4. table.columns \in [Slugs -> Columns \cup {Nothing}] /\ table.columns[row.slug] = Nothing
    BY DEF FieldsTypeOK, Tables, Create, HasColumn
<1>5. \A g \in Fields : field'[g] = field[g] /\ field[g] \in Rows
                        /\ field[g].slug # row.slug /\ field[g].slug \in Slugs
    BY <1>1, <1>2 DEF FieldsTypeOK, Create, Fields, Rows
<1>6. CatalogueMatchesTable'
  <2>1. ASSUME NEW g \in Fields' PROVE ColumnOf(g)' = [type |-> field'[g].type, of |-> g]
    <3>1. CASE g = f
        BY <1>1, <1>2, <1>3, <1>4, <3>1 DEF ColumnOf, FieldsTypeOK
    <3>2. CASE g \in Fields
        BY <1>1, <1>3, <1>4, <1>5, <3>2 DEF ColumnOf, AgreeInv, CatalogueMatchesTable
    <3>3. QED  BY <1>2, <2>1, <3>1, <3>2
  <2>2. ASSUME NEW c \in Slugs, HasColumn(table, c)'
        PROVE  \E g \in Fields' : field'[g].slug = c
    <3>1. CASE c = row.slug
        BY <1>2, <3>1 DEF FieldsTypeOK
    <3>2. CASE c # row.slug
      <4>1. HasColumn(table, c)
          BY <1>3, <1>4, <2>2, <3>2 DEF HasColumn
      <4>2. QED  BY <1>2, <1>5, <4>1 DEF AgreeInv, CatalogueMatchesTable
    <3>3. QED  BY <3>1, <3>2
  <2>3. QED  BY <2>1, <2>2 DEF CatalogueMatchesTable
<1>7. ReadsHold' /\ Alone'
  <2>1. \A s \in Sessions, g \in FieldIds : Editing(s, g)' <=> Editing(s, g)
      BY DEF Editing, Create
  <2>2. \A s \in Sessions, g \in FieldIds :
          Editing(s, g) => g \in Fields /\ field'[g] = field[g] /\ session'[s] = session[s]
      BY <1>5 DEF AgreeInv, ReadsHold, Create
  <2>3. ReadsHold'
      BY <1>2, <2>1, <2>2 DEF AgreeInv, ReadsHold
  <2>4. Alone'
      BY <2>1 DEF AgreeInv, Alone
  <2>5. QED  BY <2>3, <2>4
<1>8. QED  BY <1>2, <1>6, <1>7 DEF AgreeInv, Create

\* An edit that ends, without another one beginning, leaves the others.
LEMMA EndKeepsOthers ==
    ASSUME FieldsTypeOK, NEW s \in Sessions, End(s)
    PROVE  \A other \in Sessions, f \in FieldIds :
             Editing(other, f)' <=> other # s /\ Editing(other, f)
BY DEF FieldsTypeOK, End, Editing, Idle

\* The field an update is for has the column it is to have, and no other
\* edit has read it.
LEMMA CommitUpdateAgrees ==
    ASSUME FieldsTypeOK, AgreeInv, NEW s \in Sessions, CommitUpdate(s)
    PROVE  AgreeInv'
<1> DEFINE f == session[s].field
           old == session[s].old
           new == session[s].new
           col == [type |-> new.type, of |-> f]
<1>1. f \in FieldIds /\ old \in Rows /\ new \in Rows /\ f \in Fields
      /\ session[s].op = "update" /\ Editing(s, f)
    BY EditFields DEF FieldsTypeOK, CommitUpdate, Editing
<1>2. old = field[f]
    BY <1>1 DEF AgreeInv, ReadsHold
<1>3. table.columns[old.slug] = [type |-> old.type, of |-> f]
    BY <1>1, <1>2 DEF AgreeInv, CatalogueMatchesTable, ColumnOf
<1>4. table'.columns = [c \in Slugs |-> IF c = new.slug THEN col
                                       ELSE IF c = old.slug THEN Nothing ELSE table.columns[c]]
    BY <1>1, <1>3, UpdatedColumns DEF FieldsTypeOK, CommitUpdate
<1>5. field' = [field EXCEPT ![f] = new] /\ Fields' = Fields
  <2>1. new # Nothing
      BY <1>1, NothingAssumption
  <2>2. QED  BY <1>1, <2>1 DEF FieldsTypeOK, CommitUpdate, Fields
<1>6. \A g \in Fields \ {f} : /\ field'[g] = field[g] /\ field[g].slug \in Slugs
                              /\ field[g].slug # new.slug /\ field[g].slug # old.slug
  <2>1. ASSUME NEW g \in Fields \ {f} PROVE field[g].slug # old.slug
      BY <1>1, <1>2, SlugsDiffer DEF AgreeInv
  <2>2. QED  BY <1>5, <2>1 DEF FieldsTypeOK, CommitUpdate, Fields, Rows
<1>7. new.slug \in Slugs /\ old.slug \in Slugs /\ col \in Columns
    BY <1>1 DEF Rows, Columns
<1>8. CatalogueMatchesTable'
  <2>1. ASSUME NEW g \in Fields' PROVE ColumnOf(g)' = [type |-> field'[g].type, of |-> g]
    <3>1. CASE g = f
        BY <1>1, <1>4, <1>5, <1>7, <3>1 DEF ColumnOf, FieldsTypeOK
    <3>2. CASE g \in Fields \ {f}
        BY <1>4, <1>6, <3>2 DEF ColumnOf, AgreeInv, CatalogueMatchesTable
    <3>3. QED  BY <1>5, <2>1, <3>1, <3>2
  <2>2. ASSUME NEW c \in Slugs, HasColumn(table, c)'
        PROVE  \E g \in Fields' : field'[g].slug = c
    <3>1. CASE c = new.slug
        BY <1>1, <1>5, <3>1 DEF FieldsTypeOK
    <3>2. CASE c # new.slug
      <4>1. c # old.slug /\ HasColumn(table, c)
          BY <1>4, <2>2, <3>2 DEF HasColumn
      <4>2. PICK g \in Fields : field[g].slug = c
          BY <4>1 DEF AgreeInv, CatalogueMatchesTable
      <4>3. g # f
          BY <1>2, <4>1, <4>2
      <4>4. QED  BY <1>5, <1>6, <4>2, <4>3
    <3>3. QED  BY <3>1, <3>2
  <2>3. QED  BY <2>1, <2>2 DEF CatalogueMatchesTable
<1>9. ReadsHold' /\ Alone'
  <2>1. \A other \in Sessions, g \in FieldIds :
          Editing(other, g)' => /\ other # s /\ Editing(other, g) /\ g # f
                                /\ session'[other] = session[other]
    <3>1. End(s)
        BY DEF CommitUpdate
    <3>2. TAKE other \in Sessions, g \in FieldIds
    <3>3. HAVE Editing(other, g)'
    <3>4. other # s /\ Editing(other, g)
        BY <3>1, <3>3, EndKeepsOthers
    <3>5. g # f
        BY <1>1, <3>4 DEF AgreeInv, Alone
    <3>6. session'[other] = session[other]
        BY <3>1, <3>4 DEF End, FieldsTypeOK
    <3>7. QED  BY <3>4, <3>5, <3>6
  <2>2. \A g \in FieldIds \ {f} : field'[g] = field[g]
      BY <1>5 DEF FieldsTypeOK
  <2>3. ReadsHold'
      BY <1>5, <2>1, <2>2 DEF AgreeInv, ReadsHold
  <2>4. Alone'
      BY <2>1 DEF AgreeInv, Alone
  <2>5. QED  BY <2>3, <2>4
<1>10. QED  BY <1>5, <1>8, <1>9 DEF AgreeInv, CommitUpdate

\* A deleted field takes its column, and no other edit has read it.
LEMMA CommitDeleteAgrees ==
    ASSUME FieldsTypeOK, AgreeInv, NEW s \in Sessions, CommitDelete(s)
    PROVE  AgreeInv'
<1> DEFINE f == session[s].field
           slug == session[s].slug
<1>1. f \in FieldIds /\ f \in Fields /\ slug \in Slugs /\ Editing(s, f)
  <2>1. session[s] \in Edits /\ session[s].op = "drop"
      BY DEF FieldsTypeOK, CommitDelete
  <2>2. f \in FieldIds /\ slug \in Slugs /\ Editing(s, f)
      BY <2>1, EditFields DEF Editing
  <2>3. QED  BY <2>2 DEF AgreeInv, ReadsHold
<1>2. slug = field[f].slug
    BY <1>1 DEF AgreeInv, ReadsHold, CommitDelete
<1>3. field' = [field EXCEPT ![f] = Nothing] /\ Fields' = Fields \ {f}
    BY <1>1 DEF FieldsTypeOK, CommitDelete, Fields
<1>4. table'.columns = [table.columns EXCEPT ![slug] = Nothing]
    BY DEF CommitDelete, DropColumn
<1>5. \A g \in Fields \ {f} : /\ field'[g] = field[g]
                              /\ field[g].slug \in Slugs /\ field[g].slug # slug
  <2>1. ASSUME NEW g \in Fields \ {f} PROVE field[g].slug # slug
      BY <1>1, <1>2, SlugsDiffer DEF AgreeInv
  <2>2. QED  BY <1>3, <2>1 DEF FieldsTypeOK, Fields, Rows
<1>6. table.columns \in [Slugs -> Columns \cup {Nothing}]
    BY DEF FieldsTypeOK, Tables
<1>7. CatalogueMatchesTable'
  <2>1. ASSUME NEW g \in Fields' PROVE ColumnOf(g)' = [type |-> field'[g].type, of |-> g]
      BY <1>3, <1>4, <1>5, <1>6 DEF ColumnOf, AgreeInv, CatalogueMatchesTable
  <2>2. ASSUME NEW c \in Slugs, HasColumn(table, c)'
        PROVE  \E g \in Fields' : field'[g].slug = c
    <3>1. c # slug /\ HasColumn(table, c)
        BY <1>4, <1>6, <2>2 DEF HasColumn
    <3>2. PICK g \in Fields : field[g].slug = c
        BY <3>1 DEF AgreeInv, CatalogueMatchesTable
    <3>3. QED  BY <1>2, <1>3, <1>5, <3>1, <3>2
  <2>3. QED  BY <2>1, <2>2 DEF CatalogueMatchesTable
<1>8. ReadsHold' /\ Alone'
  <2>1. \A other \in Sessions, g \in FieldIds :
          Editing(other, g)' => /\ other # s /\ Editing(other, g) /\ g # f
                                /\ session'[other] = session[other]
    <3>1. End(s)
        BY DEF CommitDelete
    <3>2. TAKE other \in Sessions, g \in FieldIds
    <3>3. HAVE Editing(other, g)'
    <3>4. other # s /\ Editing(other, g)
        BY <3>1, <3>3, EndKeepsOthers
    <3>5. g # f
        BY <1>1, <3>4 DEF AgreeInv, Alone
    <3>6. session'[other] = session[other]
        BY <3>1, <3>4 DEF End, FieldsTypeOK
    <3>7. QED  BY <3>4, <3>5, <3>6
  <2>2. \A g \in FieldIds \ {f} : field'[g] = field[g]
      BY <1>3 DEF FieldsTypeOK
  <2>3. ReadsHold'
      BY <1>3, <2>1, <2>2 DEF AgreeInv, ReadsHold
  <2>4. Alone'
      BY <2>1 DEF AgreeInv, Alone
  <2>5. QED  BY <2>3, <2>4
<1>9. QED  BY <1>3, <1>7, <1>8 DEF AgreeInv, CommitDelete

\* An edit that begins has just read the field, and is the only one of it.
LEMMA BeginAgrees ==
    ASSUME FieldsTypeOK, AgreeInv, ~Overlapping, NEW s \in Sessions, NEW f \in FieldIds,
           NEW edit, edit.op \in {"update", "delete"}, edit.field = f,
           edit.op = "update" => edit.old = field[f],
           edit.op = "delete" => edit.slug = field[f].slug,
           Begin(s, f, edit)
    PROVE  AgreeInv'
<1>1. /\ session'[s] = edit
      /\ \A other \in Sessions \ {s} : session'[other] = session[other]
    BY DEF FieldsTypeOK, Begin
<1>2. UNCHANGED <<field, table, spent>> /\ f \in Fields
      /\ \A other \in Sessions : ~Editing(other, f)
    BY DEF Begin
<1>3. CatalogueMatchesTable' /\ Fields' = Fields
    BY <1>2 DEF AgreeInv, CatalogueMatchesTable, Fields, ColumnOf, HasColumn
<1>4. \A other \in Sessions, g \in FieldIds :
        Editing(other, g)' <=> IF other = s THEN g = f ELSE Editing(other, g)
    BY <1>1 DEF Editing
<1>5. ReadsHold'
  <2>1. ASSUME NEW other \in Sessions, NEW g \in FieldIds, Editing(other, g)'
        PROVE  /\ g \in Fields'
               /\ session'[other].op = "update" => session'[other].old = field'[g]
               /\ session'[other].op # "update" => session'[other].slug = field'[g].slug
    <3>1. CASE other = s
        BY <1>1, <1>2, <1>3, <1>4, <2>1, <3>1
    <3>2. CASE other # s
        BY <1>1, <1>2, <1>3, <1>4, <2>1, <3>2 DEF AgreeInv, ReadsHold
    <3>3. QED  BY <3>1, <3>2
  <2>2. QED  BY <2>1 DEF ReadsHold
<1>6. Alone'
    BY <1>2, <1>4 DEF AgreeInv, Alone
<1>7. QED  BY <1>2, <1>3, <1>5, <1>6 DEF AgreeInv

\* The other steps touch neither the catalogue nor the table, and no edit of a
\* field holds more afterwards than it did before.
LEMMA OthersAgree ==
    ASSUME FieldsTypeOK, AgreeInv, UNCHANGED <<field, table, spent>>,
           \A s \in Sessions, f \in FieldIds : Editing(s, f)' => Editing(s, f),
           \A s \in Sessions, f \in FieldIds : Editing(s, f)' =>
               \/ session'[s] = session[s]
               \/ /\ session[s].op = "delete" /\ session'[s].op # "update"
                  /\ session'[s].slug = session[s].slug
    PROVE  AgreeInv'
<1>1. CatalogueMatchesTable' /\ Fields' = Fields
    BY DEF AgreeInv, CatalogueMatchesTable, Fields, ColumnOf, HasColumn
<1>2. ReadsHold'
  <2>1. ASSUME NEW s \in Sessions, NEW f \in FieldIds, Editing(s, f)'
        PROVE  /\ f \in Fields'
               /\ session'[s].op = "update" => session'[s].old = field'[f]
               /\ session'[s].op # "update" => session'[s].slug = field'[f].slug
    <3>1. Editing(s, f)
        BY <2>1
    <3>2. CASE session'[s] = session[s]
        BY <1>1, <3>1, <3>2 DEF AgreeInv, ReadsHold
    <3>3. CASE session[s].op = "delete" /\ session'[s].op # "update"
               /\ session'[s].slug = session[s].slug
        BY <1>1, <3>1, <3>3 DEF AgreeInv, ReadsHold
    <3>4. QED  BY <2>1, <3>2, <3>3
  <2>2. QED  BY <2>1 DEF ReadsHold
<1>3. Alone'
    BY DEF AgreeInv, Alone
<1>4. QED  BY <1>1, <1>2, <1>3 DEF AgreeInv

LEMMA EndAgrees ==
    ASSUME FieldsTypeOK, AgreeInv, NEW s \in Sessions, End(s),
           UNCHANGED <<field, table, spent>>
    PROVE  AgreeInv'
<1>1. \A other \in Sessions, f \in FieldIds :
        Editing(other, f)' => other # s /\ Editing(other, f)
    BY EndKeepsOthers
<1>2. \A other \in Sessions : other # s => session'[other] = session[other]
    BY DEF FieldsTypeOK, End
<1>3. QED  BY <1>1, <1>2, OthersAgree

LEMMA ReadAgrees ==
    ASSUME FieldsTypeOK, AgreeInv, NEW s \in Sessions, NEW v \in Views, ReadView(s, v)
    PROVE  AgreeInv'
<1>1. /\ session[s].op = "delete" /\ session'[s].op = "drop"
      /\ session'[s].field = session[s].field /\ session'[s].slug = session[s].slug
      /\ \A other \in Sessions \ {s} : session'[other] = session[other]
    BY DEF FieldsTypeOK, ReadView
<1>2. ASSUME NEW other \in Sessions, NEW f \in FieldIds, Editing(other, f)'
      PROVE  /\ Editing(other, f)
             /\ \/ session'[other] = session[other]
                \/ /\ session[other].op = "delete" /\ session'[other].op # "update"
                   /\ session'[other].slug = session[other].slug
  <2>1. CASE other = s
      BY <1>1, <1>2, <2>1 DEF Editing
  <2>2. CASE other # s
      BY <1>1, <1>2, <2>2 DEF Editing
  <2>3. QED  BY <2>1, <2>2
<1>3. UNCHANGED <<field, table, spent>>
    BY DEF ReadView
<1>4. QED  BY <1>2, <1>3, OthersAgree

LEMMA OpenAgrees ==
    ASSUME FieldsTypeOK, AgreeInv, NEW s \in Sessions, NEW v \in Views, OpenView(s, v)
    PROVE  AgreeInv'
<1>1. /\ session'[s].op = "save"
      /\ \A other \in Sessions \ {s} : session'[other] = session[other]
    BY DEF FieldsTypeOK, OpenView
<1>2. ASSUME NEW other \in Sessions, NEW f \in FieldIds, Editing(other, f)'
      PROVE  Editing(other, f) /\ session'[other] = session[other]
  <2>1. other # s
      BY <1>1, <1>2 DEF Editing
  <2>2. QED  BY <1>1, <1>2, <2>1 DEF Editing
<1>3. UNCHANGED <<field, table, spent>>
    BY DEF OpenView
<1>4. QED  BY <1>2, <1>3, OthersAgree

\* Alone holds because edits of one field do not overlap.
LEMMA NextAgrees ==
    ASSUME FieldsTypeOK, AgreeInv, ~Overlapping, [Next]_vars
    PROVE  AgreeInv'
<1>1. CASE UNCHANGED vars
    BY <1>1, OthersAgree DEF vars, Editing
<1>2. ASSUME NEW f \in FieldIds, NEW row \in Rows, Create(f, row) PROVE AgreeInv'
    BY <1>2, CreateAgrees
<1>3. ASSUME NEW s \in Sessions, CommitUpdate(s) PROVE AgreeInv'
    BY <1>3, CommitUpdateAgrees
<1>4. ASSUME NEW s \in Sessions, CommitDelete(s) PROVE AgreeInv'
    BY <1>4, CommitDeleteAgrees
<1>5. ASSUME NEW s \in Sessions, NEW f \in FieldIds, StartDelete(s, f) PROVE AgreeInv'
  <2> DEFINE edit == [op |-> "delete", field |-> f, slug |-> field[f].slug]
  <2>1. Begin(s, f, edit)
      BY <1>5 DEF StartDelete
  <2>2. edit.op = "delete" /\ edit.field = f /\ edit.slug = field[f].slug
      OBVIOUS
  <2> HIDE DEF edit
  <2>3. QED  BY <2>1, <2>2, BeginAgrees
<1>6. ASSUME NEW s \in Sessions, NEW f \in FieldIds, NEW row \in Rows, StartUpdate(s, f, row)
      PROVE  AgreeInv'
  <2> DEFINE edit == [op |-> "update", field |-> f, old |-> field[f], new |-> row]
  <2>1. Begin(s, f, edit)
      BY <1>6 DEF StartUpdate
  <2>2. edit.op = "update" /\ edit.field = f /\ edit.old = field[f]
      OBVIOUS
  <2> HIDE DEF edit
  <2>3. QED  BY <2>1, <2>2, BeginAgrees
<1>7. ASSUME NEW s \in Sessions, Abort(s) PROVE AgreeInv'
    BY <1>7, EndAgrees DEF Abort
<1>8. ASSUME NEW s \in Sessions, NEW v \in Views, ReadView(s, v) PROVE AgreeInv'
    BY <1>8, ReadAgrees
<1>9. ASSUME NEW s \in Sessions, NEW v \in Views, OpenView(s, v) PROVE AgreeInv'
    BY <1>9, OpenAgrees
<1>10. ASSUME NEW s \in Sessions, NEW shown \in SUBSET FieldIds, SaveView(s, shown)
       PROVE  AgreeInv'
    BY <1>10, EndAgrees DEF SaveView
<1>11. QED
    BY <1>1, <1>2, <1>3, <1>4, <1>5, <1>6, <1>7, <1>8, <1>9, <1>10 DEF Next

\* A field's slug is the name of its column, as long as edits of one field do
\* not overlap.
THEOREM CatalogueAgrees == ~Overlapping => (Spec => []CatalogueMatchesTable)
<1> SUFFICES ASSUME ~Overlapping PROVE Spec => []CatalogueMatchesTable
    OBVIOUS
<1>1. Init => FieldsTypeOK /\ AgreeInv
    BY InitType, InitAgrees
<1>2. FieldsTypeOK /\ AgreeInv /\ [Next]_vars => (FieldsTypeOK /\ AgreeInv)'
    BY NextType, NextAgrees
<1>3. AgreeInv => CatalogueMatchesTable
    BY DEF AgreeInv
<1>4. QED  BY <1>1, <1>2, <1>3, PTL DEF Spec

\* Only an update that commits changes a field that stays, and CanRetype and
\* CanRename leave it one thing to change.
LEMMA OneChange ==
    ASSUME FieldsTypeOK, AgreeInv, [Next]_vars
    PROVE  \A f \in FieldIds : field[f] # Nothing /\ field'[f] # Nothing =>
               field'[f].slug = field[f].slug \/ field'[f].type = field[f].type
<1> DEFINE One == \A f \in FieldIds : field[f] # Nothing /\ field'[f] # Nothing =>
                      field'[f].slug = field[f].slug \/ field'[f].type = field[f].type
<1>1. CASE UNCHANGED field
    BY <1>1
<1>2. ASSUME NEW f \in FieldIds, NEW row \in Rows, Create(f, row) PROVE One
  <2>1. field' = [field EXCEPT ![f] = row] /\ f \notin Fields
      BY <1>2 DEF AgreeInv, Create
  <2>2. QED  BY <2>1 DEF FieldsTypeOK, Fields
<1>3. ASSUME NEW s \in Sessions, CommitUpdate(s) PROVE One
  <2> DEFINE f == session[s].field
             old == session[s].old
             new == session[s].new
  <2>1. f \in FieldIds /\ old \in Rows /\ new \in Rows /\ f \in Fields
        /\ session[s].op = "update" /\ Editing(s, f)
      BY <1>3, EditFields DEF FieldsTypeOK, CommitUpdate, Editing
  <2>2. old = field[f]
      BY <2>1 DEF AgreeInv, ReadsHold
  <2>3. old.slug = new.slug \/ old.type = new.type
    <3>1. CanRename(Retyped(table, f, old, new), old, new)
        BY <1>3 DEF CommitUpdate
    <3>2. table \in Tables
        BY DEF FieldsTypeOK
    <3>3. QED  BY <2>1, <3>1, <3>2, OneThing
  <2>4. field' = [field EXCEPT ![f] = new]
      BY <1>3 DEF CommitUpdate
  <2>5. QED  BY <2>1, <2>2, <2>3, <2>4 DEF FieldsTypeOK
<1>4. ASSUME NEW s \in Sessions, CommitDelete(s) PROVE One
  <2>1. field' = [field EXCEPT ![session[s].field] = Nothing]
      BY <1>4 DEF CommitDelete
  <2>2. QED  BY <2>1 DEF FieldsTypeOK
<1>5. \/ UNCHANGED field
      \/ \E f \in FieldIds, row \in Rows : Create(f, row)
      \/ \E s \in Sessions : CommitUpdate(s) \/ CommitDelete(s)
    BY DEF Next, vars, Abort, StartDelete, StartUpdate, Begin, ReadView, OpenView, SaveView
<1>6. QED  BY <1>1, <1>2, <1>3, <1>4, <1>5

\* No update of a field changes both its slug and its type.
THEOREM OneChangeOnly == ~Overlapping => (Spec => OneChangeAtATime)
<1> SUFFICES ASSUME ~Overlapping PROVE Spec => OneChangeAtATime
    OBVIOUS
<1> DEFINE One == \A f \in FieldIds : field[f] # Nothing /\ field'[f] # Nothing =>
                      field'[f].slug = field[f].slug \/ field'[f].type = field[f].type
<1>1. Init => FieldsTypeOK /\ AgreeInv
    BY InitType, InitAgrees
<1>2. FieldsTypeOK /\ AgreeInv /\ [Next]_vars => (FieldsTypeOK /\ AgreeInv)'
    BY NextType, NextAgrees
<1>3. FieldsTypeOK /\ AgreeInv /\ [Next]_vars => [One]_vars
    BY OneChange
<1>4. QED  BY <1>1, <1>2, <1>3, PTL DEF Spec, OneChangeAtATime

-----------------------------------------------------------------------------
(* Unique fields.                                                          *)

\* A constraint under the name of a column that an update neither reads nor
\* writes stays on that column.
LEMMA KeptConstraint ==
    ASSUME NEW t \in Tables, NEW f \in FieldIds, NEW old \in Rows, NEW new \in Rows,
           NEW c \in Slugs, c # old.slug, c # new.slug, t.constraints[c] = c
    PROVE  Constrained(Renamed(Retyped(t, f, old, new), old, new), old, new).constraints[c] = c
<1> DEFINE retyped == Retyped(t, f, old, new)
           renamed == Renamed(retyped, old, new)
<1>1. t.constraints \in [Slugs -> Slugs \cup {Nothing}] /\ old.slug \in Slugs /\ new.slug \in Slugs
    BY DEF Tables, Rows
<1>2. retyped.constraints \in [Slugs -> Slugs \cup {Nothing}] /\ retyped.constraints[c] = c
    BY <1>1 DEF Retyped, AddColumn, DropColumn
<1>3. renamed.constraints \in [Slugs -> Slugs \cup {Nothing}] /\ renamed.constraints[c] = c
    BY <1>1, <1>2 DEF Renamed, RenameColumn
<1>4. QED  BY <1>1, <1>3 DEF Constrained, AddConstraint, DropConstraint

LEMMA CreateKeepsUnique ==
    ASSUME FieldsTypeOK, AgreeInv, UniqueUnlessStale,
           NEW f \in FieldIds, NEW row \in Rows, Create(f, row)
    PROVE  UniqueUnlessStale'
<1>1. field' = [field EXCEPT ![f] = row] /\ Fields' = Fields \cup {f} /\ stale' = stale
      /\ f \notin Fields
    BY NothingAssumption DEF FieldsTypeOK, AgreeInv, Create, Fields
<1>2. table.constraints \in [Slugs -> Slugs \cup {Nothing}] /\ row.slug \in Slugs
    BY DEF FieldsTypeOK, Tables, Rows
<1>3. table'.constraints = IF row.unique THEN [table.constraints EXCEPT ![row.slug] = row.slug]
                           ELSE table.constraints
    BY DEF Create, AddColumn, AddConstraint
<1>4. ASSUME NEW g \in Fields' \ stale', field'[g].unique
      PROVE  table'.constraints[field'[g].slug] = field'[g].slug
  <2>1. CASE g = f
      BY <1>1, <1>2, <1>3, <1>4, <2>1 DEF FieldsTypeOK
  <2>2. CASE g # f
    <3>1. g \in Fields \ stale /\ field'[g] = field[g]
          /\ field[g].slug # row.slug /\ field[g].slug \in Slugs
        BY <1>1, <1>4, <2>2 DEF FieldsTypeOK, Create, Fields, Rows
    <3>2. QED  BY <1>2, <1>3, <1>4, <3>1 DEF UniqueUnlessStale
  <2>3. QED  BY <2>1, <2>2
<1>5. QED  BY <1>4 DEF UniqueUnlessStale

LEMMA CommitUpdateKeepsUnique ==
    ASSUME FieldsTypeOK, AgreeInv, UniqueUnlessStale, NEW s \in Sessions, CommitUpdate(s)
    PROVE  UniqueUnlessStale'
<1> DEFINE f == session[s].field
           old == session[s].old
           new == session[s].new
           after == Constrained(Renamed(Retyped(table, f, old, new), old, new), old, new)
<1>1. f \in FieldIds /\ old \in Rows /\ new \in Rows /\ f \in Fields
      /\ session[s].op = "update" /\ Editing(s, f)
    BY EditFields DEF FieldsTypeOK, CommitUpdate, Editing
<1>2. old = field[f]
    BY <1>1 DEF AgreeInv, ReadsHold
<1>3. field' = [field EXCEPT ![f] = new] /\ Fields' = Fields /\ table' = after
  <2>1. new # Nothing
      BY <1>1, NothingAssumption
  <2>2. QED  BY <1>1, <2>1 DEF FieldsTypeOK, CommitUpdate, Fields
<1>4. stale' = IF old.unique /\ new.unique
               THEN stale \cup {g \in {f} : old.slug # new.slug \/ old.type # new.type}
               ELSE stale \ {f}
    BY DEF CommitUpdate
<1>5. table \in Tables /\ table.constraints \in [Slugs -> Slugs \cup {Nothing}]
      /\ old.slug \in Slugs /\ new.slug \in Slugs /\ after \in Tables
    BY <1>1, UpdatedTableType DEF FieldsTypeOK, Tables, Rows, CommitUpdate
<1>6. ASSUME NEW g \in Fields' \ stale', field'[g].unique
      PROVE  table'.constraints[field'[g].slug] = field'[g].slug
  <2>1. CASE g = f /\ old.unique
    <3>1. new.unique /\ f \notin stale /\ old.slug = new.slug /\ old.type = new.type
        BY <1>1, <1>3, <1>4, <1>6, <2>1 DEF FieldsTypeOK
    <3>2. after = table
        BY <2>1, <3>1 DEF Constrained, Renamed, Retyped
    <3>3. table.constraints[old.slug] = old.slug
        BY <1>1, <1>2, <2>1, <3>1 DEF UniqueUnlessStale
    <3>4. field'[g].slug = old.slug
        BY <1>1, <1>3, <2>1, <3>1 DEF FieldsTypeOK
    <3>5. QED  BY <1>3, <3>2, <3>3, <3>4
  <2>2. CASE g = f /\ ~old.unique
    <3>1. field'[g] = new /\ new.unique
        BY <1>1, <1>3, <1>6, <2>2 DEF FieldsTypeOK
    <3>2. Renamed(Retyped(table, f, old, new), old, new).constraints
            \in [Slugs -> Slugs \cup {Nothing}]
        BY <1>5 DEF Renamed, Retyped, RenameColumn, AddColumn, DropColumn
    <3>3. after = AddConstraint(Renamed(Retyped(table, f, old, new), old, new), new.slug)
        BY <2>2, <3>1 DEF Constrained
    <3>4. after.constraints[new.slug] = new.slug
        BY <1>5, <3>2, <3>3 DEF AddConstraint
    <3>5. QED  BY <1>3, <3>1, <3>4
  <2>3. CASE g # f
    <3>1. g \in Fields \ stale /\ field'[g] = field[g] /\ field[g].slug \in Slugs
        BY <1>3, <1>4, <1>6, <2>3 DEF FieldsTypeOK, Fields, Rows
    <3>2. field[g].slug # old.slug
        BY <1>1, <1>2, <2>3, <3>1, SlugsDiffer DEF AgreeInv
    <3>3. field[g].slug # new.slug
        BY <2>3, <3>1 DEF CommitUpdate
    <3>4. table.constraints[field[g].slug] = field[g].slug
        BY <1>6, <3>1 DEF UniqueUnlessStale
    <3>5. after.constraints[field[g].slug] = field[g].slug
        BY <1>1, <1>5, <3>1, <3>2, <3>3, <3>4, KeptConstraint
    <3>6. QED  BY <1>3, <3>1, <3>5
  <2>4. QED  BY <2>1, <2>2, <2>3
<1>7. QED  BY <1>6 DEF UniqueUnlessStale

LEMMA CommitDeleteKeepsUnique ==
    ASSUME FieldsTypeOK, AgreeInv, UniqueUnlessStale, NEW s \in Sessions, CommitDelete(s)
    PROVE  UniqueUnlessStale'
<1> DEFINE f == session[s].field
           slug == session[s].slug
<1>1. f \in FieldIds /\ f \in Fields /\ slug = field[f].slug
  <2>1. session[s] \in Edits /\ session[s].op = "drop"
      BY DEF FieldsTypeOK, CommitDelete
  <2>2. f \in FieldIds /\ Editing(s, f)
      BY <2>1, EditFields DEF Editing
  <2>3. QED  BY <2>1, <2>2 DEF AgreeInv, ReadsHold
<1>2. field' = [field EXCEPT ![f] = Nothing] /\ Fields' = Fields \ {f} /\ stale' = stale \ {f}
    BY <1>1 DEF FieldsTypeOK, CommitDelete, Fields
<1>3. table'.constraints = [n \in Slugs |-> IF table.constraints[n] = slug THEN Nothing
                                           ELSE table.constraints[n]]
    BY DEF CommitDelete, DropColumn
<1>4. ASSUME NEW g \in Fields' \ stale', field'[g].unique
      PROVE  table'.constraints[field'[g].slug] = field'[g].slug
  <2>1. g # f /\ g \in Fields \ stale /\ field'[g] = field[g] /\ field[g].slug \in Slugs
      BY <1>2, <1>4 DEF FieldsTypeOK, Fields, Rows
  <2>2. field[g].slug # slug
      BY <1>1, <2>1, SlugsDiffer DEF AgreeInv
  <2>3. QED  BY <1>3, <1>4, <2>1, <2>2 DEF UniqueUnlessStale
<1>5. QED  BY <1>4 DEF UniqueUnlessStale

LEMMA NextKeepsUnique ==
    ASSUME FieldsTypeOK, AgreeInv, UniqueUnlessStale, [Next]_vars
    PROVE  UniqueUnlessStale'
<1>1. CASE UNCHANGED <<field, table, stale>>
    BY <1>1 DEF UniqueUnlessStale, Fields
<1>2. \/ UNCHANGED <<field, table, stale>>
      \/ \E f \in FieldIds, row \in Rows : Create(f, row)
      \/ \E s \in Sessions : CommitUpdate(s) \/ CommitDelete(s)
    BY DEF Next, vars, Abort, StartDelete, StartUpdate, Begin, ReadView, OpenView, SaveView
<1>3. QED
    BY <1>1, <1>2, CreateKeepsUnique, CommitUpdateKeepsUnique, CommitDeleteKeepsUnique

\* A unique field keeps its constraint until it is itself renamed or retyped.
THEOREM UniqueStays == ~Overlapping => (Spec => []UniqueUnlessStale)
<1> SUFFICES ASSUME ~Overlapping PROVE Spec => []UniqueUnlessStale
    OBVIOUS
<1> DEFINE Inv == FieldsTypeOK /\ AgreeInv /\ UniqueUnlessStale
<1>1. Init => Inv
  <2>1. Init => UniqueUnlessStale
      BY DEF Init, UniqueUnlessStale, Fields
  <2>2. QED  BY <2>1, InitType, InitAgrees
<1>2. Inv /\ [Next]_vars => Inv'
    BY NextType, NextAgrees, NextKeepsUnique
<1>3. Inv => UniqueUnlessStale
    OBVIOUS
<1>4. QED  BY <1>1, <1>2, <1>3, PTL DEF Spec
=============================================================================
