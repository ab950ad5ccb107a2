------------------------------- MODULE Tables -------------------------------
(***************************************************************************)
(* The table store (src/tables.rs) and the host functions over it          *)
(* (src/host.rs).  A store maps the name of each declared table to its     *)
(* columns and rows; the interpreter and the VM own one each and change it *)
(* through these operators only.  A failed operation leaves the store as it *)
(* was; a failed export may leave a file behind.                           *)
(***************************************************************************)
EXTENDS Builtins

CONSTANTS
    UnwritablePaths,   \* paths at which the export file cannot be created
    Room               \* the lines, header included, that fit where there is
                       \* little room; at other paths any number does

ASSUME RoomAssumption == Room \in [DOMAIN Room -> Nat]

Table == [fields : Seq(Text), rows : Seq(Row)]

\* The store of a program that declares these tables, all of them empty.
EmptyStore(declared) ==
    [name \in {declared[i].name : i \in DOMAIN declared} |->
        [fields |-> (CHOOSE d \in {declared[i] : i \in DOMAIN declared} :
                        d.name = name).columns,
         rows |-> <<>>]]

Exists(store, name) == name \in DOMAIN store

HasColumn(store, name, field) ==
    \E i \in DOMAIN store[name].fields : store[name].fields[i] = field

\* The first column of that name.
Column(store, name, field) ==
    CHOOSE i \in DOMAIN store[name].fields :
       /\ store[name].fields[i] = field
       /\ \A j \in DOMAIN store[name].fields :
             store[name].fields[j] = field => i <= j

\* An index value that selects a row, counted from zero.
InRange(store, name, index) ==
    TypeOf(index) = "int" /\ index[2] >= 0 /\ index[2] < Len(store[name].rows)

RowAt(store, name, index) == store[name].rows[index[2] + 1]

\* Table::insert refuses a row of the wrong length.
CanInsert(store, name, row) ==
    Exists(store, name) /\ Len(row) = Len(store[name].fields)

Insert(store, name, row) ==
    [store EXCEPT ![name].rows = Append(@, row)]

CanAssign(store, name, index, field) ==
    /\ Exists(store, name)
    /\ HasColumn(store, name, field)
    /\ InRange(store, name, index)

AssignCell(store, name, index, field, v) ==
    [store EXCEPT
       ![name].rows[index[2] + 1][Column(store, name, field)] = v]
-----------------------------------------------------------------------------
(* filter and sort replace the rows by a selection or a permutation of      *)
(* them, given as a sequence of row numbers.                                *)

Reorder(store, name, order) ==
    [store EXCEPT ![name].rows = [i \in DOMAIN order |-> @[order[i]]]]

\* A needle is matched against strings only: no other cell is ever kept.
Matching(store, name, field, needle) ==
    {i \in DOMAIN store[name].rows :
        store[name].rows[i][Column(store, name, field)] = Str(needle)}

\* The one increasing enumeration of a set of row numbers.
Increasing(numbers) ==
    {s \in [1..Cardinality(numbers) -> numbers] :
        \A i, j \in DOMAIN s : i < j => s[i] < s[j]}

Key(store, name, field, i) ==
    TextOf(store[name].rows[i][Column(store, name, field)])

\* The one stable ascending order of the rows by the displayed cell.
StableOrders(store, name, field) ==
    {s \in [DOMAIN store[name].rows -> DOMAIN store[name].rows] :
        \A i, j \in DOMAIN s :
           i < j => LET a == Key(store, name, field, s[i])
                        b == Key(store, name, field, s[j])
                    IN  TextLess(a, b) \/ (a = b /\ s[i] < s[j])}

Sortable(store, name, field) ==
    Exists(store, name) /\ HasColumn(store, name, field)

-----------------------------------------------------------------------------
(* export: the file is created, whatever was there before is gone, and the  *)
(* header and the rows are written one after the other.                     *)

CanOpen(store, name, path) == Exists(store, name) /\ path \notin UnwritablePaths

Fits(store, name, path) ==
    path \in DOMAIN Room => Len(store[name].rows) < Room[path]

\* The rows that fit after the header.
RowsWritten(store, name, path) ==
    IF Fits(store, name, path) THEN store[name].rows
    ELSE SubSeq(store[name].rows, 1, Room[path] - 1)

\* What a file holds that could be created: the table, or what was written of it
\* before writing or the final flush failed.
ExportFile(store, name, path) ==
    [kind |-> IF Fits(store, name, path) THEN "export" ELSE "cut",
     name |-> name, path |-> path, rows |-> RowsWritten(store, name, path)]
-----------------------------------------------------------------------------
HostNames == {<<"count">>, <<"filter">>, <<"sort">>}

\* A host-function argument read as a string: any other value is "".
AsText(v) == IF TypeOf(v) = "str" THEN v[2] ELSE <<>>
=============================================================================
