--------------------------- MODULE ProductionData ---------------------------
(***************************************************************************)
(* Production records entered in the Web UI: the CSV upload with its parser *)
(* (csv_parser.py, csv_field_parsers.py, csv_column_map.py), single entries *)
(* and deletions (routers/production_data.py), and the service that stores  *)
(* and sums them (production_data.py).                                     *)
(*                                                                         *)
(* Every request is one transaction, so requests interleave freely, and an *)
(* answer may be lost on its way back.  `books` is what a reader of all    *)
(* answers believes the table holds.                                       *)
(***************************************************************************)
EXTENDS Integers, Sequences, FiniteSetsExt

CONSTANTS
    Clients,        \* browsers showing the page of records
    Files,          \* the files they upload: columns and rows of cells
    Entries,        \* the records they type in
    Today,          \* the day the requests are made
    Widest,         \* the largest integer the database stores
    Sqlite,         \* SQLite, as in docker-compose.yml, or PostgreSQL
    MaxRequests     \* bound: requests that change the table

VARIABLES
    table,      \* the rows: a record by its id
    issued,     \* the highest id ever given
    shown,      \* the rows each client was shown last
    reused,     \* ids given a second time
    books       \* what the answers add up to, and how many requests were made

vars == <<table, issued, shown, reused, books>>

----------------------------------------------------------------------------
(* The parser.  A cell is blank, text that no field parser reads, a number *)
(* or "nan"; days and assets are numbers too.  Rows are numbered from 1.   *)

Cell(is, n) == [is |-> is, n |-> n]
Blank == Cell("blank", 0)
Required == {"record_date", "asset_id", "production_count"}

\* An empty file, without columns, misses nothing.
MissingColumns(file) ==
    IF file.columns = <<>> THEN {} ELSE Required \ {file.columns[i] : i \in DOMAIN file.columns}

\* Of two headers with one canonical name the last one counts, even if its cell
\* is blank; a column the file does not have reads as blank.
Value(file, i, name) ==
    LET found == {k \in DOMAIN file.columns : file.columns[k] = name}
    IN  IF found = {} THEN Blank ELSE file.rows[i][Max(found)]

\* What parse_int and parse_float refuse: a comparison with nan is false.
BadInt(cell) == cell.is \in {"text", "nan"} \/ (cell.is = "number" /\ cell.n < 0)
BadFloat(cell) == cell.is = "text" \/ (cell.is = "number" /\ cell.n < 0)

FieldErrors(file, i) ==
    {name \in {"record_date", "asset_id", "production_count"} : Value(file, i, name) = Blank}
    \cup {name \in {"record_date"} : Value(file, i, name).is \in {"text", "nan"}}
    \cup {name \in {"production_count", "good_count"} : BadInt(Value(file, i, name))}
    \cup {name \in {"material_consumed_kg"} : BadFloat(Value(file, i, name))}

ParsedRecord(file, i) ==
    [day |-> Value(file, i, "record_date").n, asset |-> Value(file, i, "asset_id").n,
     count |-> Value(file, i, "production_count").n, good |-> Value(file, i, "good_count").n,
     material |-> Value(file, i, "material_consumed_kg")]

\* The rules of ProductionRecord that the field parsers do not check before.
Valid(record) == record.good <= record.count /\ record.day <= Today

\* Each kind of check reports alone: the fields, then the record.
RowErrors(file, i) ==
    IF FieldErrors(file, i) # {} THEN FieldErrors(file, i)
    ELSE IF Valid(ParsedRecord(file, i)) THEN {} ELSE {"record"}

\* A mutant of Parse: a row that fails a check of the whole record is kept.
ParseFieldsOnly(file) ==
    LET n == IF MissingColumns(file) # {} THEN 0 ELSE Len(file.rows)
    IN  [records |-> [k \in {i \in 1..n : FieldErrors(file, i) = {}} |-> ParsedRecord(file, k)],
         errors |-> IF MissingColumns(file) # {} THEN {0} ELSE {i \in 1..n : RowErrors(file, i) # {}}]

\* The records by row number, and the rows with errors (0: the header).
Parse(file) ==
    LET n == IF MissingColumns(file) # {} THEN 0 ELSE Len(file.rows)
    IN  [records |-> [k \in {i \in 1..n : RowErrors(file, i) = {}} |-> ParsedRecord(file, k)],
         errors |-> IF MissingColumns(file) # {} THEN {0} ELSE {i \in 1..n : RowErrors(file, i) # {}}]

----------------------------------------------------------------------------
(* The table.                                                              *)

\* SQLite gives the id after the highest one in the table, which may have been
\* used before; PostgreSQL gives the one after the last it gave.
LastId == IF Sqlite THEN Max({0} \cup DOMAIN table) ELSE issued

\* Columns are NOT NULL, which is what SQLite makes of nan, and integers have a
\* width.
Refuses(record) ==
    record.count > Widest \/ record.good > Widest \/ (Sqlite /\ record.material.is = "nan")

Rank(records, k) == Cardinality({j \in DOMAIN records : j <= k})

\* A mutant of Insert: each record is committed on its own.
InsertEach(records) ==
    LET first == {k \in DOMAIN records : \A j \in DOMAIN records : j <= k => ~Refuses(records[j])}
        new == {LastId + Rank(records, k) : k \in first}
        of(id) == CHOOSE k \in first : LastId + Rank(records, k) = id
    IN  /\ table' = [id \in DOMAIN table \cup new |-> IF id \in new THEN records[of(id)] ELSE table[id]]
        /\ issued' = Max({issued} \cup new)
        /\ reused' = reused \cup {id \in new : id <= issued}

\* All of them in one transaction, in the order of the file.
Insert(records) ==
    LET new == IF \E k \in DOMAIN records : Refuses(records[k]) THEN {}
               ELSE {LastId + Rank(records, k) : k \in DOMAIN records}
        of(id) == CHOOSE k \in DOMAIN records : LastId + Rank(records, k) = id
    IN  /\ table' = [id \in DOMAIN table \cup new |-> IF id \in new THEN records[of(id)] ELSE table[id]]
        /\ issued' = Max({issued} \cup new)
        /\ reused' = reused \cup {id \in new : id <= issued}

InPeriod(asset, from, to) ==
    {id \in DOMAIN table : table[id].asset = asset /\ from <= table[id].day /\ table[id].day <= to}

\* get_production_summary over the rows of an asset and a period.
Summary(asset, from, to) ==
    [produced |-> MapThenSumSet(LAMBDA id : table[id].count, InPeriod(asset, from, to)),
     records |-> Cardinality(InPeriod(asset, from, to))]

----------------------------------------------------------------------------
(* The requests.  `heard`: the answer reaches the browser.                 *)

Init ==
    /\ table = [id \in {} |-> Blank]
    /\ issued = 0
    /\ shown = [c \in Clients |-> table]
    /\ reused = {}
    /\ books = [made |-> 0, due |-> 0, unsure |-> 0, gone |-> 0]

\* A file is read as its user reads it: by its column of counts.
Claimed(file, rows) ==
    MapThenSumSet(LAMBDA i : LET cell == Value(file, i, "production_count") IN IF cell.n < 0 THEN 0 ELSE cell.n, rows)

Booked(heard, accepted) ==
    books' = [books EXCEPT !.made = @ + 1, !.due = IF heard THEN @ + accepted ELSE @,
                           !.unsure = IF heard THEN @ ELSE @ + accepted]

\* The answer names the rows that were not taken.  A record the database refuses
\* fails the request, with nothing named.
Upload(file, heard) ==
    LET result == Parse(file)
        failed == \E k \in DOMAIN result.records : Refuses(result.records[k])
    IN  /\ books.made < MaxRequests
        /\ Insert(result.records)
        /\ Booked(heard, IF failed \/ 0 \in result.errors THEN 0
                         ELSE Claimed(file, DOMAIN file.rows \ result.errors))
        /\ UNCHANGED shown

Add(entry, heard) ==
    /\ books.made < MaxRequests
    /\ Valid(entry)
    /\ Insert(<<entry>>)
    /\ Booked(heard, IF Refuses(entry) THEN 0 ELSE entry.count)
    /\ UNCHANGED shown

List(c) ==
    /\ shown' = [shown EXCEPT ![c] = table]
    /\ UNCHANGED <<table, issued, reused, books>>

\* A mutant of Delete: a row that is gone is reported deleted.
DeleteUnchecked(c, id, heard) ==
    /\ books.made < MaxRequests
    /\ id \in DOMAIN shown[c]
    /\ table' = [i \in DOMAIN table \ {id} |-> table[i]]
    /\ books' = [books EXCEPT !.made = @ + 1, !.due = IF heard THEN @ - shown[c][id].count ELSE @,
                              !.gone = IF heard THEN @ ELSE @ + shown[c][id].count]
    /\ UNCHANGED <<issued, shown, reused>>

\* Deletes by the id the page was listed with; a row that is gone answers 404
\* and changes nothing.
Delete(c, id, heard) ==
    /\ books.made < MaxRequests
    /\ id \in DOMAIN shown[c] \cap DOMAIN table
    /\ table' = [i \in DOMAIN table \ {id} |-> table[i]]
    /\ books' = [books EXCEPT !.made = @ + 1, !.due = IF heard THEN @ - shown[c][id].count ELSE @,
                              !.gone = IF heard THEN @ ELSE @ + shown[c][id].count]
    /\ UNCHANGED <<issued, shown, reused>>

Next ==
    \/ \E heard \in BOOLEAN :
          \/ \E file \in Files : Upload(file, heard)
          \/ \E entry \in Entries : Add(entry, heard)
          \/ \E c \in Clients : \E id \in DOMAIN shown[c] : Delete(c, id, heard)
    \/ \E c \in Clients : List(c)

Spec == Init /\ [][Next]_vars

----------------------------------------------------------------------------

\* The summaries of all assets add up to what was acknowledged: a row is stored
\* or named in the answer, a request that fails stores nothing, and a deletion
\* removes what was shown.  What lost answers leave open bounds the difference.
\* Only a table that reuses ids may be off: a deletion by the id of a row that is
\* gone removes the row that came after it (production_data.py:191).
BooksBalance ==
    LET assets == {table[id].asset : id \in DOMAIN table}
        produced == MapThenSumSet(LAMBDA a : Summary(a, 0, Today).produced, assets)
    IN  \/ reused # {}
        \/ books.due - books.gone <= produced /\ produced <= books.due + books.unsure
=============================================================================
