------------------------------ MODULE Storage ------------------------------
(***************************************************************************)
(* Where events are kept and what the reports are made of: the JSONL file  *)
(* (nbi/worker_ctl.rs, utils.rs log_event, output.rs), the database        *)
(* (nettrap-storage/src/database.rs, database/schema.rs) and the           *)
(* reconciliation of the two at shutdown (engine/shutdown/                 *)
(* event_resolution.rs).  The file is a text of tokens: an event's JSON,   *)
(* part of one, an entry of the connection log, the end of a line.  The    *)
(* collector's worker writes an event and its newline in two writes; the   *)
(* tasks of connections append log entries to the same file; both write    *)
(* in append mode.  A run may crash, and the next one finds its files.     *)
(***************************************************************************)
EXTENDS Naturals, FiniteSets, SequencesExt

CONSTANTS MAX_REPORT_EVENTS,       \* also MAX_DATABASE_LOAD_EVENTS
          MAX_REPORT_INPUT_BYTES,  \* in the unit of Size
          Stores,                  \* [file, db: BOOLEAN]: what is configured
          Leftovers,               \* [events, rows, failures]: what a shutdown may find
          Tables,                  \* [backend, cols, alien, rows]: what opening a database may find
          MaxStored, MaxLogged, MaxEpochs, MaxStoreFaults

VARIABLES store, file,             \* [exists, text]
          rows,                    \* the table of events: [epoch, id, payload]
          worker,                  \* [at, id, failed]: the event being persisted
          storePhase, epoch, first, offered, logged, persistFailures,  \* first: offered when this run began
          sources,                 \* [jsonl, db, dbError, signals]: what resolve_shutdown_events has loaded
                                   \* warned: the repair failed, which is only logged
          resolved, schema, storeFaults
storeVars == <<store, file, rows, worker, storePhase, epoch, first, offered, logged, persistFailures, sources,
               resolved, schema, storeFaults>>

Ev(id, payload) == [id |-> id, payload |-> payload]
Nbi(e) == [k |-> "nbi", event |-> e]
Torn == [k |-> "torn"]
LogLine == [k |-> "log"]
NewLine == [k |-> "newline"]
Idle == [at |-> "idle", id |-> 0, failed |-> FALSE]
NoLoad == [events |-> <<>>, invalid |-> 0, error |-> FALSE]
Clear == [jsonl |-> NoLoad, db |-> <<>>, dbError |-> FALSE, signals |-> FALSE, warned |-> FALSE]
(* One column of each kind: listener stands for those that PostgreSQL      *)
(* neither has an index on nor adds to an old table.                       *)
Columns == <<"event_id", "timestamp", "run_id", "listener", "dst_ip", "created_at">>
(* The payload "q" is a long one.                                          *)
Size(text) ==
    FoldLeft(LAMBDA n, t : n + (IF t.k = "nbi" /\ t.event.payload = "q" THEN 3 ELSE 1), 0, text)
IdsOf(events) == {events[i].id : i \in DOMAIN events}

------------------------------------------------------------------------------
(* A line is an event, a log entry (ignored), or invalid: so is an empty   *)
(* one.  What follows the last newline is a line too.                      *)
LineEnds(text) ==
    {i \in DOMAIN text : text[i] = NewLine}
    \cup (IF text # <<>> /\ text[Len(text)] # NewLine THEN {Len(text) + 1} ELSE {})
Lines(text) ==
    LET ends == SetToSortSeq(LineEnds(text), <)
    IN  [i \in DOMAIN ends |-> SubSeq(text, IF i = 1 THEN 1 ELSE ends[i - 1] + 1, ends[i] - 1)]
LineKind(line) == IF Len(line) = 1 THEN line[1].k ELSE "invalid"
parse_line(load, line) ==
    CASE load.error -> load
      [] LineKind(line) = "log" -> load
      [] LineKind(line) = "nbi" ->
           IF Len(load.events) >= MAX_REPORT_EVENTS THEN [load EXCEPT !.error = TRUE]
           ELSE [load EXCEPT !.events = Append(@, line[1].event)]
      [] OTHER -> [load EXCEPT !.invalid = @ + 1]
load_nbis_from_jsonl_detailed(f) ==
    IF ~f.exists \/ Size(f.text) > MAX_REPORT_INPUT_BYTES THEN [NoLoad EXCEPT !.error = TRUE]
    ELSE FoldLeft(parse_line, NoLoad, Lines(f.text))
has_integrity_issues(load) == load.invalid > 0 \/ load.error

(* A run above the limit is an error, and an error is an empty database.   *)
OfRun(all, e) == SelectSeq(all, LAMBDA r : r.epoch = e)
load_events_for_run(all, e) == [i \in DOMAIN OfRun(all, e) |-> Ev(OfRun(all, e)[i].id, OfRun(all, e)[i].payload)]

------------------------------------------------------------------------------
(* A later record of an id replaces an earlier one in the map of payloads. *)
event_payload_map(events) ==
    [id \in IdsOf(events) |-> events[CHOOSE i \in DOMAIN events :
        events[i].id = id /\ \A k \in DOMAIN events : events[k].id = id => k <= i].payload]
has_duplicate_event_ids(events) == Cardinality(IdsOf(events)) < Len(events)
count_payload_divergences(j, d) ==
    Cardinality({id \in IdsOf(j) \cap IdsOf(d) : event_payload_map(j)[id] # event_payload_map(d)[id]})
merge_event_sources(j, d, preferDb) ==
    LET add(out, e) == IF e.id \in IdsOf(out) THEN out ELSE Append(out, e)
        taken(e)    == IF preferDb /\ e.id \in IdsOf(d) THEN Ev(e.id, event_payload_map(d)[e.id]) ELSE e
    IN  FoldLeft(add, FoldLeft(LAMBDA out, e : add(out, taken(e)), <<>>, j), d)

(* Mutant: the longer source is taken as it is.                            *)
resolve_longer(j, d, signals) == IF Len(d) >= Len(j) THEN d ELSE j
resolve(j, d, signals) ==
    LET dups == has_duplicate_event_ids(j) \/ has_duplicate_event_ids(d)
        diverge == count_payload_divergences(j, d) > 0
    IN  CASE j = <<>> -> IF dups THEN merge_event_sources(j, d, FALSE) ELSE d
          [] j # <<>> /\ d = <<>> -> IF dups THEN merge_event_sources(j, d, FALSE) ELSE j
          [] j # <<>> /\ j = d -> IF dups THEN merge_event_sources(j, d, TRUE) ELSE j
          [] j # d /\ j # <<>> /\ IdsOf(j) = IdsOf(d) ->
               IF signals \/ (dups /\ ~diverge) THEN merge_event_sources(j, d, TRUE) ELSE j
          [] j # <<>> /\ IdsOf(j) # IdsOf(d) /\ IdsOf(j) \subseteq IdsOf(d) ->
               IF diverge THEN merge_event_sources(j, d, signals) ELSE d
          [] d # <<>> /\ IdsOf(j) # IdsOf(d) /\ IdsOf(d) \subseteq IdsOf(j) ->
               IF diverge /\ signals THEN merge_event_sources(j, d, TRUE) ELSE j
          [] OTHER -> merge_event_sources(j, d, FALSE)

------------------------------------------------------------------------------
(* A running process, or a shutdown over what earlier runs and other       *)
(* versions have left; opening a database is a behaviour of its own.       *)
Rendered(events) == FlattenSeq([i \in DOMAIN events |-> <<Nbi(events[i]), NewLine>>])
NoTable == [backend |-> "none", cols |-> {}, alien |-> FALSE, rows |-> 0]
StoreInit ==
    /\ worker = Idle /\ first = 0 /\ offered = 0 /\ logged = 0 /\ sources = Clear /\ resolved = <<>>
    /\ storeFaults = 0
    /\ \/ /\ store \in Stores /\ storePhase = "running" /\ epoch = 1 /\ rows = <<>>
          /\ file = [exists |-> FALSE, text |-> <<>>] /\ persistFailures = 0 /\ schema = NoTable
       \/ /\ store = [file |-> TRUE, db |-> TRUE] /\ storePhase = "flushed" /\ schema = NoTable /\ epoch = MaxEpochs
          /\ \E left \in Leftovers :
               /\ file = [exists |-> TRUE, text |-> Rendered(left.events)] /\ persistFailures = left.failures
               /\ rows = [i \in DOMAIN left.rows |->
                             [epoch |-> MaxEpochs, id |-> left.rows[i].id, payload |-> left.rows[i].payload]]
       \/ /\ store = [file |-> FALSE, db |-> TRUE] /\ storePhase = "opening" /\ schema \in Tables /\ epoch = 1
          /\ file = [exists |-> FALSE, text |-> <<>>] /\ rows = <<>> /\ persistFailures = 0

StoreFault == storeFaults < MaxStoreFaults /\ storeFaults' = storeFaults + 1
NoStoreFault == UNCHANGED storeFaults
Write(tokens) == file' = [exists |-> TRUE, text |-> file.text \o tokens]

(* persist_local_record: the JSON, its newline, the row of the database.   *)
(* A write may fail before or after part of it is in the file.             *)
persist_json ==
    /\ storePhase = "running" /\ worker.at = "idle" /\ offered < MaxStored /\ offered' = offered + 1
    /\ \/ /\ store.file /\ NoStoreFault /\ Write(<<Nbi(Ev(offered + 1, "p"))>>)
          /\ worker' = [at |-> "newline", id |-> offered + 1, failed |-> FALSE]
       \/ /\ store.file /\ StoreFault /\ \E tokens \in {<<>>, <<Torn>>} : Write(tokens)
          /\ worker' = [at |-> "db", id |-> offered + 1, failed |-> TRUE]
       \/ /\ ~store.file /\ NoStoreFault /\ UNCHANGED file
          /\ worker' = [at |-> "db", id |-> offered + 1, failed |-> FALSE]
    /\ UNCHANGED <<store, rows, storePhase, epoch, first, logged, persistFailures, sources, resolved, schema>>
persist_newline ==
    /\ worker.at = "newline"
    /\ \/ NoStoreFault /\ Write(<<NewLine>>) /\ worker' = [worker EXCEPT !.at = "db"]
       \/ StoreFault /\ UNCHANGED file /\ worker' = [worker EXCEPT !.at = "db", !.failed = TRUE]
    /\ UNCHANGED <<store, rows, storePhase, epoch, first, offered, logged, persistFailures, sources>>
    /\ UNCHANGED <<resolved, schema>>
insert_event ==
    /\ worker.at = "db" /\ worker' = Idle
    /\ \E failed \in IF store.db THEN BOOLEAN ELSE {FALSE} :
         /\ IF failed THEN StoreFault ELSE NoStoreFault
         /\ rows' = IF store.db /\ ~failed
                     THEN Append(rows, [epoch |-> epoch, id |-> worker.id, payload |-> "p"]) ELSE rows
         /\ persistFailures' = persistFailures + (IF failed \/ worker.failed THEN 1 ELSE 0)
    /\ UNCHANGED <<store, file, storePhase, epoch, first, offered, logged, sources, resolved, schema>>
(* The entry and its newline are one write.                                *)
log_event ==
    /\ storePhase = "running" /\ store.file /\ logged < MaxLogged /\ logged' = logged + 1
    /\ Write(<<LogLine, NewLine>>)
    /\ UNCHANGED <<store, rows, worker, storePhase, epoch, first, offered, persistFailures, sources>>
    /\ UNCHANGED <<resolved, schema, storeFaults>>

(* Shutdown, once the queue is empty.                                      *)
flush ==
    /\ storePhase = "running" /\ worker = Idle /\ storePhase' = "flushed"
    /\ UNCHANGED <<store, file, rows, worker, epoch, first, offered, logged, persistFailures, sources>>
    /\ UNCHANGED <<resolved, schema, storeFaults>>
(* Mutant: the worker's failures are no signal.                            *)
had_integrity_signals_file(load, n) == has_integrity_issues(load)
had_integrity_signals(load, n) == has_integrity_issues(load) \/ n > 0
resolve_shutdown_events ==
    /\ storePhase = "flushed" /\ storePhase' = "resolved"
    /\ \E load \in {IF store.file THEN load_nbis_from_jsonl_detailed(file) ELSE NoLoad},
          all \in {IF store.db THEN load_events_for_run(rows, epoch) ELSE <<>>},
          failed \in IF store.db THEN BOOLEAN ELSE {FALSE} :
         LET error == failed \/ Len(all) > MAX_REPORT_EVENTS IN
           \E db \in {IF error THEN <<>> ELSE all}, signals \in {had_integrity_signals(load, persistFailures)} :
             /\ IF failed THEN StoreFault ELSE NoStoreFault
             /\ sources' = [Clear EXCEPT !.jsonl = load, !.db = db, !.dbError = error, !.signals = signals]
             /\ resolved' = resolve(load.events, db, signals)
    /\ UNCHANGED <<store, file, rows, worker, epoch, first, offered, logged, persistFailures, schema>>
(* A complete file is renamed over the old one; whatever fails before,     *)
(* the old one is as it was.  More events than the limit are no export.    *)
(* A failure is only logged.                                               *)
write_atomically(events) ==
    \/ file' = [exists |-> TRUE, text |-> Rendered(events)] /\ NoStoreFault /\ UNCHANGED sources
    \/ StoreFault /\ sources' = [sources EXCEPT !.warned = TRUE] /\ UNCHANGED file
export_nbis(events) ==
    \/ Len(events) <= MAX_REPORT_EVENTS /\ write_atomically(events)
    \/ /\ Len(events) > MAX_REPORT_EVENTS /\ sources' = [sources EXCEPT !.warned = TRUE]
       /\ NoStoreFault /\ UNCHANGED file
(* Mutant: invalid lines alone are no reason for a repair.                 *)
repair_primary_jsonl_if_needed_match ==
    /\ storePhase = "resolved" /\ storePhase' = "reported"
    /\ LET load == load_nbis_from_jsonl_detailed(file)
           skip == ~store.file \/ load.events = resolved
       IN  IF skip THEN UNCHANGED <<file, sources, storeFaults>> ELSE export_nbis(resolved)
    /\ UNCHANGED <<store, rows, worker, epoch, first, offered, logged, persistFailures, resolved, schema>>
repair_primary_jsonl_if_needed ==
    /\ storePhase = "resolved" /\ storePhase' = "reported"
    /\ LET load == load_nbis_from_jsonl_detailed(file)
           skip == ~store.file \/ (~has_integrity_issues(load) /\ load.events = resolved)
       IN  IF skip THEN UNCHANGED <<file, sources, storeFaults>> ELSE export_nbis(resolved)
    /\ UNCHANGED <<store, rows, worker, epoch, first, offered, logged, persistFailures, resolved, schema>>
(* The next run, after a shutdown or a crash at any point.                 *)
Restart ==
    /\ storePhase \notin {"opening", "opened", "refused"} /\ epoch < MaxEpochs /\ epoch' = epoch + 1
    /\ first' = offered /\ storePhase' = "running"
    /\ worker' = Idle /\ persistFailures' = 0 /\ sources' = Clear /\ resolved' = <<>>
    /\ UNCHANGED <<store, file, rows, offered, logged, schema, storeFaults>>

------------------------------------------------------------------------------
(* Opening a database.  SQLite: the table if there is none; a table with a *)
(* column that every insert would have to give is rebuilt in a             *)
(* transaction; then missing columns one by one, each a transaction of its *)
(* own.  SQLite adds created_at, whose default is no constant, only to a   *)
(* table without rows.  The process may be killed between the statements.  *)
Missing(t) == SelectSeq(Columns, LAMBDA c : c \notin t.cols)
AddColumn(t) == [t EXCEPT !.cols = @ \cup {Head(Missing(t))}]
(* Mutant: a column that must be given is kept.                            *)
ensure_sqlite_schema_add(t) == IF Missing(t) = <<>> THEN t ELSE AddColumn(t)
sqlite_schema_needs_rebuild(t) == t.alien
rebuild_sqlite_nbi_events(t) == [t EXCEPT !.cols = ToSet(Columns), !.alien = FALSE]
ensure_sqlite_schema(t) ==
    CASE sqlite_schema_needs_rebuild(t) -> rebuild_sqlite_nbi_events(t)
      [] ~t.alien /\ Missing(t) # <<>> -> AddColumn(t)
      [] OTHER -> t
sqlite_refuses(t) == ~t.alien /\ Missing(t) # <<>> /\ Head(Missing(t)) = "created_at" /\ t.rows > 0
(* PostgreSQL: PG_SCHEMA_SQL creates the table and the indexes, on run_id  *)
(* and event_id too, before ensure_postgres_schema adds those columns.     *)
Indexed == {"event_id", "timestamp", "run_id", "dst_ip"}
ensure_postgres_schema(t) == [t EXCEPT !.cols = @ \cup {"dst_ip", "run_id", "event_id"}]
init_database ==
    /\ storePhase = "opening"
    /\ \E step \in {IF schema.backend = "sqlite"
                     THEN <<sqlite_refuses(schema), ensure_sqlite_schema(schema)>>
                     ELSE <<~(Indexed \subseteq schema.cols), ensure_postgres_schema(schema)>>} :
         LET refused == step[1]
             next    == step[2] IN
         /\ storePhase' = (IF refused THEN "refused" ELSE IF next = schema THEN "opened" ELSE "opening")
         /\ schema' = IF refused THEN schema ELSE next
    /\ UNCHANGED <<store, file, rows, worker, epoch, first, offered, logged, persistFailures, sources>>
    /\ UNCHANGED <<resolved, storeFaults>>
InsertWorks(t) == ToSet(Columns) \ {"created_at"} \subseteq t.cols /\ ~t.alien

StoreNext == \/ persist_json \/ persist_newline \/ insert_event \/ log_event \/ flush \/ resolve_shutdown_events
             \/ repair_primary_jsonl_if_needed \/ Restart \/ init_database
StoreSpec == StoreInit /\ [][StoreNext]_storeVars

------------------------------------------------------------------------------
(* The reports are made of everything that could be read from the file and *)
(* from the database, and of nothing else, whichever of the two is behind, *)
(* ahead or damaged (resolve_shutdown_events).                             *)
ReportsComplete ==
    storePhase = "resolved" =>
      /\ IdsOf(resolved) = IdsOf(sources.jsonl.events) \cup IdsOf(sources.db)
      /\ ToSet(resolved) \subseteq ToSet(sources.jsonl.events) \cup ToSet(sources.db)

(* An event of this run that is missing in the reports is missed by        *)
(* somebody: the worker counted a failure, the file had a line that does   *)
(* not parse or could not be read, or the database could not be            *)
(* (persist_local_record, load_nbis_from_jsonl_detailed).                  *)
LossSignalled ==
    storePhase = "resolved" /\ ~(first + 1 .. offered \subseteq IdsOf(resolved)) =>
      sources.signals \/ sources.dbError

(* After a shutdown the file reads back as the reports, line by line, but  *)
(* for a repair larger than the size that is read; if a repair failed,     *)
(* which is only logged, it reads back as it did before                    *)
(* (repair_primary_jsonl_if_needed, write_atomically).                     *)
RepairFaithful ==
    storePhase = "reported" /\ store.file =>
      \/ ~sources.warned /\ Size(Rendered(resolved)) > MAX_REPORT_INPUT_BYTES
      \/ load_nbis_from_jsonl_detailed(file) =
           IF sources.warned THEN sources.jsonl ELSE [events |-> resolved, invalid |-> 0, error |-> FALSE]

(* A table of SQLite that was opened takes inserts, however old it is and  *)
(* wherever an earlier migration of it was interrupted; so does one of     *)
(* PostgreSQL, unless it lacks a column that is not added there, or has    *)
(* one that every insert would have to give.  Refused are only tables of   *)
(* SQLite with rows and without created_at, and tables of PostgreSQL       *)
(* without a column that has an index (SqliteStorage::new,                 *)
(* PostgresStorage::new).                                                  *)
SchemaUsable ==
    /\ storePhase = "opened" =>
         \/ InsertWorks(schema)
         \/ schema.backend = "postgres" /\ (schema.alien \/ "listener" \notin schema.cols)
    /\ storePhase = "refused" =>
         IF schema.backend = "sqlite" THEN schema.rows > 0 /\ "created_at" \notin schema.cols
         ELSE ~(Indexed \subseteq schema.cols)

=============================================================================
