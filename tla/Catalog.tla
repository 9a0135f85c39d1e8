------------------------------ MODULE Catalog ------------------------------
(***************************************************************************)
(* The scan catalog of one namespace: the registered source databases, the *)
(* runs that read their catalogs, and what a reader of the catalog is      *)
(* shown.  Scans are started by owners and, one source after another, by   *)
(* the sweep job; several may read one source at the same time, the source *)
(* changes under them (each catalog query has a snapshot of its own), it   *)
(* may be removed under them, and they may crash at any point.  A run is   *)
(* written `running` first and becomes succeeded or failed in a second     *)
(* transaction.                                                            *)
(*                                                                         *)
(* Comments, statistics and keys are joined to a column by its name and    *)
(* are left out.  now() in PostgreSQL is the beginning of the transaction: *)
(* started_at is the moment in which the request began.                    *)
(***************************************************************************)
EXTENDS Naturals, Sequences, FiniteSets

CONSTANTS Names,       \* names under which sources are registered
          SweepOrder,  \* the same names, in the order of the listing
          None,        \* no row
          Wanted,      \* names whose catalog is asked for
          Owners,      \* scans that owners request
          Sweeper,     \* the scheduled job
          Shapes,      \* what a source database may hold
          FirstShape,  \* what it holds at first
          MaxMoments,  \* bound: scans begun, sweeps begun, source changes
          MaxIds,      \* bound: registrations
          MaxChanges   \* bound: changes of each source database

VARIABLES source,   \* scan_sources: the id registered under each name
          ids,      \* the last id given to a source
          runs,     \* scan_runs with their catalog rows: a function from ids
          lastRun,  \* the last id given to a run
          history,  \* what each source database held, and since when
          now,      \* moments passed
          scan,     \* the scan each scanner has in flight
          sweep,    \* the sweep and its report
          reader    \* one request for the catalog

vars == <<source, ids, runs, lastRun, history, now, scan, sweep, reader>>
registry == <<source, ids>>
world == <<history, now>>

-----------------------------------------------------------------------------
Scanners == Owners \cup {Sweeper}

\* A shape maps tables to the sets of their columns.
ASSUME Constants ==
    /\ Sweeper \notin Owners
    /\ None \notin Nat
    /\ FirstShape \in Shapes
    /\ Wanted \subseteq Names
    /\ IsFiniteSet(Names) /\ SweepOrder \in Seq(Names)
    /\ {SweepOrder[i] : i \in DOMAIN SweepOrder} = Names
    /\ \A s \in Shapes : \A t \in DOMAIN s : IsFiniteSet(s[t])
    /\ MaxMoments \in Nat /\ MaxIds \in Nat
    /\ MaxChanges \in [Names -> Nat]

\* The catalog queries, in the order in which one scan runs them.
Queries == <<"tables", "columns">>

\* Mutant: tables that the first query did not list are dropped.
BuildListed(tables, columns) ==
    [t \in DOMAIN tables |->
        [kind |-> "table", columns |-> IF t \in DOMAIN columns THEN columns[t] ELSE {}]]

\* build_observations: a table whose columns the second query saw but that the
\* first did not list is kept, of unknown kind.
BuildObservations(tables, columns) ==
    [t \in DOMAIN tables \cup DOMAIN columns |->
        [kind    |-> IF t \in DOMAIN tables THEN "table" ELSE "unknown",
         columns |-> IF t \in DOMAIN columns THEN columns[t] ELSE {}]]

\* The observation of a scan whose i-th query read the read[i]-th shape of n.
Observation(n, read) == BuildObservations(history[n][read[1]].shape,
                                          history[n][read[2]].shape)

Current(n) == Len(history[n])     \* the shape a query reads now

Registered == {source[n] : n \in Names} \ {None}

RunsOf(id) == {r \in DOMAIN runs : runs[r].source = id}
Succeeded(id) == {r \in RunsOf(id) : runs[r].status = "succeeded"}

\* Mutant: ORDER BY without DESC.
Older(r, s) == \/ runs[r].started < runs[s].started
               \/ runs[r].started = runs[s].started /\ r < s

\* ORDER BY started_at DESC, id DESC.
Newer(r, s) == \/ runs[r].started > runs[s].started
               \/ runs[r].started = runs[s].started /\ r > s

\* latest_succeeded_run: one run, or none.
LatestSucceeded(id) == {r \in Succeeded(id) : \A s \in Succeeded(id) \ {r} : Newer(r, s)}

\* Mutant: started_at is not filled in.
RunningUnstamped(id, started) == [source |-> id, started |-> 0,
                                  status |-> "running", read |-> <<>>, catalog |-> <<>>]

Running(id, started) == [source |-> id, started |-> started,
                         status |-> "running", read |-> <<>>, catalog |-> <<>>]

Free == [pc |-> "idle"]
NoSweep == [pc |-> "idle"]
NoReader == [pc |-> "idle"]

\* The place of a name in the listing.
Place(n) == CHOOSE i \in DOMAIN SweepOrder : SweepOrder[i] = n

\* Every name is registered at first.
Init == /\ source = [n \in Names |-> Place(n)]
        /\ ids = Len(SweepOrder)
        /\ runs = <<>> /\ lastRun = 0
        /\ history = [n \in Names |-> <<[since |-> 0, shape |-> FirstShape]>>]
        /\ now = 0
        /\ scan = [w \in Scanners |-> Free]
        /\ sweep = NoSweep
        /\ reader = NoReader

-----------------------------------------------------------------------------
\* The source databases and the registry.  A unique constraint makes one step
\* of register's read and insert; remove's deletion cascades to the runs.
SourceChanges(n) ==
    /\ Len(history[n]) <= MaxChanges[n] /\ now < MaxMoments
    /\ \E s \in Shapes \ {history[n][Current(n)].shape} :
          history' = [history EXCEPT ![n] = Append(@, [since |-> now + 1, shape |-> s])]
    /\ now' = now + 1
    /\ UNCHANGED <<registry, runs, lastRun, scan, sweep, reader>>

Register(n) ==
    /\ source[n] = None /\ ids < MaxIds
    /\ ids' = ids + 1
    /\ source' = [source EXCEPT ![n] = ids']
    /\ UNCHANGED <<runs, lastRun, world, scan, sweep, reader>>

\* Mutant: no ON DELETE CASCADE.
CascadeNone(id) == runs

\* Runs that are left when the row of a source is deleted.
Cascade(id) == [r \in DOMAIN runs \ RunsOf(id) |-> runs[r]]

Remove(n) ==
    /\ source[n] # None
    /\ source' = [source EXCEPT ![n] = None]
    /\ runs' = Cascade(source[n])
    /\ UNCHANGED <<ids, lastRun, world, scan, sweep, reader>>

-----------------------------------------------------------------------------
\* One scan.  A request for a name that is not registered is answered 404.
Begun(n, started) == [pc |-> "start", name |-> n, source |-> source[n],
                      run |-> 0, started |-> started, read |-> <<>>]

BeginScan(w, n) ==
    /\ w \in Owners /\ scan[w].pc = "idle"
    /\ source[n] # None /\ now < MaxMoments
    /\ now' = now + 1
    /\ scan' = [scan EXCEPT ![w] = Begun(n, now + 1)]
    /\ UNCHANGED <<registry, runs, lastRun, history, sweep, reader>>

\* Mutant: a failure ends the sweep.
EndStops(w, succeeded) ==
    /\ scan' = [scan EXCEPT ![w] = Free]
    /\ IF w = Sweeper
       THEN sweep' = [sweep EXCEPT !.tx = 0, !.todo = IF succeeded THEN @ ELSE {},
                          !.reached = @ \cup (IF succeeded THEN {scan[w].run} ELSE {}),
                          !.failed = @ \cup (IF succeeded THEN {} ELSE {scan[w].name})]
       ELSE sweep' = sweep

\* The scan of w is over.  The sweep notes it: a failure, whatever it was, is
\* rolled back and reported, and does not stop the sweep.
End(w, succeeded) ==
    /\ scan' = [scan EXCEPT ![w] = Free]
    /\ IF w = Sweeper
       THEN sweep' = [sweep EXCEPT !.tx = 0,
                          !.reached = @ \cup (IF succeeded THEN {scan[w].run} ELSE {}),
                          !.failed = @ \cup (IF succeeded THEN {} ELSE {scan[w].name})]
       ELSE sweep' = sweep

\* The host is no longer among SCAN_ALLOWED_HOSTS, or the driver unsupported.
Refuse(w) ==
    /\ scan[w].pc = "start"
    /\ End(w, FALSE)
    /\ UNCHANGED <<registry, runs, lastRun, world, reader>>

\* start_run, committed at once; it fails when the source is gone.
StartRun(w) ==
    /\ scan[w].pc = "start"
    /\ IF scan[w].source \in Registered
       THEN /\ lastRun' = lastRun + 1
            /\ runs' = [r \in DOMAIN runs \cup {lastRun'} |->
                          IF r = lastRun' THEN Running(scan[w].source, scan[w].started)
                                          ELSE runs[r]]
            /\ scan' = [scan EXCEPT ![w].pc = "read", ![w].run = lastRun']
            /\ UNCHANGED sweep
       ELSE End(w, FALSE) /\ UNCHANGED <<runs, lastRun>>
    /\ UNCHANGED <<registry, world, reader>>

\* The next catalog query.
ReadCatalog(w) ==
    /\ scan[w].pc = "read"
    /\ LET read == Append(scan[w].read, Current(scan[w].name))
       IN  scan' = [scan EXCEPT ![w].read = read,
                        ![w].pc = IF Len(read) = Len(Queries) THEN "finish" ELSE "read"]
    /\ UNCHANGED <<registry, runs, lastRun, world, sweep, reader>>

\* No secret, no connection, or a failed query: SourceConnectionError.
SourceFails(w) ==
    /\ scan[w].pc = "read"
    /\ scan' = [scan EXCEPT ![w].pc = "fail"]
    /\ UNCHANGED <<registry, runs, lastRun, world, sweep, reader>>

\* Resolving the secret raises something else: the run stays `running`.
SecretRaises(w) ==
    /\ scan[w].pc = "read" /\ scan[w].read = <<>>
    /\ End(w, FALSE)
    /\ UNCHANGED <<registry, runs, lastRun, world, reader>>

\* fail_run.  Nothing is written for a run that was removed.
FailRun(w) ==
    /\ scan[w].pc = "fail"
    /\ runs' = [r \in DOMAIN runs |->
                  IF r = scan[w].run THEN [runs[r] EXCEPT !.status = "failed"] ELSE runs[r]]
    /\ End(w, FALSE)
    /\ UNCHANGED <<registry, lastRun, world, reader>>

\* Run r as it is written when the scan of w succeeds.
Completed(w) == [runs[scan[w].run] EXCEPT
                     !.status = "succeeded", !.read = scan[w].read,
                     !.catalog = Observation(scan[w].name, scan[w].read)]

\* Mutant: the run is written back even when its source was removed.
RewriteRun(w) ==
    /\ scan[w].pc = "finish"
    /\ runs' = [r \in DOMAIN runs \cup {scan[w].run} |->
                  IF r = scan[w].run
                  THEN [source |-> scan[w].source, started |-> scan[w].started,
                        status |-> "succeeded", read |-> scan[w].read,
                        catalog |-> Observation(scan[w].name, scan[w].read)]
                  ELSE runs[r]]
    /\ End(w, TRUE)
    /\ UNCHANGED <<registry, lastRun, world, reader>>

\* record_observations and finish_run, in one transaction; it fails when the
\* run was removed with its source.
FinishRun(w) ==
    /\ scan[w].pc = "finish"
    /\ IF scan[w].run \in DOMAIN runs
       THEN runs' = [runs EXCEPT ![scan[w].run] = Completed(w)] /\ End(w, TRUE)
       ELSE UNCHANGED runs /\ End(w, FALSE)
    /\ UNCHANGED <<registry, lastRun, world, reader>>

-----------------------------------------------------------------------------
\* The sweep lists every source once; tx is the moment in which its open
\* transaction began, which the scan of the first source shares.
StartSweep ==
    /\ sweep.pc = "idle" /\ now < MaxMoments
    /\ LET registered == {n \in Names : source[n] # None}
       IN  sweep' = [pc |-> "sweeping", todo |-> registered,
                     total |-> Cardinality(registered),
                     since |-> now + 1, tx |-> now + 1, reached |-> {}, failed |-> {}]
    /\ now' = now + 1
    /\ UNCHANGED <<registry, runs, lastRun, history, scan, reader>>

\* get_source again; a source removed meanwhile is a failure.
NextTarget ==
    /\ sweep.pc = "sweeping" /\ scan[Sweeper].pc = "idle"
    /\ \E n \in sweep.todo :
          LET started == IF sweep.tx # 0 THEN sweep.tx ELSE now + 1
          IN  /\ \A m \in sweep.todo : Place(n) <= Place(m)
              /\ started <= MaxMoments
              /\ now' = IF sweep.tx # 0 THEN now ELSE now + 1
              /\ IF source[n] = None
                 THEN sweep' = [sweep EXCEPT !.todo = @ \ {n}, !.tx = 0, !.failed = @ \cup {n}]
                      /\ UNCHANGED scan
                 ELSE sweep' = [sweep EXCEPT !.todo = @ \ {n}]
                      /\ scan' = [scan EXCEPT ![Sweeper] = Begun(n, started)]
    /\ UNCHANGED <<registry, runs, lastRun, history, reader>>

EndSweep ==
    /\ sweep.pc = "sweeping" /\ scan[Sweeper].pc = "idle" /\ sweep.todo = {}
    /\ sweep' = [sweep EXCEPT !.pc = "ended"]
    /\ UNCHANGED <<registry, runs, lastRun, world, scan, reader>>

\* The process that scans dies: a run it began stays `running` for ever.
Crash(w) ==
    /\ scan[w].pc # "idle"
    /\ scan' = [scan EXCEPT ![w] = Free]
    /\ sweep' = IF w = Sweeper THEN NoSweep ELSE sweep
    /\ UNCHANGED <<registry, runs, lastRun, world, reader>>

-----------------------------------------------------------------------------
\* A request for the catalog: queries that have each a snapshot of its own.
AskCatalog(n) ==
    /\ reader.pc = "idle" /\ n \in Wanted /\ source[n] # None
    /\ reader' = [pc |-> "pick", source |-> source[n]]
    /\ UNCHANGED <<registry, runs, lastRun, world, scan, sweep>>

Picked(r) == [pc |-> "tables", run |-> r, status |-> runs[r].status,
              listed |-> {}, tables |-> <<>>]
Nothing == [pc |-> "answered", run |-> 0, status |-> "none",
            listed |-> {}, tables |-> <<>>]

\* The run the client named, or else the latest succeeded one, if any.
PickRun ==
    /\ reader.pc = "pick"
    /\ \/ \E r \in LatestSucceeded(reader.source) : reader' = Picked(r)
       \/ LatestSucceeded(reader.source) = {} /\ reader' = Nothing
       \/ \E r \in RunsOf(reader.source) : reader' = Picked(r)
    /\ UNCHANGED <<registry, runs, lastRun, world, scan, sweep>>

\* Mutant: rows by source and not by run.
AnyRows(r) == IF r \in DOMAIN runs
              THEN runs[CHOOSE q \in RunsOf(runs[r].source) : TRUE].catalog ELSE <<>>

\* list_catalog: the tables of a run, and then its columns.
RowsOf(r) == IF r \in DOMAIN runs THEN runs[r].catalog ELSE <<>>

ListTables ==
    /\ reader.pc = "tables"
    /\ reader' = [reader EXCEPT !.pc = "columns", !.listed = DOMAIN RowsOf(reader.run)]
    /\ UNCHANGED <<registry, runs, lastRun, world, scan, sweep>>

ListColumns ==
    /\ reader.pc = "columns"
    /\ LET rows == RowsOf(reader.run)
       IN  reader' = [reader EXCEPT !.pc = "answered", !.listed = {},
                          !.tables = [t \in reader.listed |->
                              IF t \in DOMAIN rows THEN rows[t].columns ELSE {}]]
    /\ UNCHANGED <<registry, runs, lastRun, world, scan, sweep>>

-----------------------------------------------------------------------------
ScanStep(w) == \/ Refuse(w) \/ StartRun(w) \/ ReadCatalog(w) \/ SourceFails(w)
               \/ SecretRaises(w) \/ FailRun(w) \/ FinishRun(w)

Next == \/ \E n \in Names : SourceChanges(n) \/ Register(n) \/ Remove(n) \/ AskCatalog(n)
        \/ \E w \in Scanners : ScanStep(w) \/ Crash(w) \/ \E n \in Names : BeginScan(w, n)
        \/ StartSweep \/ NextTarget \/ EndSweep
        \/ PickRun \/ ListTables \/ ListColumns

Spec == Init /\ [][Next]_vars

-----------------------------------------------------------------------------
\* Type invariant: the rows of the tables (tables.py:404-545), and what a
\* request of scan.py and a sweep of scan_job.py hold in memory.
IsCatalog(c) == \A t \in DOMAIN c : /\ c[t].kind \in {"table", "unknown"}
                                    /\ IsFiniteSet(c[t].columns)

TypeOK ==
    /\ source \in [Names -> (1 .. ids) \cup {None}]
    /\ lastRun \in Nat /\ DOMAIN runs \subseteq 1 .. lastRun
    /\ \A r \in DOMAIN runs :
          /\ runs[r].source \in 1 .. ids /\ runs[r].started \in 1 .. now
          /\ runs[r].status \in {"running", "succeeded", "failed"}
          /\ runs[r].read \in Seq(Nat) /\ IsCatalog(runs[r].catalog)
    /\ \A w \in Scanners :
          scan[w] = Free \/ /\ scan[w].pc \in {"start", "read", "finish", "fail"}
                            /\ scan[w].name \in Names /\ scan[w].source \in 1 .. ids
                            /\ scan[w].run \in 0 .. lastRun /\ scan[w].read \in Seq(Nat)
    /\ sweep.pc \in {"idle", "sweeping", "ended"}
    /\ reader.pc \in {"idle", "pick", "tables", "columns", "answered"}

\* No run and no catalog outlives its source: what a scan was still reading
\* when its source was removed is not written, neither under the old id nor
\* under a source registered again with the same name (CASCADE of
\* tables.py:466-468 and the foreign keys of the catalog's rows).
NothingOutlivesItsSource == \A r \in DOMAIN runs : runs[r].source \in Registered

\* However scans overlap, the catalog shown by default holds nothing that had
\* been replaced in the source before a completed scan of it began: what a
\* scan that came later did not see does not come back (latest_succeeded_run
\* of repositories/scan.py orders by the beginning, not by the end).
CatalogFresh ==
    \A n \in Names : \A r \in LatestSucceeded(source[n]), q \in Succeeded(source[n]) :
        \A i \in DOMAIN runs[r].read :
            runs[r].read[i] < Current(n) =>
                history[n][runs[r].read[i] + 1].since > runs[q].started

\* A scan records every column its query of columns returned, also when the
\* source changed between the queries and the table was not listed, and every
\* listed table even if it has lost its columns (build_observations).
NothingObservedIsLost ==
    \A n \in Names : \A r \in Succeeded(source[n]) :
        LET listed == history[n][runs[r].read[1]].shape
            seen   == history[n][runs[r].read[2]].shape
        IN  /\ DOMAIN listed \subseteq DOMAIN runs[r].catalog
            /\ \A t \in DOMAIN seen : /\ t \in DOMAIN runs[r].catalog
                                      /\ runs[r].catalog[t].columns = seen[t]

\* A catalog answer is that of one run, whole, although its tables and columns
\* are read by two queries and scans go on meanwhile; a run that was still
\* running may also be answered with no tables.  It is torn only when the
\* source was removed meanwhile (get_scan_catalog of routers/scan.py).
AnswerWhole ==
    reader.pc = "answered" /\ reader.run \in DOMAIN runs =>
        \/ LET rows == runs[reader.run].catalog
           IN  reader.tables = [t \in DOMAIN rows |-> rows[t].columns]
        \/ reader.status # "succeeded" /\ reader.tables = <<>>

\* A sweep that ends has tried every source it listed and counts each as
\* reached or failed, whatever failed or was removed on its way; each run it
\* counts is complete and no older than the sweep, unless its source was
\* removed (sweep_sources of scan_job.py).
SweepAccounts ==
    sweep.pc = "ended" =>
        /\ Cardinality(sweep.reached) + Cardinality(sweep.failed) = sweep.total
        /\ \A r \in sweep.reached \cap DOMAIN runs :
              runs[r].status = "succeeded" /\ runs[r].started >= sweep.since

\* The catalog with its runs, scans and crashes keeps the promise of
\* SourceCatalog: completed observations accumulate, never change, and go only
\* with their source.
Promise == INSTANCE SourceCatalog WITH
    observed <- {[run |-> r, source |-> runs[r].source, catalog |-> runs[r].catalog] :
                    r \in {q \in DOMAIN runs : runs[q].status = "succeeded"}}

ImplementsPromise == Promise!Spec
=============================================================================
