---------------------------- MODULE CatalogProofs ----------------------------
(***************************************************************************)
(* What TLAPS proves of Catalog.tla, for any sources, shapes and scanners: *)
(* its types, its safety properties and that it implements SourceCatalog.  *)
(*                                                                         *)
(* The inductive invariant CInv says what a scan in flight may still rely  *)
(* on: its source has kept its name or is gone for good, its run, if it is *)
(* left, is as it was started and nobody else's, and what it has read was  *)
(* not replaced before it began (Fresh).  A succeeded run inherits that    *)
(* from its scan; the sweep's counts and the reader's answer rest on it.   *)
(***************************************************************************)
EXTENDS Catalog, FiniteSetTheorems, TLAPS

-----------------------------------------------------------------------------
Statuses == {"running", "succeeded", "failed"}

\* What a run may hold.
Catalogs == {BuildObservations(s, t) : s \in Shapes, t \in Shapes} \cup {<<>>}

Rows == [source : 1 .. ids, started : 1 .. now, status : Statuses,
         read : Seq(Nat), catalog : Catalogs]

Scans == [pc : {"start", "read", "finish", "fail"}, name : Names, source : 1 .. ids,
          run : 0 .. lastRun, started : 1 .. now, read : Seq(Nat)]

Sweeps == [pc : {"sweeping", "ended"}, todo : SUBSET Names, total : Nat, since : 1 .. now,
           tx : 0 .. now, reached : SUBSET (1 .. lastRun), failed : SUBSET Names]

\* The registry and the source databases: no two names share an id, and a
\* source database has held something at any time.
WorldInv ==
    /\ now \in Nat /\ ids \in Nat /\ lastRun \in Nat
    /\ source \in [Names -> (1 .. ids) \cup {None}]
    /\ \A m, n \in Names : m # n /\ source[m] = source[n] => source[n] = None
    /\ history \in [Names -> Seq([since : Nat, shape : Shapes])]
    /\ \A n \in Names : history[n] # <<>>

\* What queries read of a source with history h was not replaced before the
\* moment started.
Fresh(h, read, started) ==
    \A i \in DOMAIN read :
        /\ read[i] \in 1 .. Len(h)
        /\ read[i] < Len(h) => h[read[i] + 1].since > started

\* The rows of a run: its source is there, and they are those of a scan.
RunInv(r) ==
    /\ runs[r] \in Rows
    /\ runs[r].source \in Registered
    /\ runs[r].status # "succeeded" => runs[r].read = <<>> /\ runs[r].catalog = <<>>
    /\ \A n \in Names : runs[r].status = "succeeded" /\ source[n] = runs[r].source =>
          /\ Len(runs[r].read) = 2
          /\ runs[r].catalog = Observation(n, runs[r].read)
          /\ Fresh(history[n], runs[r].read, runs[r].started)

RunsInv == /\ DOMAIN runs \subseteq 1 .. lastRun
           /\ \A r \in DOMAIN runs : RunInv(r)

\* A scan knows its source and owns its run.
ScanInv(w) ==
    scan[w].pc # "idle" =>
        /\ scan[w] \in Scans
        /\ \A n \in Names : source[n] = scan[w].source => n = scan[w].name
        /\ Fresh(history[scan[w].name], scan[w].read, scan[w].started)
        /\ scan[w].pc = "start" => scan[w].read = <<>> /\ scan[w].run = 0
        /\ scan[w].pc = "read" => Len(scan[w].read) < 2
        /\ scan[w].pc = "finish" => Len(scan[w].read) = 2
        /\ scan[w].pc # "start" => scan[w].run # 0
        /\ scan[w].run \in DOMAIN runs =>
              runs[scan[w].run] = Running(scan[w].source, scan[w].started)

ScansInv ==
    /\ scan \in [Scanners -> {Free} \cup Scans]
    /\ \A w \in Scanners : ScanInv(w)
    /\ \A v, w \in Scanners : v # w /\ scan[v].pc # "idle" /\ scan[w].pc # "idle" =>
          scan[v].run # scan[w].run \/ scan[v].run = 0

\* The sweep: each source it listed is still to do, in its scan, or counted.
InHand == IF scan[Sweeper].pc = "idle" THEN 0 ELSE 1

SweepInv ==
    /\ sweep = NoSweep => scan[Sweeper].pc = "idle"
    /\ sweep # NoSweep =>
          /\ sweep \in Sweeps
          /\ sweep.tx # 0 => sweep.tx >= sweep.since
          /\ sweep.todo \cap sweep.failed = {}
          /\ Cardinality(sweep.reached) + Cardinality(sweep.failed)
                + Cardinality(sweep.todo) + InHand = sweep.total
          /\ \A r \in sweep.reached \cap DOMAIN runs :
                runs[r].status = "succeeded" /\ runs[r].started >= sweep.since
          /\ sweep.pc = "ended" => sweep.todo = {} /\ scan[Sweeper].pc = "idle"
          /\ scan[Sweeper].pc # "idle" =>
                /\ scan[Sweeper].started >= sweep.since
                /\ scan[Sweeper].name \notin sweep.todo \cup sweep.failed
                /\ scan[Sweeper].run \notin sweep.reached

\* The reader: a run it found succeeded has stayed so, and what it listed are
\* the tables of the run, or none when the run had not succeeded.
ReaderInv ==
    /\ reader.pc \in {"idle", "pick", "tables", "columns", "answered"}
    /\ reader.pc \in {"tables", "columns", "answered"} =>
          /\ reader = [pc |-> reader.pc, run |-> reader.run, status |-> reader.status,
                       listed |-> reader.listed, tables |-> reader.tables]
          /\ reader.run \in 0 .. lastRun
          /\ reader.run \in DOMAIN runs /\ reader.status = "succeeded" =>
                runs[reader.run].status = "succeeded"
    /\ reader.pc = "columns" /\ reader.run \in DOMAIN runs =>
          \/ reader.listed = DOMAIN runs[reader.run].catalog
          \/ reader.status # "succeeded" /\ reader.listed = {}
    /\ AnswerWhole

CInv == WorldInv /\ RunsInv /\ ScansInv /\ SweepInv /\ ReaderInv

-----------------------------------------------------------------------------
(* The source databases.                                                   *)

Moments == [since : Nat, shape : Shapes]

LEMMA AppendKeepsFresh ==
    ASSUME NEW h \in Seq(Moments), NEW e \in Moments, NEW read \in Seq(Nat),
           NEW started \in Nat, e.since > started, Fresh(h, read, started)
    PROVE  /\ Fresh(Append(h, e), read, started)
           /\ \A i \in DOMAIN read : Append(h, e)[read[i]] = h[read[i]]
<1>1. /\ Len(Append(h, e)) = Len(h) + 1 /\ Len(h) \in Nat
      /\ \A k \in 1 .. Len(h) : Append(h, e)[k] = h[k]
      /\ Append(h, e)[Len(h) + 1] = e
  OBVIOUS
<1>2. ASSUME NEW i \in DOMAIN read
      PROVE  /\ read[i] \in 1 .. Len(Append(h, e))
             /\ Append(h, e)[read[i]] = h[read[i]]
             /\ read[i] < Len(Append(h, e)) => Append(h, e)[read[i] + 1].since > started
  <2>1. /\ read[i] \in 1 .. Len(h)
        /\ read[i] < Len(h) => h[read[i] + 1].since > started
    BY DEF Fresh
  <2>2. CASE read[i] < Len(h)
    BY <1>1, <2>1, <2>2
  <2>3. CASE ~ (read[i] < Len(h))
    <3>1. read[i] = Len(h)
      BY <1>1, <2>1, <2>3
    <3>2. QED
      BY <1>1, <2>1, <3>1
  <2>4. QED
    BY <2>2, <2>3
<1>3. QED
  BY <1>2 DEF Fresh

\* No row has the id of none.
LEMMA NoneApart == None \notin Nat
BY Constants

LEMMA WorldInit == Init => WorldInv
<1> SUFFICES ASSUME Init PROVE WorldInv
  OBVIOUS
<1>1. ASSUME NEW n \in Names
      PROVE  /\ Place(n) \in 1 .. Len(SweepOrder)
             /\ SweepOrder[Place(n)] = n
  <2>1. PICK i \in DOMAIN SweepOrder : SweepOrder[i] = n
    BY Constants
  <2>2. Place(n) \in DOMAIN SweepOrder /\ SweepOrder[Place(n)] = n
    BY <2>1 DEF Place
  <2>3. QED
    BY <2>2, Constants
<1>2. /\ source \in [Names -> (1 .. ids) \cup {None}]
      /\ ids \in Nat
      /\ \A m, n \in Names : m # n /\ source[m] = source[n] => source[n] = None
  BY <1>1, Constants DEF Init
<1>3. ASSUME NEW n \in Names
      PROVE  history[n] \in Seq([since : Nat, shape : Shapes]) /\ history[n] # <<>>
  <2>1. history[n] = <<[since |-> 0, shape |-> FirstShape]>>
    BY DEF Init
  <2>2. [since |-> 0, shape |-> FirstShape] \in [since : Nat, shape : Shapes]
    BY Constants
  <2>3. QED
    BY <2>1, <2>2
<1>4. history \in [Names -> Seq([since : Nat, shape : Shapes])]
  BY <1>3 DEF Init
<1>5. QED
  BY <1>2, <1>3, <1>4 DEF Init, WorldInv

\* What a change of a source leaves of it.
LEMMA Changed ==
    ASSUME WorldInv, NEW m \in Names, SourceChanges(m)
    PROVE  /\ now' = now + 1
           /\ history' \in [Names -> Seq(Moments)]
           /\ \E e \in Moments : /\ e.since = now + 1
                                 /\ history' = [history EXCEPT ![m] = Append(history[m], e)]
<1>1. PICK s \in Shapes :
        history' = [history EXCEPT ![m] = Append(@, [since |-> now + 1, shape |-> s])]
  BY DEF SourceChanges
<1> DEFINE e == [since |-> now + 1, shape |-> s]
<1>2. e \in Moments /\ e.since = now + 1
  BY DEF WorldInv, Moments
<1>3. history' = [history EXCEPT ![m] = Append(history[m], e)]
  BY <1>1
<1>4. history \in [Names -> Seq(Moments)]
  BY DEF WorldInv, Moments
<1>5. Append(history[m], e) \in Seq(Moments)
  <2> HIDE DEF e
  <2> QED  BY <1>2, <1>4
<1>6. history' \in [Names -> Seq(Moments)]
  <2> HIDE DEF e
  <2> QED  BY <1>3, <1>4, <1>5
<1>7. QED
  BY <1>2, <1>3, <1>6 DEF SourceChanges

LEMMA WorldStep == WorldInv /\ [Next]_vars => WorldInv'
<1> SUFFICES ASSUME WorldInv, [Next]_vars PROVE WorldInv'
  OBVIOUS
<1>0. now \in Nat /\ ids \in Nat /\ lastRun \in Nat
  BY DEF WorldInv
<1>1. ASSUME NEW m \in Names, SourceChanges(m) PROVE WorldInv'
  <2>1. PICK e \in Moments : /\ e.since = now + 1
                             /\ history' = [history EXCEPT ![m] = Append(history[m], e)]
    BY <1>1, Changed
  <2>2. now' = now + 1 /\ history' \in [Names -> Seq([since : Nat, shape : Shapes])]
    BY <1>1, Changed DEF Moments
  <2>3. ASSUME NEW n \in Names PROVE history'[n] # <<>>
    <3>1. history \in [Names -> Seq(Moments)] /\ history[n] # <<>>
      BY DEF WorldInv, Moments
    <3>2. \/ history'[n] = Append(history[m], e) /\ Len(history'[n]) = Len(history[m]) + 1
          \/ history'[n] = history[n]
      BY <2>1, <3>1
    <3>3. QED
      BY <3>1, <3>2
  <2>4. UNCHANGED <<source, ids, lastRun>>
    BY <1>1 DEF SourceChanges, registry
  <2>5. now' \in Nat
    BY <2>2 DEF WorldInv
  <2>6. QED
    BY <2>2, <2>3, <2>4, <2>5 DEF WorldInv
<1>2. ASSUME NEW n \in Names, Register(n) PROVE WorldInv'
  <2>1. /\ ids' = ids + 1
        /\ source' = [source EXCEPT ![n] = ids + 1]
        /\ UNCHANGED <<lastRun, history, now>>
    BY <1>2 DEF Register, world
  <2>2. source' \in [Names -> (1 .. ids') \cup {None}]
    BY <2>1 DEF WorldInv
  <2>3. ASSUME NEW i \in Names, NEW j \in Names, i # j, source'[i] = source'[j]
        PROVE  source'[j] = None
    <3>0. source \in [Names -> (1 .. ids) \cup {None}] /\ ids \in Nat
      BY DEF WorldInv
    <3>1. \A k \in Names : source[k] # ids + 1
      <4>1. ids + 1 \notin (1 .. ids) \cup {None}
        BY <3>0, NoneApart
      <4>2. \A k \in Names : source[k] \in (1 .. ids) \cup {None}
        BY <3>0
      <4>3. QED
        BY <4>1, <4>2
    <3>2. \A k \in Names : source'[k] = IF k = n THEN ids + 1 ELSE source[k]
      BY <2>1 DEF WorldInv
    <3>3. i # n /\ j # n
      BY <2>3, <3>1, <3>2
    <3>4. QED
      BY <2>3, <3>2, <3>3 DEF WorldInv
  <2>4. now' \in Nat /\ ids' \in Nat /\ lastRun' \in Nat
    BY <2>1 DEF WorldInv
  <2>5. QED
    BY <2>1, <2>2, <2>3, <2>4 DEF WorldInv
<1>3. ASSUME NEW n \in Names, Remove(n) PROVE WorldInv'
  <2>1. source' = [source EXCEPT ![n] = None] /\ UNCHANGED <<ids, lastRun, history, now>>
    BY <1>3 DEF Remove, world
  <2>2. QED
    BY <2>1 DEF WorldInv
<1>4. ASSUME UNCHANGED <<source, ids, history>>, now' \in Nat, lastRun' \in Nat
      PROVE  WorldInv'
  BY <1>4 DEF WorldInv
<1>5. ASSUME NEW w \in Scanners, ScanStep(w) PROVE WorldInv'
  <2>1. UNCHANGED <<source, ids, history, now>>
    BY <1>5 DEF ScanStep, Refuse, StartRun, ReadCatalog, SourceFails, SecretRaises,
       FailRun, FinishRun, registry, world
  <2>2. lastRun' = lastRun \/ lastRun' = lastRun + 1
    BY <1>5 DEF ScanStep, Refuse, StartRun, ReadCatalog, SourceFails, SecretRaises,
       FailRun, FinishRun
  <2>3. QED
    BY <1>0, <1>4, <2>1, <2>2
<1>6. ASSUME \/ \E n \in Names : AskCatalog(n)
             \/ \E w \in Scanners : Crash(w) \/ \E n \in Names : BeginScan(w, n)
             \/ StartSweep \/ NextTarget \/ EndSweep \/ PickRun \/ ListTables \/ ListColumns
             \/ UNCHANGED vars
      PROVE  WorldInv'
  <2>1. UNCHANGED <<source, ids, history, lastRun>>
    BY <1>6 DEF AskCatalog, Crash, BeginScan, StartSweep, NextTarget, EndSweep, PickRun,
       ListTables, ListColumns, registry, world, vars
  <2>2. now' = now \/ now' = now + 1
    BY <1>6 DEF AskCatalog, Crash, BeginScan, StartSweep, NextTarget, EndSweep, PickRun,
       ListTables, ListColumns, world, vars
  <2>3. QED
    BY <1>0, <1>4, <2>1, <2>2
<1>7. CASE Next
  BY <1>1, <1>2, <1>3, <1>5, <1>6, <1>7 DEF Next
<1>8. QED
  BY <1>6, <1>7
-----------------------------------------------------------------------------
(* The runs.                                                               *)

\* What a step may do to the registry and the sources without touching a run.
Meanwhile == /\ ids' \in Nat /\ now' \in Nat /\ ids <= ids' /\ now <= now'
             /\ \A n \in Names : source'[n] \in {source[n], None, ids + 1}
             /\ history' = history \/ \E m \in Names : SourceChanges(m)

LEMMA HistoryKept ==
    ASSUME WorldInv, history' = history \/ \E m \in Names : SourceChanges(m),
           NEW n \in Names, NEW read \in Seq(Nat), NEW started \in 1 .. now,
           Fresh(history[n], read, started)
    PROVE  /\ Fresh(history'[n], read, started)
           /\ Len(read) = 2 =>
                BuildObservations(history'[n][read[1]].shape, history'[n][read[2]].shape)
                    = BuildObservations(history[n][read[1]].shape, history[n][read[2]].shape)
<1>1. CASE history'[n] = history[n]
  BY <1>1
<1>2. ASSUME NEW m \in Names, SourceChanges(m), history'[n] # history[n]
      PROVE  /\ Fresh(history'[n], read, started)
             /\ Len(read) = 2 =>
                  /\ history'[n][read[1]] = history[n][read[1]]
                  /\ history'[n][read[2]] = history[n][read[2]]
  <2>1. PICK e \in Moments : /\ e.since = now + 1
                             /\ history' = [history EXCEPT ![m] = Append(history[m], e)]
    BY <1>2, Changed
  <2>2. history \in [Names -> Seq(Moments)] /\ now \in Nat
    BY DEF WorldInv, Moments
  <2>3. history'[n] = Append(history[n], e)
    BY <1>2, <2>1, <2>2
  <2>4. started \in Nat /\ e.since > started
    BY <2>1, <2>2
  <2>5. history[n] \in Seq(Moments)
    BY <2>2
  <2>6. /\ Fresh(Append(history[n], e), read, started)
        /\ \A i \in DOMAIN read : Append(history[n], e)[read[i]] = history[n][read[i]]
    BY <2>4, <2>5, AppendKeepsFresh
  <2>7. ASSUME Len(read) = 2
        PROVE  /\ Append(history[n], e)[read[1]] = history[n][read[1]]
               /\ Append(history[n], e)[read[2]] = history[n][read[2]]
    <3>1. 1 \in DOMAIN read /\ 2 \in DOMAIN read
      BY <2>7
    <3>2. QED
      BY <2>6, <3>1, Zenon
  <2>8. QED
    BY <2>3, <2>6, <2>7, Zenon
<1>3. QED
  BY <1>1, <1>2

LEMMA RunKept ==
    ASSUME WorldInv, Meanwhile, NEW r, RunInv(r), runs'[r] = runs[r],
           runs[r].source \in Registered'
    PROVE  RunInv(r)'
<1> DEFINE row == runs[r]
<1>1. /\ row.source \in 1 .. ids /\ row.started \in 1 .. now /\ row.read \in Seq(Nat)
      /\ row \in Rows
  BY DEF RunInv, Rows
<1>2. ids \in Nat /\ now \in Nat /\ ids' \in Nat /\ now' \in Nat /\ ids <= ids' /\ now <= now'
  BY DEF WorldInv, Meanwhile
<1>3. runs'[r] \in Rows'
  <2>1. 1 .. ids \subseteq 1 .. ids' /\ 1 .. now \subseteq 1 .. now'
    BY <1>2
  <2>2. QED
    BY <1>1, <2>1 DEF Rows, Catalogs, Statuses
<1>4. ASSUME NEW n \in Names, row.status = "succeeded", source'[n] = row.source
      PROVE  /\ Len(row.read) = 2
             /\ row.catalog = BuildObservations(history'[n][row.read[1]].shape,
                                                history'[n][row.read[2]].shape)
             /\ Fresh(history'[n], row.read, row.started)
  <2>1. source[n] = row.source
    BY <1>1, <1>2, <1>4, NoneApart DEF Meanwhile
  <2>2. /\ Len(row.read) = 2
        /\ row.catalog = Observation(n, row.read)
        /\ Fresh(history[n], row.read, row.started)
    BY <1>4, <2>1 DEF RunInv
  <2>3. history' = history \/ \E m \in Names : SourceChanges(m)
    BY DEF Meanwhile
  <2>4. row.read \in Seq(Nat) /\ row.started \in 1 .. now
    BY <1>1
  <2> HIDE DEF row
  <2>5. /\ Fresh(history'[n], row.read, row.started)
        /\ BuildObservations(history'[n][row.read[1]].shape, history'[n][row.read[2]].shape)
             = BuildObservations(history[n][row.read[1]].shape, history[n][row.read[2]].shape)
    BY <2>2, <2>3, <2>4, HistoryKept
  <2>6. QED
    BY <2>2, <2>5 DEF Observation
<1>5. row.status # "succeeded" => row.read = <<>> /\ row.catalog = <<>>
  BY DEF RunInv
<1>6. QED
  BY <1>3, <1>4, <1>5 DEF RunInv, Observation

LEMMA RunsInit == Init => RunsInv
  BY DEF Init, RunsInv

\* Most steps write no run.
LEMMA RunsUntouched ==
    ASSUME WorldInv, RunsInv, ids' \in Nat, now' \in Nat, ids <= ids', now <= now',
           \A n \in Names : source'[n] = source[n] \/ (source[n] = None /\ source'[n] = ids + 1),
           history' = history \/ \E m \in Names : SourceChanges(m),
           UNCHANGED <<runs, lastRun>>
    PROVE  RunsInv'
<1>1. Meanwhile
  BY DEF Meanwhile
<1>2. ASSUME NEW r \in DOMAIN runs PROVE RunInv(r)'
  <2>1. RunInv(r) /\ runs'[r] = runs[r]
    BY DEF RunsInv
  <2>2. PICK n \in Names : source[n] = runs[r].source /\ source[n] # None
    BY <2>1 DEF RunInv, Registered
  <2>3. runs[r].source \in Registered'
    BY <2>2 DEF Registered
  <2>4. QED
    BY <1>1, <2>1, <2>3, RunKept
<1>3. QED
  BY <1>2 DEF RunsInv

\* The rows that Cascade leaves belong to other sources.
LEMMA RunsRemove ==
    ASSUME WorldInv, RunsInv, NEW n \in Names, Remove(n)
    PROVE  RunsInv'
<1>1. /\ source[n] # None
      /\ source' = [source EXCEPT ![n] = None]
      /\ runs' = [r \in DOMAIN runs \ RunsOf(source[n]) |-> runs[r]]
      /\ UNCHANGED <<ids, lastRun, history, now>>
  BY DEF Remove, Cascade, world
<1>2. source \in [Names -> (1 .. ids) \cup {None}] /\ ids \in Nat /\ now \in Nat
  BY DEF WorldInv
<1>3. \A k \in Names : source'[k] = IF k = n THEN None ELSE source[k]
  BY <1>1, <1>2
<1>4. Meanwhile
  BY <1>1, <1>2, <1>3 DEF Meanwhile
<1>5. ASSUME NEW r \in DOMAIN runs' PROVE RunInv(r)'
  <2>1. r \in DOMAIN runs /\ runs'[r] = runs[r] /\ runs[r].source # source[n]
    BY <1>1 DEF RunsOf
  <2>2. RunInv(r)
    BY <2>1 DEF RunsInv
  <2>3. PICK k \in Names : source[k] = runs[r].source /\ source[k] # None
    BY <2>2 DEF RunInv, Registered
  <2>4. runs[r].source \in Registered'
    BY <1>3, <2>1, <2>3 DEF Registered
  <2>5. QED
    BY <1>4, <2>1, <2>2, <2>4, RunKept
<1>6. DOMAIN runs' \subseteq 1 .. lastRun'
  BY <1>1 DEF RunsInv
<1>7. QED
  BY <1>5, <1>6 DEF RunsInv

\* A step of a scan changes at most its own run.
LEMMA RunsWritten ==
    ASSUME WorldInv, RunsInv, UNCHANGED <<source, ids, history, now>>, lastRun' \in Nat,
           lastRun <= lastRun',
           NEW run \in 1 .. lastRun', DOMAIN runs' \subseteq DOMAIN runs \cup {run},
           \A r \in DOMAIN runs' : r # run => runs'[r] = runs[r],
           run \in DOMAIN runs' => RunInv(run)'
    PROVE  RunsInv'
<1>1. now \in Nat /\ ids \in Nat /\ lastRun \in Nat
  BY DEF WorldInv
<1>2. Meanwhile
  BY <1>1 DEF Meanwhile
<1>3. ASSUME NEW r \in DOMAIN runs', r # run PROVE RunInv(r)'
  <2>1. r \in DOMAIN runs /\ runs'[r] = runs[r]
    BY <1>3
  <2>2. RunInv(r)
    BY <2>1 DEF RunsInv
  <2>3. runs[r].source \in Registered'
    BY <2>2 DEF RunInv, Registered
  <2>4. QED
    BY <1>2, <2>1, <2>2, <2>3, RunKept
<1>4. DOMAIN runs' \subseteq 1 .. lastRun'
  BY <1>1 DEF RunsInv
<1>5. QED
  BY <1>3, <1>4 DEF RunsInv

\* What CInv says of a scan in flight.
LEMMA InFlight ==
    ASSUME ScansInv, NEW w \in Scanners, scan[w].pc # "idle"
    PROVE  /\ ScanInv(w)
           /\ scan[w].name \in Names /\ scan[w].source \in 1 .. ids
           /\ scan[w].run \in 0 .. lastRun /\ scan[w].started \in 1 .. now
           /\ scan[w].read \in Seq(Nat)
BY DEF ScansInv, ScanInv, Scans

LEMMA RunsStart ==
    ASSUME WorldInv, RunsInv, ScansInv, NEW w \in Scanners, StartRun(w)
    PROVE  RunsInv'
<1>1. scan[w].pc = "start" /\ UNCHANGED <<source, ids, history, now>>
  BY DEF StartRun, registry, world
<1>2. scan[w].source \in 1 .. ids /\ scan[w].started \in 1 .. now
  BY <1>1, InFlight
<1>3. now \in Nat /\ ids \in Nat /\ lastRun \in Nat
  BY DEF WorldInv
<1>4. CASE scan[w].source \in Registered
  <2>0. PICK run, row : run = lastRun + 1 /\ row = Running(scan[w].source, scan[w].started)
    OBVIOUS
  <2>1. /\ lastRun' = run
        /\ runs' = [r \in DOMAIN runs \cup {run} |-> IF r = run THEN row ELSE runs[r]]
    BY <1>4, <2>0 DEF StartRun
  <2>2. /\ runs'[run] = row
        /\ DOMAIN runs' = DOMAIN runs \cup {run}
        /\ \A r \in DOMAIN runs' : r # run => runs'[r] = runs[r]
    BY <2>1
  <2>3. /\ row.source = scan[w].source /\ row.started = scan[w].started
        /\ row.status = "running" /\ row.read = <<>> /\ row.catalog = <<>>
        /\ row = [source |-> scan[w].source, started |-> scan[w].started,
                  status |-> "running", read |-> <<>>, catalog |-> <<>>]
    BY <2>0 DEF Running
  <2>4. row \in Rows'
    <3>1. <<>> \in Seq(Nat) /\ <<>> \in Catalogs
      BY DEF Catalogs
    <3>2. scan[w].source \in 1 .. ids' /\ scan[w].started \in 1 .. now'
      BY <1>1, <1>2
    <3>3. QED
      BY <2>3, <3>1, <3>2 DEF Rows, Statuses
  <2>5. row.source \in Registered'
    BY <1>1, <1>4, <2>3 DEF Registered
  <2>6. RunInv(run)'
    BY <2>1, <2>2, <2>3, <2>4, <2>5 DEF RunInv
  <2>7. run \in 1 .. lastRun' /\ lastRun' \in Nat /\ lastRun <= lastRun'
    BY <1>3, <2>0, <2>1
  <2>8. DOMAIN runs' \subseteq DOMAIN runs \cup {run}
    BY <2>2
  <2>9. QED
    BY <1>1, <2>2, <2>6, <2>7, <2>8, RunsWritten
<1>5. CASE scan[w].source \notin Registered
  <2>1. UNCHANGED <<runs, lastRun>>
    BY <1>5 DEF StartRun
  <2>2. ids' \in Nat /\ now' \in Nat /\ ids <= ids' /\ now <= now'
    BY <1>1, <1>3
  <2>3. /\ \A n \in Names : source'[n] = source[n] \/ (source[n] = None /\ source'[n] = ids + 1)
        /\ history' = history
    BY <1>1
  <2>4. QED
    BY <2>1, <2>2, <2>3, RunsUntouched, Zenon
<1>6. QED
  BY <1>4, <1>5

LEMMA RunsFail ==
    ASSUME WorldInv, RunsInv, ScansInv, NEW w \in Scanners, FailRun(w)
    PROVE  RunsInv'
<1>0. PICK run : run = scan[w].run
  OBVIOUS
<1>1. /\ scan[w].pc = "fail" /\ UNCHANGED <<source, ids, history, now, lastRun>>
      /\ runs' = [r \in DOMAIN runs |->
                    IF r = run THEN [runs[r] EXCEPT !.status = "failed"] ELSE runs[r]]
  BY <1>0 DEF FailRun, registry, world
<1>2. run \in 1 .. lastRun' /\ lastRun' \in Nat /\ lastRun <= lastRun'
  <2>1. run \in 0 .. lastRun /\ run # 0 /\ lastRun \in Nat
    BY <1>0, <1>1, InFlight DEF ScanInv, WorldInv
  <2>2. QED
    BY <1>1, <2>1
<1>3. ASSUME run \in DOMAIN runs' PROVE RunInv(run)'
  <2>1. run \in DOMAIN runs /\ runs[run] = Running(scan[w].source, scan[w].started)
    BY <1>0, <1>1, <1>3, InFlight DEF ScanInv
  <2>2. RunInv(run)
    BY <2>1 DEF RunsInv
  <2>3. runs'[run] = [source |-> scan[w].source, started |-> scan[w].started,
                      status |-> "failed", read |-> <<>>, catalog |-> <<>>]
    BY <1>1, <2>1 DEF Running
  <2>4. runs[run].source = scan[w].source /\ runs[run] \in Rows
        /\ runs[run].started = scan[w].started
    BY <2>1, <2>2 DEF RunInv, Running
  <2>5. scan[w].source \in 1 .. ids /\ scan[w].started \in 1 .. now
    BY <1>1, InFlight
  <2>6. runs'[run] \in Rows'
    <3>1. <<>> \in Seq(Nat) /\ <<>> \in Catalogs
      BY DEF Catalogs
    <3>2. scan[w].source \in 1 .. ids' /\ scan[w].started \in 1 .. now'
      BY <1>1, <2>5
    <3>3. QED
      BY <2>3, <3>1, <3>2 DEF Rows, Statuses
  <2>7. runs'[run].source \in Registered'
    BY <1>1, <2>2, <2>3, <2>4 DEF RunInv, Registered
  <2>8. /\ runs'[run].status = "failed" /\ runs'[run].read = <<>>
        /\ runs'[run].catalog = <<>>
    BY <2>3
  <2>9. QED
    BY <2>6, <2>7, <2>8 DEF RunInv
<1>4. DOMAIN runs' = DOMAIN runs /\ \A r \in DOMAIN runs' : r # run => runs'[r] = runs[r]
  BY <1>1
<1>5. QED
  BY <1>1, <1>2, <1>3, <1>4, RunsWritten

LEMMA RunsFinish ==
    ASSUME WorldInv, RunsInv, ScansInv, NEW w \in Scanners, FinishRun(w)
    PROVE  RunsInv'
<1>0. PICK run, read, name : /\ run = scan[w].run /\ read = scan[w].read
                             /\ name = scan[w].name
  OBVIOUS
<1>1. /\ scan[w].pc = "finish" /\ UNCHANGED <<source, ids, history, now, lastRun>>
  BY DEF FinishRun, registry, world
<1>2. /\ name \in Names /\ read \in Seq(Nat) /\ Len(read) = 2
      /\ Fresh(history[name], read, scan[w].started)
      /\ scan[w].source \in 1 .. ids /\ scan[w].started \in 1 .. now
      /\ \A n \in Names : source[n] = scan[w].source => n = name
      /\ run \in 1 .. lastRun
  <2>1. ScanInv(w) /\ scan[w].run \in 0 .. lastRun
    BY <1>1, InFlight
  <2>2. scan[w].run # 0 /\ lastRun \in Nat
    BY <1>1, <2>1 DEF ScanInv, WorldInv
  <2>3. scan[w].run \in 1 .. lastRun
    BY <2>1, <2>2
  <2>4. QED
    BY <1>0, <1>1, <2>1, <2>3, InFlight DEF ScanInv
<1>3. CASE run \in DOMAIN runs
  <2>1. runs[run] = Running(scan[w].source, scan[w].started)
    BY <1>0, <1>1, <1>3, InFlight DEF ScanInv
  <2>2. RunInv(run)
    BY <1>3 DEF RunsInv
  <2>3. runs' = [runs EXCEPT ![run] = Completed(w)]
    BY <1>0, <1>3 DEF FinishRun
  <2>4. /\ runs'[run] = [runs[run] EXCEPT !.status = "succeeded", !.read = read,
                                          !.catalog = Observation(name, read)]
        /\ runs[run] \in Rows
    BY <1>0, <1>3, <2>2, <2>3 DEF Completed, RunInv
  <2>5. /\ runs'[run].source = scan[w].source /\ runs'[run].started = scan[w].started
         /\ runs'[run].status = "succeeded" /\ runs'[run].read = read
         /\ runs'[run].catalog = Observation(name, read)
    BY <2>1, <2>4 DEF Rows, Running
  <2>6. Observation(name, read) \in Catalogs
    <3>1. history[name] \in Seq(Moments)
      BY <1>2 DEF WorldInv, Moments
    <3>2. read[1] \in DOMAIN history[name] /\ read[2] \in DOMAIN history[name]
      <4>1. 1 \in DOMAIN read /\ 2 \in DOMAIN read
        BY <1>2
      <4>2. DOMAIN history[name] = 1 .. Len(history[name])
        BY <3>1
      <4>3. QED
        BY <1>2, <4>1, <4>2 DEF Fresh
    <3>3. history[name][read[1]] \in Moments /\ history[name][read[2]] \in Moments
      BY <3>1, <3>2
    <3>4. history[name][read[1]].shape \in Shapes /\ history[name][read[2]].shape \in Shapes
      BY <3>3 DEF Moments
    <3>5. QED
      BY <3>4 DEF Observation, Catalogs
  <2>7. runs'[run] \in Rows'
    <3>1. runs'[run] \in Rows
      BY <1>2, <2>4, <2>6 DEF Rows, Statuses
    <3>2. ids' = ids /\ now' = now
      BY <1>1
    <3>3. QED
      BY <3>1, <3>2 DEF Rows, Catalogs
  <2>8. runs'[run].source \in Registered'
    BY <1>1, <2>1, <2>2, <2>5 DEF RunInv, Registered, Running
  <2>9. ASSUME NEW n \in Names, source'[n] = runs'[run].source
        PROVE  /\ Len(runs'[run].read) = 2
               /\ runs'[run].catalog = Observation(n, runs'[run].read)
               /\ Fresh(history[n], runs'[run].read, runs'[run].started)
    <3>1. n = name
      BY <1>1, <1>2, <2>5, <2>9
    <3>2. QED
      BY <1>2, <2>5, <3>1
  <2>10. RunInv(run)'
    <3>1. /\ runs'[run].status = "succeeded" /\ UNCHANGED <<source, history>>
      BY <1>1, <2>5
    <3>2. QED
      BY <2>7, <2>8, <2>9, <3>1 DEF RunInv, Observation
  <2>11. /\ DOMAIN runs' \subseteq DOMAIN runs \cup {run}
         /\ \A r \in DOMAIN runs' : r # run => runs'[r] = runs[r]
    BY <2>3
  <2>12. run \in 1 .. lastRun' /\ lastRun' \in Nat /\ lastRun <= lastRun'
    BY <1>1, <1>2 DEF WorldInv
  <2>13. QED
    BY <1>1, <2>10, <2>11, <2>12, RunsWritten
<1>4. CASE run \notin DOMAIN runs
  <2>1. UNCHANGED <<runs, lastRun>>
    BY <1>0, <1>1, <1>4 DEF FinishRun
  <2>2. now \in Nat /\ ids \in Nat
    BY DEF WorldInv
  <2>3. ids' \in Nat /\ now' \in Nat /\ ids <= ids' /\ now <= now'
    BY <1>1, <2>2
  <2>4. source' = source /\ history' = history
    BY <1>1
  <2>5. QED
    BY <2>1, <2>3, <2>4, RunsUntouched
<1>5. QED
  BY <1>3, <1>4

LEMMA RunsStep == WorldInv /\ RunsInv /\ ScansInv /\ [Next]_vars => RunsInv'
<1> SUFFICES ASSUME WorldInv, RunsInv, ScansInv, [Next]_vars PROVE RunsInv'
  OBVIOUS
<1>0. now \in Nat /\ ids \in Nat
  BY DEF WorldInv
<1>1. ASSUME UNCHANGED <<runs, lastRun, source, ids>>,
             now' = now \/ now' = now + 1,
             history' = history \/ \E m \in Names : SourceChanges(m)
      PROVE  RunsInv'
  <2>1. ids' \in Nat /\ now' \in Nat /\ ids <= ids' /\ now <= now'
    BY <1>0, <1>1
  <2>2. source' = source /\ UNCHANGED <<runs, lastRun>>
    BY <1>1
  <2>3. QED
    BY <1>1, <2>1, <2>2, RunsUntouched
<1>2. ASSUME NEW n \in Names, SourceChanges(n) PROVE RunsInv'
  BY <1>1, <1>2 DEF SourceChanges, registry
<1>3. ASSUME NEW n \in Names, Register(n) PROVE RunsInv'
  <2>1. /\ source[n] = None /\ source' = [source EXCEPT ![n] = ids + 1]
        /\ ids' = ids + 1 /\ UNCHANGED <<runs, lastRun, history, now>>
    BY <1>3 DEF Register, world
  <2>2. source \in [Names -> (1 .. ids) \cup {None}]
    BY DEF WorldInv
  <2>3. \A k \in Names : source'[k] = source[k] \/ (source[k] = None /\ source'[k] = ids + 1)
    BY <2>1, <2>2
  <2>4. ids' \in Nat /\ now' \in Nat /\ ids <= ids' /\ now <= now'
    BY <1>0, <2>1
  <2>5. history' = history /\ UNCHANGED <<runs, lastRun>>
    BY <2>1
  <2>6. QED
    BY <2>3, <2>4, <2>5, RunsUntouched
<1>4. ASSUME NEW n \in Names, Remove(n) PROVE RunsInv'
  BY <1>4, RunsRemove
<1>5. ASSUME NEW w \in Scanners, ScanStep(w) PROVE RunsInv'
  <2>1. CASE StartRun(w)
    BY <2>1, RunsStart
  <2>2. CASE FailRun(w)
    BY <2>2, RunsFail
  <2>3. CASE FinishRun(w)
    BY <2>3, RunsFinish
  <2>4. ASSUME Refuse(w) \/ ReadCatalog(w) \/ SourceFails(w) \/ SecretRaises(w)
        PROVE  RunsInv'
    BY <1>1, <2>4 DEF Refuse, ReadCatalog, SourceFails, SecretRaises, registry, world
  <2>5. QED
    BY <1>5, <2>1, <2>2, <2>3, <2>4 DEF ScanStep
<1>6. ASSUME \/ \E n \in Names : AskCatalog(n)
             \/ \E w \in Scanners : Crash(w) \/ \E n \in Names : BeginScan(w, n)
             \/ StartSweep \/ NextTarget \/ EndSweep \/ PickRun \/ ListTables \/ ListColumns
             \/ UNCHANGED vars
      PROVE  RunsInv'
  <2>1. UNCHANGED <<runs, lastRun, source, ids, history>>
    BY <1>6 DEF AskCatalog, Crash, BeginScan, StartSweep, NextTarget, EndSweep, PickRun,
       ListTables, ListColumns, registry, world, vars
  <2>2. now' = now \/ now' = now + 1
    BY <1>6 DEF AskCatalog, Crash, BeginScan, StartSweep, NextTarget, EndSweep, PickRun,
       ListTables, ListColumns, world, vars
  <2>3. QED
    BY <1>1, <2>1, <2>2
<1>7. CASE Next
  BY <1>2, <1>3, <1>4, <1>5, <1>6, <1>7 DEF Next
<1>8. QED
  BY <1>6, <1>7
-----------------------------------------------------------------------------
(* The scans in flight.                                                    *)

LEMMA ScansInit == Init => ScansInv
<1> SUFFICES ASSUME Init PROVE ScansInv
  OBVIOUS
<1>1. scan = [w \in Scanners |-> Free] /\ Free.pc = "idle"
  BY DEF Init, Free
<1>2. \A w \in Scanners : scan[w] = Free /\ scan[w].pc = "idle"
  BY <1>1
<1>3. QED
  BY <1>1, <1>2 DEF ScansInv, ScanInv

\* The run of w is what it was, if it is still there.
RunLeft(w) == scan[w].run \in DOMAIN runs' =>
                 scan[w].run \in DOMAIN runs /\ runs'[scan[w].run] = runs[scan[w].run]

\* A scan that does not move keeps what it relies on.
LEMMA ScanKept ==
    ASSUME WorldInv, ScansInv, Meanwhile, lastRun' \in Nat, lastRun <= lastRun',
           NEW w \in Scanners, scan'[w] = scan[w], scan[w].pc # "idle", RunLeft(w)
    PROVE  ScanInv(w)'
<1>0. PICK s : s = scan[w]
  OBVIOUS
<1>1. /\ s \in Scans /\ ScanInv(w) /\ scan'[w] = s /\ scan[w] = s
      /\ s.name \in Names /\ s.source \in 1 .. ids /\ s.run \in 0 .. lastRun
      /\ s.started \in 1 .. now /\ s.read \in Seq(Nat)
  BY <1>0, InFlight DEF ScanInv
<1>2. ids \in Nat /\ now \in Nat /\ lastRun \in Nat /\ ids' \in Nat /\ now' \in Nat
      /\ ids <= ids' /\ now <= now'
  BY DEF WorldInv, Meanwhile
<1>3. s \in Scans'
  <2>1. /\ 1 .. ids \subseteq 1 .. ids' /\ 1 .. now \subseteq 1 .. now'
        /\ 0 .. lastRun \subseteq 0 .. lastRun'
    BY <1>2
  <2>2. QED
    BY <1>1, <2>1 DEF Scans
<1>4. ASSUME NEW n \in Names, source'[n] = s.source PROVE n = s.name
  <2>1. source[n] = s.source
    <3>1. source'[n] \in {source[n], None, ids + 1}
      BY DEF Meanwhile
    <3>2. s.source \in Nat /\ s.source # ids + 1 /\ None \notin Nat
      BY <1>1, <1>2, NoneApart
    <3>3. QED
      BY <1>4, <3>1, <3>2
  <2>2. QED
    BY <1>1, <2>1 DEF ScanInv
<1>5. Fresh(history'[s.name], s.read, s.started)
  <2>1. Fresh(history[s.name], s.read, s.started)
    BY <1>1 DEF ScanInv
  <2>2. history' = history \/ \E m \in Names : SourceChanges(m)
    BY DEF Meanwhile
  <2>3. QED
    BY <1>1, <2>1, <2>2, HistoryKept
<1>6. /\ s.pc = "start" => s.read = <<>> /\ s.run = 0
      /\ s.pc = "read" => Len(s.read) < 2
      /\ s.pc = "finish" => Len(s.read) = 2
      /\ s.pc # "start" => s.run # 0
  BY <1>1 DEF ScanInv
<1>7. s.run \in DOMAIN runs' => runs'[s.run] = Running(s.source, s.started)
  BY <1>1 DEF ScanInv, RunLeft
<1>8. QED
  BY <1>1, <1>3, <1>4, <1>5, <1>6, <1>7 DEF ScanInv, Running

\* Nobody moves.
LEMMA ScansKept ==
    ASSUME WorldInv, ScansInv, Meanwhile, lastRun' \in Nat, lastRun <= lastRun', scan' = scan,
           \A v \in Scanners : scan[v].pc # "idle" => RunLeft(v)
    PROVE  ScansInv'
<1>1. ASSUME NEW v \in Scanners
      PROVE  /\ scan'[v] \in {Free} \cup Scans'
             /\ ScanInv(v)'
  <2>1. CASE scan[v].pc # "idle"
    <3>1. ScanInv(v)'
      BY <2>1, ScanKept
    <3>2. QED
      BY <2>1, <3>1 DEF ScanInv
  <2>2. CASE scan[v].pc = "idle"
    <3>1. scan[v] = Free
      BY <2>2 DEF ScansInv, Scans
    <3>2. QED
      BY <2>2, <3>1 DEF ScanInv
  <2>3. QED
    BY <2>1, <2>2
<1>2. scan' \in [Scanners -> {Free} \cup Scans']
  <2>1. scan = [v \in Scanners |-> scan[v]]
    BY DEF ScansInv
  <2>2. QED
    BY <1>1, <2>1
<1>3. QED
  BY <1>1, <1>2 DEF ScansInv, Free

\* One scan moves: it is over, or it keeps its run or takes a new one.
LEMMA ScansMove ==
    ASSUME WorldInv, ScansInv, Meanwhile, lastRun' \in Nat, lastRun <= lastRun',
           NEW w \in Scanners, NEW s, scan' = [scan EXCEPT ![w] = s],
           \A v \in Scanners : v # w /\ scan[v].pc # "idle" => RunLeft(v),
           \/ s = Free
           \/ /\ s \in Scans' /\ ScanInv(w)'
              /\ \/ s.run = 0 \/ s.run > lastRun
                 \/ scan[w].pc # "idle" /\ s.run = scan[w].run
    PROVE  ScansInv'
<1>0. lastRun \in Nat /\ Free.pc = "idle"
  BY DEF WorldInv, Free
<1>1. scan = [v \in Scanners |-> scan[v]]
  BY DEF ScansInv
<1>2. scan'[w] = s /\ \A v \in Scanners : v # w => scan'[v] = scan[v]
  BY <1>1
<1>3. ASSUME NEW v \in Scanners
      PROVE  /\ scan'[v] \in {Free} \cup Scans'
             /\ ScanInv(v)'
  <2>1. CASE v = w /\ s = Free
    BY <1>0, <1>2, <2>1 DEF ScanInv
  <2>2. CASE v = w /\ s # Free
    BY <1>2, <2>2
  <2>3. CASE v # w /\ scan[v].pc # "idle"
    <3>1. ScanInv(v)'
      BY <1>2, <2>3, ScanKept
    <3>2. QED
      BY <1>2, <2>3, <3>1 DEF ScanInv
  <2>4. CASE v # w /\ scan[v].pc = "idle"
    <3>1. scan[v] = Free
      BY <2>4 DEF ScansInv, Scans
    <3>2. QED
      BY <1>2, <2>4, <3>1 DEF ScanInv
  <2>5. QED
    BY <2>1, <2>2, <2>3, <2>4
<1>4. scan' \in [Scanners -> {Free} \cup Scans']
  <2>1. DOMAIN scan' = Scanners /\ scan' = [v \in Scanners |-> scan'[v]]
    BY <1>1
  <2>2. QED
    BY <1>3, <2>1
<1>5. \A v \in Scanners : scan[v].pc # "idle" => scan[v].run \in 0 .. lastRun
  BY InFlight
<1>6. ASSUME NEW v \in Scanners, NEW u \in Scanners, v # u,
             scan'[v].pc # "idle", scan'[u].pc # "idle"
      PROVE  scan'[v].run # scan'[u].run \/ scan'[v].run = 0
  <2>1. CASE v # w /\ u # w
    BY <1>2, <1>6, <2>1 DEF ScansInv
  <2>2. ASSUME NEW o \in Scanners, o # w, scan[o].pc # "idle", s # Free
        PROVE  s.run # scan[o].run \/ s.run = 0
    <3>1. CASE s.run > lastRun
      BY <1>0, <1>5, <2>2, <3>1
    <3>2. CASE scan[w].pc # "idle" /\ s.run = scan[w].run
      BY <2>2, <3>2 DEF ScansInv
    <3>3. QED
      BY <2>2, <3>1, <3>2
  <2>3. QED
    BY <1>0, <1>2, <1>6, <2>1, <2>2
<1>7. QED
  BY <1>3, <1>4, <1>6 DEF ScansInv

\* Nothing but the source of a scan is touched by what a scan does.
LEMMA QuietMeanwhile ==
    ASSUME WorldInv, UNCHANGED <<source, ids, history>>, now' \in Nat, now <= now'
    PROVE  Meanwhile
<1>1. ids \in Nat
  BY DEF WorldInv
<1>2. source' = source /\ history' = history /\ ids' = ids
  OBVIOUS
<1>3. QED
  BY <1>1, <1>2 DEF Meanwhile

\* A scan begins.
LEMMA ScansBegin ==
    ASSUME WorldInv, RunsInv, ScansInv, NEW w \in Scanners, NEW n \in Names,
           NEW started \in 1 .. now', source[n] # None,
           UNCHANGED <<source, ids, history, runs, lastRun>>, now' \in Nat, now <= now',
           scan' = [scan EXCEPT ![w] = Begun(n, started)]
    PROVE  ScansInv'
<1>0. PICK s : s = Begun(n, started)
  OBVIOUS
<1>1. /\ s = [pc |-> "start", name |-> n, source |-> source[n], run |-> 0,
              started |-> started, read |-> <<>>]
      /\ s.pc = "start" /\ s.name = n /\ s.source = source[n] /\ s.run = 0
      /\ s.started = started /\ s.read = <<>>
  BY <1>0 DEF Begun
<1>2. /\ source \in [Names -> (1 .. ids) \cup {None}] /\ lastRun \in Nat
      /\ \A i, j \in Names : i # j /\ source[i] = source[j] => source[j] = None
      /\ scan \in [Scanners -> {Free} \cup Scans]
  BY DEF WorldInv, ScansInv
<1>3. s \in Scans'
  <2>1. source[n] \in 1 .. ids' /\ 0 \in 0 .. lastRun' /\ <<>> \in Seq(Nat)
    BY <1>2
  <2>2. QED
    BY <1>1, <2>1 DEF Scans
<1>4. scan'[w] = s
  BY <1>0, <1>2
<1>5. Fresh(history'[n], <<>>, started)
  BY DEF Fresh
<1>6. 0 \notin DOMAIN runs'
  <2>1. DOMAIN runs \subseteq 1 .. lastRun
    BY DEF RunsInv
  <2>2. 0 \notin 1 .. lastRun
    BY <1>2
  <2>3. QED
    BY <2>1, <2>2
<1>7. \A k \in Names : source'[k] = source[n] => k = n
  BY <1>2
<1>8. ScanInv(w)'
  BY <1>1, <1>3, <1>4, <1>5, <1>6, <1>7 DEF ScanInv
<1>9. \A v \in Scanners : RunLeft(v)
  BY DEF RunLeft
<1>10. Meanwhile
  BY QuietMeanwhile
<1>11. lastRun' \in Nat /\ lastRun <= lastRun'
  BY <1>2
<1>12. scan' = [scan EXCEPT ![w] = s]
  BY <1>0
<1>13. QED
  BY <1>1, <1>3, <1>8, <1>9, <1>10, <1>11, <1>12, ScansMove

\* A scan is over: nobody else's run was written.
LEMMA ScansEnd ==
    ASSUME WorldInv, RunsInv, ScansInv, NEW w \in Scanners,
           UNCHANGED <<source, ids, history, now, lastRun>>,
           scan' = [scan EXCEPT ![w] = Free], DOMAIN runs' \subseteq DOMAIN runs,
           scan[w].pc # "idle",
           \A r \in DOMAIN runs' : r # scan[w].run => runs'[r] = runs[r]
    PROVE  ScansInv'
<1>1. ASSUME NEW v \in Scanners, v # w, scan[v].pc # "idle" PROVE RunLeft(v)
  <2>1. scan[v].run # scan[w].run \/ scan[v].run = 0
    BY <1>1 DEF ScansInv
  <2>2. 0 \notin DOMAIN runs
    BY DEF RunsInv, WorldInv
  <2>3. QED
    BY <2>1, <2>2 DEF RunLeft
<1>2. lastRun' \in Nat /\ lastRun <= lastRun' /\ now' \in Nat /\ now <= now'
  BY DEF WorldInv
<1>3. Meanwhile
  BY <1>2, QuietMeanwhile
<1>4. QED
  BY <1>1, <1>2, <1>3, ScansMove

LEMMA ScansStart ==
    ASSUME WorldInv, RunsInv, ScansInv, NEW w \in Scanners, StartRun(w),
           scan[w].source \in Registered
    PROVE  ScansInv'
<1>0. PICK run : run = lastRun + 1
  OBVIOUS
<1>1. /\ scan[w].pc = "start" /\ UNCHANGED <<source, ids, history, now>>
      /\ lastRun' = run
      /\ runs' = [r \in DOMAIN runs \cup {run} |->
                    IF r = run THEN Running(scan[w].source, scan[w].started) ELSE runs[r]]
  BY <1>0 DEF StartRun, registry, world
<1>2. scan' = [scan EXCEPT ![w].pc = "read", ![w].run = run]
  BY <1>0 DEF StartRun
<1>3. PICK s : s = [scan[w] EXCEPT !.pc = "read", !.run = run]
  OBVIOUS
<1>4. scan \in [Scanners -> {Free} \cup Scans] /\ scan[w] \in Scans /\ ScanInv(w)
      /\ lastRun \in Nat /\ now \in Nat
  BY <1>1, InFlight DEF ScansInv, ScanInv, WorldInv
<1>5. scan' = [scan EXCEPT ![w] = s] /\ scan'[w] = s
  BY <1>2, <1>3, <1>4
<1>6. /\ s.pc = "read" /\ s.run = run /\ s.name = scan[w].name /\ s.source = scan[w].source
      /\ s.started = scan[w].started /\ s.read = scan[w].read
      /\ s \in [pc : {"start", "read", "finish", "fail"}, name : Names, source : 1 .. ids,
                run : 0 .. run, started : 1 .. now, read : Seq(Nat)]
  <2>1. run \in 0 .. run /\ 0 .. lastRun \subseteq 0 .. run
    BY <1>0, <1>4
  <2>2. QED
    BY <1>3, <1>4, <2>1 DEF Scans
<1>7. s \in Scans'
  BY <1>1, <1>6 DEF Scans
<1>8. /\ \A n \in Names : source'[n] = s.source => n = s.name
      /\ Fresh(history'[s.name], s.read, s.started)
      /\ s.read = <<>> /\ run # 0
      /\ runs'[run] = Running(s.source, s.started)
  BY <1>0, <1>1, <1>4, <1>6 DEF ScanInv
<1>9. ScanInv(w)'
  BY <1>5, <1>6, <1>7, <1>8 DEF ScanInv, Running
<1>10. ASSUME NEW v \in Scanners, scan[v].pc # "idle" PROVE RunLeft(v)
  <2>1. scan[v].run \in 0 .. lastRun
    BY <1>10, InFlight
  <2>2. scan[v].run # run
    BY <1>0, <1>4, <2>1
  <2>3. QED
    BY <1>1, <2>2 DEF RunLeft
<1>11. lastRun' \in Nat /\ lastRun <= lastRun' /\ now' \in Nat /\ now <= now'
       /\ s.run > lastRun
  BY <1>0, <1>1, <1>4, <1>6
<1>12. Meanwhile
  BY <1>1, <1>11, QuietMeanwhile
<1>13. QED
  BY <1>5, <1>7, <1>9, <1>10, <1>11, <1>12, ScansMove

\* A scan reads, or fails to.
LEMMA ScansRead ==
    ASSUME WorldInv, RunsInv, ScansInv, NEW w \in Scanners, ReadCatalog(w) \/ SourceFails(w)
    PROVE  ScansInv'
<1>1. /\ scan[w].pc = "read" /\ UNCHANGED <<source, ids, history, now, lastRun, runs>>
  BY DEF ReadCatalog, SourceFails, registry, world
<1>2. /\ scan \in [Scanners -> {Free} \cup Scans] /\ scan[w] \in Scans /\ ScanInv(w)
      /\ lastRun \in Nat /\ now \in Nat /\ scan[w].name \in Names
      /\ scan[w].read \in Seq(Nat) /\ scan[w].started \in 1 .. now
  BY <1>1, InFlight DEF ScansInv, ScanInv, WorldInv
<1>3. /\ history[scan[w].name] \in Seq(Moments) /\ history[scan[w].name] # <<>>
  BY <1>2 DEF WorldInv, Moments
<1>4. PICK read, pc :
        /\ scan' = [scan EXCEPT ![w] = [scan[w] EXCEPT !.read = read, !.pc = pc]]
        /\ \/ read = Append(scan[w].read, Current(scan[w].name))
              /\ pc = IF Len(read) = Len(Queries) THEN "finish" ELSE "read"
           \/ read = scan[w].read /\ pc = "fail"
  <2>1. CASE ReadCatalog(w)
    <3>1. PICK read : read = Append(scan[w].read, Current(scan[w].name))
      OBVIOUS
    <3>2. PICK pc : pc = IF Len(read) = Len(Queries) THEN "finish" ELSE "read"
      OBVIOUS
    <3>3. scan' = [scan EXCEPT ![w].read = read, ![w].pc = pc]
      BY <2>1, <3>1, <3>2 DEF ReadCatalog
    <3>4. scan' = [scan EXCEPT ![w] = [scan[w] EXCEPT !.read = read, !.pc = pc]]
      BY <1>2, <3>3
    <3>5. QED
      BY <3>1, <3>2, <3>4
  <2>2. CASE SourceFails(w)
    <3>1. scan' = [scan EXCEPT ![w].pc = "fail"]
      BY <2>2 DEF SourceFails
    <3>2. scan' = [scan EXCEPT ![w] = [scan[w] EXCEPT !.read = scan[w].read, !.pc = "fail"]]
      BY <1>2, <3>1 DEF Scans
    <3>3. QED
      BY <3>2
  <2>3. QED
    BY <2>1, <2>2
<1>5. PICK s : s = [scan[w] EXCEPT !.read = read, !.pc = pc]
  OBVIOUS
<1>6. scan' = [scan EXCEPT ![w] = s] /\ scan'[w] = s
  BY <1>2, <1>4, <1>5
<1>7. /\ read \in Seq(Nat)
      /\ Fresh(history[scan[w].name], read, scan[w].started)
      /\ pc \in {"read", "finish", "fail"}
      /\ pc = "read" => Len(read) < 2
      /\ pc = "finish" => Len(read) = 2
  <2>0. Fresh(history[scan[w].name], scan[w].read, scan[w].started)
    BY <1>1, <1>2 DEF ScanInv
  <2>1. CASE read = scan[w].read /\ pc = "fail"
    BY <1>2, <2>0, <2>1
  <2>2. CASE /\ read = Append(scan[w].read, Current(scan[w].name))
             /\ pc = IF Len(read) = Len(Queries) THEN "finish" ELSE "read"
    <3>1. PICK k, h : k = Current(scan[w].name) /\ h = history[scan[w].name]
      OBVIOUS
    <3>2. h \in Seq(Moments) /\ k = Len(h) /\ k \in Nat /\ k \in 1 .. Len(h)
      BY <1>3, <3>1 DEF Current
    <3>3. /\ read \in Seq(Nat) /\ Len(read) = Len(scan[w].read) + 1
          /\ \A i \in DOMAIN read : IF i = Len(scan[w].read) + 1 THEN read[i] = k
                                    ELSE i \in DOMAIN scan[w].read /\ read[i] = scan[w].read[i]
      BY <1>2, <2>2, <3>1, <3>2
    <3>4. Fresh(h, scan[w].read, scan[w].started)
      BY <2>0, <3>1
    <3>5. ASSUME NEW i \in DOMAIN read
          PROVE  /\ read[i] \in 1 .. Len(h)
                 /\ read[i] < Len(h) => h[read[i] + 1].since > scan[w].started
      <4>1. CASE i = Len(scan[w].read) + 1
        BY <3>2, <3>3, <4>1
      <4>2. CASE i # Len(scan[w].read) + 1
        BY <3>3, <3>4, <4>2 DEF Fresh
      <4>3. QED
        BY <4>1, <4>2
    <3>6. Fresh(h, read, scan[w].started)
      BY <3>5 DEF Fresh
    <3>7. Len(scan[w].read) < 2 /\ Len(scan[w].read) \in Nat /\ Len(Queries) = 2
      BY <1>1, <1>2 DEF ScanInv, Queries
    <3>8. QED
      BY <2>2, <3>1, <3>3, <3>6, <3>7
  <2>3. QED
    BY <1>4, <2>1, <2>2
<1>8. /\ s.pc = pc /\ s.run = scan[w].run /\ s.name = scan[w].name /\ s.read = read
      /\ s.source = scan[w].source /\ s.started = scan[w].started /\ s \in Scans
  BY <1>2, <1>5, <1>7 DEF Scans
<1>9. s \in Scans'
  BY <1>1, <1>8 DEF Scans
<1>10. /\ \A n \in Names : source'[n] = s.source => n = s.name
       /\ Fresh(history'[s.name], s.read, s.started)
       /\ s.run # 0
       /\ s.run \in DOMAIN runs' => runs'[s.run] = Running(s.source, s.started)
  BY <1>1, <1>2, <1>7, <1>8 DEF ScanInv
<1>11. ScanInv(w)'
  BY <1>6, <1>7, <1>8, <1>9, <1>10 DEF ScanInv, Running
<1>12. \A v \in Scanners : RunLeft(v)
  BY <1>1 DEF RunLeft
<1>13. lastRun' \in Nat /\ lastRun <= lastRun' /\ now' \in Nat /\ now <= now'
  BY <1>1, <1>2
<1>14. Meanwhile
  BY <1>1, <1>13, QuietMeanwhile
<1>15. scan[w].pc # "idle" /\ s.run = scan[w].run
  BY <1>1, <1>8
<1>16. QED
  BY <1>6, <1>9, <1>11, <1>12, <1>13, <1>14, <1>15, ScansMove

\* What the steps that end a scan have in common.
LEMMA Ends ==
    ASSUME WorldInv, RunsInv, ScansInv, NEW w \in Scanners,
           \/ Refuse(w) \/ SecretRaises(w) \/ FailRun(w) \/ FinishRun(w) \/ Crash(w)
           \/ (StartRun(w) /\ scan[w].source \notin Registered)
    PROVE  /\ UNCHANGED <<source, ids, history, now, lastRun>>
           /\ scan[w].pc # "idle" /\ scan' = [scan EXCEPT ![w] = Free]
           /\ DOMAIN runs' = DOMAIN runs
           /\ \A r \in DOMAIN runs' : r # scan[w].run => runs'[r] = runs[r]
<1>1. ASSUME FailRun(w) \/ FinishRun(w)
      PROVE  /\ DOMAIN runs' = DOMAIN runs
             /\ \A r \in DOMAIN runs' : r # scan[w].run => runs'[r] = runs[r]
  BY <1>1 DEF FailRun, FinishRun
<1>2. /\ UNCHANGED <<source, ids, history, now, lastRun>>
      /\ scan[w].pc # "idle" /\ scan' = [scan EXCEPT ![w] = Free]
  BY DEF Refuse, SecretRaises, FailRun, FinishRun, Crash, StartRun, End, registry, world
<1>3. ~ FailRun(w) /\ ~ FinishRun(w) => runs' = runs
  BY DEF Refuse, SecretRaises, Crash, StartRun
<1>4. QED
  BY <1>1, <1>2, <1>3

LEMMA ScansStep == WorldInv /\ RunsInv /\ ScansInv /\ SweepInv /\ [Next]_vars => ScansInv'
<1> SUFFICES ASSUME WorldInv, RunsInv, ScansInv, SweepInv, [Next]_vars PROVE ScansInv'
  OBVIOUS
<1>0. now \in Nat /\ ids \in Nat /\ lastRun \in Nat
  BY DEF WorldInv
<1>1. ASSUME scan' = scan, Meanwhile, lastRun' = lastRun,
             \A v \in Scanners : scan[v].pc # "idle" => RunLeft(v)
      PROVE  ScansInv'
  BY <1>0, <1>1, ScansKept
<1>2. ASSUME NEW n \in Names, SourceChanges(n) PROVE ScansInv'
  <2>1. UNCHANGED <<source, ids, runs, lastRun, scan>> /\ now' = now + 1
    BY <1>2 DEF SourceChanges, registry
  <2>2. source' = source /\ ids' = ids
    BY <2>1
  <2>3. Meanwhile
    BY <1>0, <1>2, <2>1, <2>2 DEF Meanwhile
  <2>4. QED
    BY <1>1, <2>1, <2>3 DEF RunLeft
<1>3. ASSUME NEW n \in Names, Register(n) PROVE ScansInv'
  <2>1. /\ source' = [source EXCEPT ![n] = ids + 1] /\ ids' = ids + 1
        /\ UNCHANGED <<runs, lastRun, scan, history, now>>
    BY <1>3 DEF Register, world
  <2>2. \A k \in Names : source'[k] \in {source[k], None, ids + 1}
    BY <2>1 DEF WorldInv
  <2>3. Meanwhile
    BY <1>0, <2>1, <2>2 DEF Meanwhile
  <2>4. QED
    BY <1>1, <2>1, <2>3 DEF RunLeft
<1>4. ASSUME NEW n \in Names, Remove(n) PROVE ScansInv'
  <2>1. /\ source' = [source EXCEPT ![n] = None]
        /\ runs' = [r \in DOMAIN runs \ RunsOf(source[n]) |-> runs[r]]
        /\ UNCHANGED <<ids, lastRun, scan, history, now>>
    BY <1>4 DEF Remove, Cascade, world
  <2>2. \A k \in Names : source'[k] \in {source[k], None, ids + 1}
    BY <2>1 DEF WorldInv
  <2>3. Meanwhile
    BY <1>0, <2>1, <2>2 DEF Meanwhile
  <2>4. \A v \in Scanners : RunLeft(v)
    BY <2>1 DEF RunLeft
  <2>5. QED
    BY <1>1, <2>1, <2>3, <2>4
<1>5. ASSUME NEW w \in Scanners, ScanStep(w) \/ Crash(w) PROVE ScansInv'
  <2>1. CASE StartRun(w) /\ scan[w].source \in Registered
    BY <2>1, ScansStart
  <2>2. CASE ReadCatalog(w) \/ SourceFails(w)
    BY <2>2, ScansRead
  <2>3. ASSUME \/ Refuse(w) \/ SecretRaises(w) \/ FailRun(w) \/ FinishRun(w) \/ Crash(w)
               \/ (StartRun(w) /\ scan[w].source \notin Registered)
        PROVE  ScansInv'
    <3>1. /\ UNCHANGED <<source, ids, history, now, lastRun>>
          /\ scan[w].pc # "idle" /\ scan' = [scan EXCEPT ![w] = Free]
          /\ DOMAIN runs' \subseteq DOMAIN runs
          /\ \A r \in DOMAIN runs' : r # scan[w].run => runs'[r] = runs[r]
      BY <2>3, Ends
    <3>2. QED
      BY <3>1, ScansEnd
  <2>4. QED
    BY <1>5, <2>1, <2>2, <2>3 DEF ScanStep
<1>6. ASSUME NEW w \in Scanners, NEW n \in Names, BeginScan(w, n) PROVE ScansInv'
  <2>1. /\ UNCHANGED <<source, ids, history, runs, lastRun>> /\ source[n] # None
        /\ now' = now + 1 /\ scan' = [scan EXCEPT ![w] = Begun(n, now + 1)]
    BY <1>6 DEF BeginScan, registry
  <2>2. now + 1 \in 1 .. now' /\ now' \in Nat /\ now <= now'
    BY <1>0, <2>1
  <2>3. QED
    BY <2>1, <2>2, ScansBegin
<1>7. ASSUME NextTarget, scan' # scan PROVE ScansInv'
  <2>0. PICK started : started = IF sweep.tx # 0 THEN sweep.tx ELSE now + 1
    OBVIOUS
  <2>1. PICK n \in sweep.todo :
            /\ now' = IF sweep.tx # 0 THEN now ELSE now + 1
            /\ source[n] # None
            /\ scan' = [scan EXCEPT ![Sweeper] = Begun(n, started)]
    BY <1>7, <2>0 DEF NextTarget
  <2>2. UNCHANGED <<source, ids, history, runs, lastRun>>
    BY <1>7 DEF NextTarget, registry
  <2>3. sweep \in Sweeps
    BY <1>7 DEF SweepInv, NextTarget, NoSweep
  <2>4. n \in Names /\ started \in 1 .. now' /\ now' \in Nat /\ now <= now'
    BY <1>0, <2>0, <2>1, <2>3 DEF Sweeps
  <2>5. Sweeper \in Scanners
    BY DEF Scanners
  <2>6. QED
    BY <2>1, <2>2, <2>4, <2>5, ScansBegin
<1>8. ASSUME \/ \E n \in Names : AskCatalog(n)
             \/ StartSweep \/ (NextTarget /\ scan' = scan) \/ EndSweep
             \/ PickRun \/ ListTables \/ ListColumns
             \/ UNCHANGED vars
      PROVE  ScansInv'
  <2>1. UNCHANGED <<source, ids, history, runs, lastRun, scan>>
    BY <1>8 DEF AskCatalog, StartSweep, NextTarget, EndSweep, PickRun,
       ListTables, ListColumns, registry, world, vars
  <2>2. now' = now \/ now' = now + 1
    BY <1>8 DEF AskCatalog, StartSweep, NextTarget, EndSweep, PickRun,
       ListTables, ListColumns, world, vars
  <2>3. now' \in Nat /\ now <= now'
    BY <1>0, <2>2
  <2>4. Meanwhile
    BY <2>1, <2>3, QuietMeanwhile
  <2>5. QED
    BY <1>1, <2>1, <2>4 DEF RunLeft
<1>9. CASE Next
  BY <1>2, <1>3, <1>4, <1>5, <1>6, <1>7, <1>8, <1>9 DEF Next
<1>10. QED
  BY <1>8, <1>9
-----------------------------------------------------------------------------
(* The sweep.                                                              *)

\* No step but a removal takes a run away, and none writes one that has
\* succeeded.
Settled == /\ lastRun' \in Nat /\ lastRun <= lastRun'
           /\ \A r \in DOMAIN runs' : r \in 0 .. lastRun =>
                 /\ r \in DOMAIN runs
                 /\ runs[r].status = "succeeded" => runs'[r] = runs[r]

LEMMA RunsSettle ==
    ASSUME WorldInv, RunsInv, ScansInv, [Next]_vars
    PROVE  Settled
<1>0. lastRun \in Nat
  BY DEF WorldInv
<1>1. ASSUME UNCHANGED <<runs, lastRun>> PROVE Settled
  BY <1>0, <1>1 DEF Settled
<1>2. ASSUME NEW n \in Names, Remove(n) PROVE Settled
  BY <1>0, <1>2 DEF Settled, Remove, Cascade
<1>3. ASSUME NEW w \in Scanners, StartRun(w), scan[w].source \in Registered PROVE Settled
  <2>1. lastRun + 1 \notin 0 .. lastRun
    BY <1>0
  <2>2. QED
    BY <1>0, <1>3, <2>1 DEF Settled, StartRun
<1>4. ASSUME NEW w \in Scanners, FailRun(w) \/ FinishRun(w) PROVE Settled
  <2>1. /\ UNCHANGED lastRun /\ DOMAIN runs' = DOMAIN runs /\ scan[w].pc # "idle"
        /\ \A r \in DOMAIN runs' : r # scan[w].run => runs'[r] = runs[r]
    BY <1>4, Ends
  <2>2. scan[w].run \in DOMAIN runs => runs[scan[w].run].status = "running"
    <3>1. scan[w].run \in DOMAIN runs =>
            runs[scan[w].run] = Running(scan[w].source, scan[w].started)
      BY <2>1, InFlight DEF ScanInv
    <3>2. Running(scan[w].source, scan[w].started).status = "running"
      BY DEF Running
    <3>3. QED
      BY <3>1, <3>2
  <2>3. QED
    BY <1>0, <2>1, <2>2 DEF Settled
<1>5. ASSUME NEW w \in Scanners, ScanStep(w) \/ Crash(w) PROVE Settled
  <2>1. CASE StartRun(w) /\ scan[w].source \notin Registered
    BY <1>1, <2>1 DEF StartRun
  <2>2. CASE Refuse(w) \/ ReadCatalog(w) \/ SourceFails(w) \/ SecretRaises(w) \/ Crash(w)
    BY <1>1, <2>2 DEF Refuse, ReadCatalog, SourceFails, SecretRaises, Crash
  <2>3. QED
    BY <1>3, <1>4, <1>5, <2>1, <2>2 DEF ScanStep
<1>6. ASSUME \/ \E n \in Names : SourceChanges(n) \/ Register(n) \/ AskCatalog(n)
             \/ \E w \in Scanners, n \in Names : BeginScan(w, n)
             \/ StartSweep \/ NextTarget \/ EndSweep
             \/ PickRun \/ ListTables \/ ListColumns \/ UNCHANGED vars
      PROVE  Settled
  <2>1. UNCHANGED <<runs, lastRun>>
    BY <1>6 DEF SourceChanges, Register, AskCatalog, BeginScan, StartSweep, NextTarget,
       EndSweep, PickRun, ListTables, ListColumns, vars
  <2>2. QED
    BY <1>1, <2>1
<1>7. CASE Next
  BY <1>2, <1>5, <1>6, <1>7 DEF Next
<1>8. QED
  BY <1>6, <1>7

LEMMA SweepInit == Init => SweepInv
<1> SUFFICES ASSUME Init PROVE SweepInv
  OBVIOUS
<1>1. sweep = NoSweep /\ scan[Sweeper] = Free /\ Free.pc = "idle"
  BY DEF Init, Scanners, Free
<1>2. QED
  BY <1>1 DEF SweepInv

\* What a sweep that is not idle is known to be.
LEMMA Sweeping ==
    ASSUME SweepInv, sweep # NoSweep
    PROVE  /\ sweep.pc \in {"sweeping", "ended"} /\ sweep.todo \in SUBSET Names
           /\ sweep.total \in Nat /\ sweep.since \in 1 .. now /\ sweep.tx \in 0 .. now
           /\ sweep.reached \in SUBSET (1 .. lastRun) /\ sweep.failed \in SUBSET Names
BY DEF SweepInv, Sweeps

\* The counts of the sweep are numbers.
LEMMA SweepCounts ==
    ASSUME WorldInv, SweepInv, sweep # NoSweep
    PROVE  /\ IsFiniteSet(sweep.todo) /\ IsFiniteSet(sweep.failed) /\ IsFiniteSet(sweep.reached)
           /\ Cardinality(sweep.todo) \in Nat /\ Cardinality(sweep.failed) \in Nat
           /\ Cardinality(sweep.reached) \in Nat
<1>1. sweep.todo \in SUBSET Names /\ sweep.failed \in SUBSET Names
      /\ sweep.reached \in SUBSET (1 .. lastRun)
  BY Sweeping
<1>2. IsFiniteSet(sweep.todo) /\ IsFiniteSet(sweep.failed)
  BY <1>1, Constants, FS_Subset
<1>3. IsFiniteSet(sweep.reached)
  <2>1. 1 \in Int /\ lastRun \in Int
    BY DEF WorldInv
  <2>2. IsFiniteSet(1 .. lastRun)
    BY <2>1, FS_Interval
  <2>3. QED
    BY <1>1, <2>2, FS_Subset
<1>4. QED
  BY <1>2, <1>3, FS_CardinalityType

\* The sweep does not move; its scan may.
LEMMA SweepKept ==
    ASSUME WorldInv, SweepInv, Settled, sweep' = sweep, now' \in Nat, now <= now',
           scan'[Sweeper].pc = "idle" <=> scan[Sweeper].pc = "idle",
           sweep # NoSweep /\ scan[Sweeper].pc # "idle" =>
              /\ scan'[Sweeper].name = scan[Sweeper].name
              /\ scan'[Sweeper].started = scan[Sweeper].started
              /\ scan'[Sweeper].run \notin sweep.reached
    PROVE  SweepInv'
<1>1. CASE sweep = NoSweep
  BY <1>1 DEF SweepInv
<1>2. CASE sweep # NoSweep
  <2>1. now \in Nat /\ lastRun \in Nat /\ lastRun' \in Nat /\ lastRun <= lastRun'
    BY DEF WorldInv, Settled
  <2>2. /\ 1 .. now \subseteq 1 .. now' /\ 0 .. now \subseteq 0 .. now'
        /\ 1 .. lastRun \subseteq 1 .. lastRun'
    BY <2>1
  <2>3. sweep \in Sweeps'
    BY <1>2, <2>2 DEF SweepInv, Sweeps
  <2>4. /\ Cardinality(sweep.reached) + Cardinality(sweep.failed)
              + Cardinality(sweep.todo) + InHand' = sweep.total
    BY <1>2 DEF SweepInv, InHand
  <2>5. ASSUME NEW r \in sweep.reached \cap DOMAIN runs'
        PROVE  runs'[r].status = "succeeded" /\ runs'[r].started >= sweep.since
    <3>1. r \in 0 .. lastRun
      BY <1>2, <2>1, Sweeping
    <3>2. r \in DOMAIN runs /\ (runs[r].status = "succeeded" => runs'[r] = runs[r])
      BY <3>1 DEF Settled
    <3>3. QED
      BY <1>2, <3>2 DEF SweepInv
  <2>6. /\ sweep.tx # 0 => sweep.tx >= sweep.since
        /\ sweep.todo \cap sweep.failed = {}
        /\ sweep.pc = "ended" => sweep.todo = {} /\ scan'[Sweeper].pc = "idle"
        /\ scan'[Sweeper].pc # "idle" =>
              /\ scan'[Sweeper].started >= sweep.since
              /\ scan'[Sweeper].name \notin sweep.todo \cup sweep.failed
              /\ scan'[Sweeper].run \notin sweep.reached
    BY <1>2 DEF SweepInv
  <2>7. QED
    BY <1>2, <2>3, <2>4, <2>5, <2>6 DEF SweepInv, NoSweep
<1>3. QED
  BY <1>1, <1>2

\* The sweep after a scan that ended.
Reported(succeeded) ==
    [sweep EXCEPT !.tx = 0,
        !.reached = @ \cup (IF succeeded THEN {scan[Sweeper].run} ELSE {}),
        !.failed = @ \cup (IF succeeded THEN {} ELSE {scan[Sweeper].name})]

\* A scan of the sweep that ended is counted once.
LEMMA SweepEnds ==
    ASSUME WorldInv, SweepInv, ScansInv, Settled, now' = now, scan[Sweeper].pc # "idle",
           scan'[Sweeper].pc = "idle", NEW succeeded \in BOOLEAN, sweep' = Reported(succeeded),
           succeeded => /\ scan[Sweeper].run \in 1 .. lastRun
                        /\ scan[Sweeper].run \in DOMAIN runs' =>
                              /\ runs'[scan[Sweeper].run].status = "succeeded"
                              /\ runs'[scan[Sweeper].run].started = scan[Sweeper].started
    PROVE  SweepInv'
<1>0. PICK run, name : run = scan[Sweeper].run /\ name = scan[Sweeper].name
  OBVIOUS
<1>1. sweep # NoSweep /\ Sweeper \in Scanners
  BY DEF SweepInv, Scanners
<1>2. /\ sweep \in Sweeps /\ name \in Names
      /\ now \in Nat /\ lastRun \in Nat /\ lastRun' \in Nat /\ lastRun <= lastRun'
  BY <1>0, <1>1, InFlight DEF SweepInv, WorldInv, Settled
<1>3. /\ sweep'.pc = sweep.pc /\ sweep'.todo = sweep.todo /\ sweep'.total = sweep.total
      /\ sweep'.since = sweep.since /\ sweep'.tx = 0
      /\ sweep'.reached = sweep.reached \cup (IF succeeded THEN {run} ELSE {})
      /\ sweep'.failed = sweep.failed \cup (IF succeeded THEN {} ELSE {name})
  BY <1>0, <1>2 DEF Sweeps, Reported
<1>4. sweep' \in Sweeps'
  <2>1. 1 .. lastRun \subseteq 1 .. lastRun' /\ 0 \in 0 .. now' /\ sweep.since \in 1 .. now'
    BY <1>1, <1>2, Sweeping
  <2>2. PICK reached, failed : reached = sweep'.reached /\ failed = sweep'.failed
    OBVIOUS
  <2>3. reached \in SUBSET (1 .. lastRun') /\ failed \in SUBSET Names
    BY <1>0, <1>1, <1>2, <1>3, <2>1, <2>2, Sweeping
  <2>4. sweep' = [sweep EXCEPT !.tx = 0, !.reached = reached, !.failed = failed]
    BY <1>0, <1>2, <1>3, <2>2 DEF Reported, Sweeps
  <2>5. QED
    BY <1>2, <2>1, <2>3, <2>4 DEF Sweeps
<1>5. /\ sweep.pc = "sweeping" /\ sweep.todo \cap sweep.failed = {}
      /\ name \notin sweep.todo \cup sweep.failed /\ run \notin sweep.reached
      /\ scan[Sweeper].started >= sweep.since
      /\ Cardinality(sweep.reached) + Cardinality(sweep.failed)
            + Cardinality(sweep.todo) + 1 = sweep.total
  BY <1>0, <1>1, Sweeping DEF SweepInv, InHand
<1>6. Cardinality(sweep'.reached) + Cardinality(sweep'.failed)
         + Cardinality(sweep'.todo) + InHand' = sweep'.total
  <2>1. InHand' = 0
    BY DEF InHand
  <2>2. /\ IsFiniteSet(sweep.failed) /\ IsFiniteSet(sweep.reached)
        /\ Cardinality(sweep.todo) \in Nat /\ Cardinality(sweep.failed) \in Nat
        /\ Cardinality(sweep.reached) \in Nat
    BY <1>1, SweepCounts
  <2>3. /\ Cardinality(sweep.reached \cup {run}) = Cardinality(sweep.reached) + 1
        /\ Cardinality(sweep.failed \cup {name}) = Cardinality(sweep.failed) + 1
    BY <1>5, <2>2, FS_AddElement
  <2>4. PICK a, b, c, total :
          /\ a = Cardinality(sweep.reached) /\ b = Cardinality(sweep.failed)
          /\ c = Cardinality(sweep.todo) /\ total = sweep.total
    OBVIOUS
  <2>5. a \in Nat /\ b \in Nat /\ c \in Nat /\ a + b + c + 1 = total
    BY <1>5, <2>2, <2>4
  <2>6. CASE succeeded
    <3>1. sweep'.reached = sweep.reached \cup {run} /\ sweep'.failed = sweep.failed
      BY <1>3, <2>6
    <3>2. /\ Cardinality(sweep'.reached) = a + 1 /\ Cardinality(sweep'.failed) = b
          /\ Cardinality(sweep'.todo) = c /\ sweep'.total = total
      BY <1>3, <2>3, <2>4, <3>1, Zenon
    <3>3. a + 1 + b + c + 0 = total
      BY <2>5
    <3>4. QED
      BY <2>1, <3>2, <3>3
  <2>7. CASE ~ succeeded
    <3>1. sweep'.reached = sweep.reached /\ sweep'.failed = sweep.failed \cup {name}
      BY <1>3, <2>7
    <3>2. /\ Cardinality(sweep'.reached) = a /\ Cardinality(sweep'.failed) = b + 1
          /\ Cardinality(sweep'.todo) = c /\ sweep'.total = total
      BY <1>3, <2>3, <2>4, <3>1, Zenon
    <3>3. a + (b + 1) + c + 0 = total
      BY <2>5
    <3>4. QED
      BY <2>1, <3>2, <3>3
  <2>8. QED
    BY <2>6, <2>7
<1>7. ASSUME NEW r \in sweep'.reached \cap DOMAIN runs'
      PROVE  runs'[r].status = "succeeded" /\ runs'[r].started >= sweep'.since
  <2>1. CASE r \in sweep.reached
    <3>1. r \in 0 .. lastRun
      BY <1>1, <1>2, <2>1, Sweeping
    <3>2. r \in DOMAIN runs /\ (runs[r].status = "succeeded" => runs'[r] = runs[r])
      BY <1>7, <3>1 DEF Settled
    <3>3. QED
      BY <1>1, <1>3, <2>1, <3>2 DEF SweepInv
  <2>2. CASE r \notin sweep.reached
    <3>1. succeeded /\ r = run
      BY <1>3, <1>7, <2>2
    <3>2. QED
      BY <1>0, <1>3, <1>5, <1>7, <3>1
  <2>3. QED
    BY <2>1, <2>2
<1>8. sweep'.todo \cap sweep'.failed = {}
  BY <1>3, <1>5
<1>9. sweep'.pc # "ended" /\ sweep'.tx = 0
  BY <1>3, <1>5
<1>10. QED
  BY <1>4, <1>6, <1>7, <1>8, <1>9 DEF SweepInv

\* A sweep begins: everything it listed is still to do.
LEMMA SweepStarts ==
    ASSUME WorldInv, SweepInv, StartSweep
    PROVE  SweepInv'
<1> DEFINE listed == {n \in Names : source[n] # None}
<1>1. /\ sweep.pc = "idle"
      /\ sweep' = [pc |-> "sweeping", todo |-> listed, total |-> Cardinality(listed),
                   since |-> now + 1, tx |-> now + 1, reached |-> {}, failed |-> {}]
      /\ now' = now + 1 /\ lastRun' = lastRun /\ scan' = scan
  BY DEF StartSweep
<1>2. sweep = NoSweep
  BY <1>1 DEF SweepInv, Sweeps
<1>3. scan[Sweeper].pc = "idle" /\ now \in Nat
  BY <1>2 DEF SweepInv, WorldInv
<1>4. /\ listed \in SUBSET Names /\ IsFiniteSet(listed) /\ Cardinality(listed) \in Nat
  BY Constants, FS_Subset, FS_CardinalityType
<1> HIDE DEF listed
<1>5. sweep' \in Sweeps'
  <2>1. now + 1 \in 1 .. now' /\ now + 1 \in 0 .. now'
    BY <1>1, <1>3
  <2>2. QED
    BY <1>1, <1>4, <2>1 DEF Sweeps
<1>6. Cardinality({}) = 0
  BY FS_EmptySet
<1>7. Cardinality(sweep'.reached) + Cardinality(sweep'.failed)
         + Cardinality(sweep'.todo) + InHand' = sweep'.total
  <2>1. InHand' = 0
    BY <1>1, <1>3 DEF InHand
  <2>2. PICK c : c = Cardinality(listed)
    OBVIOUS
  <2>3. /\ Cardinality(sweep'.reached) = 0 /\ Cardinality(sweep'.failed) = 0
        /\ Cardinality(sweep'.todo) = c /\ sweep'.total = c
    BY <1>1, <1>6, <2>2
  <2>4. 0 + 0 + c + 0 = c
    BY <1>4, <2>2
  <2>5. QED
    BY <2>1, <2>3, <2>4
<1>8. /\ sweep'.reached = {} /\ sweep'.failed = {} /\ sweep'.pc = "sweeping"
      /\ sweep'.tx >= sweep'.since
  BY <1>1, <1>3
<1>9. scan'[Sweeper].pc = "idle"
  BY <1>1, <1>3
<1>10. QED
  BY <1>5, <1>7, <1>8, <1>9 DEF SweepInv

\* The sweep turns to a source: it is scanned, or gone and counted as failed.
LEMMA SweepTurns ==
    ASSUME WorldInv, ScansInv, SweepInv, NextTarget
    PROVE  SweepInv'
<1>0. PICK started : started = IF sweep.tx # 0 THEN sweep.tx ELSE now + 1
  OBVIOUS
<1>1. PICK n \in sweep.todo :
        /\ now' = IF sweep.tx # 0 THEN now ELSE now + 1
        /\ \/ /\ sweep' = [sweep EXCEPT !.todo = @ \ {n}, !.tx = 0, !.failed = @ \cup {n}]
              /\ scan' = scan
           \/ /\ sweep' = [sweep EXCEPT !.todo = @ \ {n}]
              /\ scan' = [scan EXCEPT ![Sweeper] = Begun(n, started)]
  BY <1>0 DEF NextTarget
<1>2. /\ sweep.pc = "sweeping" /\ scan[Sweeper].pc = "idle"
      /\ UNCHANGED <<runs, lastRun>>
  BY DEF NextTarget
<1>3. /\ sweep # NoSweep /\ sweep \in Sweeps /\ now \in Nat /\ lastRun \in Nat
      /\ DOMAIN scan = Scanners /\ Sweeper \in Scanners
  BY <1>2 DEF SweepInv, NoSweep, WorldInv, ScansInv, Scanners
<1>4. /\ n \in Names /\ n \notin sweep.failed /\ sweep.todo \in SUBSET Names
      /\ sweep.since \in 1 .. now /\ sweep.tx \in 0 .. now
      /\ sweep.tx # 0 => sweep.tx >= sweep.since
      /\ sweep.reached \in SUBSET (1 .. lastRun) /\ sweep.failed \in SUBSET Names
      /\ sweep.todo \cap sweep.failed = {}
  BY <1>1, <1>3, Sweeping DEF SweepInv
<1>5. now' \in Nat /\ now <= now' /\ started \in 1 .. now' /\ started >= sweep.since
  BY <1>0, <1>1, <1>3, <1>4
<1>6. PICK a, b, c, total :
        /\ a = Cardinality(sweep.reached) /\ b = Cardinality(sweep.failed)
        /\ c = Cardinality(sweep.todo) /\ total = sweep.total
  OBVIOUS
<1>7. a \in Nat /\ b \in Nat /\ c \in Nat /\ a + b + c + 0 = total
  BY <1>2, <1>3, <1>6, SweepCounts DEF SweepInv, InHand
<1>8. Cardinality(sweep.todo \ {n}) = c - 1 /\ Cardinality(sweep.failed \cup {n}) = b + 1
  BY <1>1, <1>3, <1>4, <1>6, SweepCounts, FS_RemoveElement, FS_AddElement
<1>9. \A r \in sweep.reached \cap DOMAIN runs' :
        runs'[r].status = "succeeded" /\ runs'[r].started >= sweep.since
  BY <1>2, <1>3 DEF SweepInv
<1>10. CASE /\ sweep' = [sweep EXCEPT !.todo = @ \ {n}, !.tx = 0, !.failed = @ \cup {n}]
            /\ scan' = scan
  <2>1. /\ sweep'.pc = "sweeping" /\ sweep'.todo = sweep.todo \ {n} /\ sweep'.tx = 0
        /\ sweep'.failed = sweep.failed \cup {n} /\ sweep'.reached = sweep.reached
        /\ sweep'.total = total /\ sweep'.since = sweep.since
    BY <1>2, <1>3, <1>6, <1>10 DEF Sweeps
  <2>2. sweep' \in Sweeps'
    <3>1. sweep.since \in 1 .. now' /\ 0 \in 0 .. now' /\ lastRun' = lastRun
      BY <1>2, <1>3, <1>4, <1>5
    <3>2. sweep.todo \ {n} \in SUBSET Names /\ sweep.failed \cup {n} \in SUBSET Names
      BY <1>4
    <3>3. QED
      BY <1>3, <1>4, <1>10, <3>1, <3>2 DEF Sweeps
  <2>3. InHand' = 0
    BY <1>2, <1>10 DEF InHand
  <2>4. Cardinality(sweep'.reached) + Cardinality(sweep'.failed)
           + Cardinality(sweep'.todo) + InHand' = sweep'.total
    <3>1. /\ Cardinality(sweep'.reached) = a /\ Cardinality(sweep'.failed) = b + 1
          /\ Cardinality(sweep'.todo) = c - 1
      BY <1>6, <1>8, <2>1, Zenon
    <3>2. a + (b + 1) + (c - 1) + 0 = total
      BY <1>7
    <3>3. QED
      BY <2>1, <2>3, <3>1, <3>2
  <2>5. sweep'.todo \cap sweep'.failed = {}
    BY <1>4, <2>1
  <2>6. QED
    BY <1>2, <1>9, <1>10, <2>1, <2>2, <2>4, <2>5 DEF SweepInv
<1>11. CASE /\ sweep' = [sweep EXCEPT !.todo = @ \ {n}]
            /\ scan' = [scan EXCEPT ![Sweeper] = Begun(n, started)]
  <2>1. /\ sweep'.pc = "sweeping" /\ sweep'.todo = sweep.todo \ {n} /\ sweep'.tx = sweep.tx
        /\ sweep'.failed = sweep.failed /\ sweep'.reached = sweep.reached
        /\ sweep'.total = total /\ sweep'.since = sweep.since
    BY <1>2, <1>3, <1>6, <1>11 DEF Sweeps
  <2>2. /\ scan'[Sweeper].pc = "start" /\ scan'[Sweeper].name = n
        /\ scan'[Sweeper].started = started /\ scan'[Sweeper].run = 0
    BY <1>3, <1>11 DEF Begun
  <2>3. sweep' \in Sweeps'
    <3>1. sweep.since \in 1 .. now' /\ sweep.tx \in 0 .. now' /\ lastRun' = lastRun
      BY <1>2, <1>3, <1>4, <1>5
    <3>2. sweep.todo \ {n} \in SUBSET Names
      BY <1>4
    <3>3. QED
      BY <1>3, <1>4, <1>11, <3>1, <3>2 DEF Sweeps
  <2>4. InHand' = 1
    BY <2>2 DEF InHand
  <2>5. Cardinality(sweep'.reached) + Cardinality(sweep'.failed)
           + Cardinality(sweep'.todo) + InHand' = sweep'.total
    <3>1. /\ Cardinality(sweep'.reached) = a /\ Cardinality(sweep'.failed) = b
          /\ Cardinality(sweep'.todo) = c - 1
      BY <1>6, <1>8, <2>1, Zenon
    <3>2. a + b + (c - 1) + 1 = total
      BY <1>7
    <3>3. QED
      BY <2>1, <2>4, <3>1, <3>2
  <2>6. /\ sweep'.todo \cap sweep'.failed = {} /\ n \notin sweep'.todo \cup sweep'.failed
    BY <1>4, <2>1
  <2>7. 0 \notin sweep'.reached
    BY <1>3, <1>4, <2>1
  <2>8. /\ sweep'.tx # 0 => sweep'.tx >= sweep'.since
        /\ \A r \in sweep'.reached \cap DOMAIN runs' :
              runs'[r].status = "succeeded" /\ runs'[r].started >= sweep'.since
        /\ sweep'.pc # "ended" /\ scan'[Sweeper].pc # "idle"
        /\ scan'[Sweeper].started >= sweep'.since
        /\ scan'[Sweeper].name \notin sweep'.todo \cup sweep'.failed
        /\ scan'[Sweeper].run \notin sweep'.reached
    BY <1>4, <1>5, <1>9, <2>1, <2>2, <2>6, <2>7
  <2>9. /\ sweep'.todo \cap sweep'.failed = {} /\ sweep' # NoSweep
    BY <2>1, <2>6 DEF NoSweep
  <2>10. QED
    BY <2>3, <2>5, <2>8, <2>9 DEF SweepInv
<1>12. QED
  BY <1>1, <1>10, <1>11

\* A step of the sweep's scan.
LEMMA SweepScans ==
    ASSUME WorldInv, RunsInv, ScansInv, SweepInv, Settled, ScanStep(Sweeper) \/ Crash(Sweeper)
    PROVE  SweepInv'
<1>0. /\ Sweeper \in Scanners /\ scan[Sweeper].pc # "idle" /\ sweep # NoSweep
      /\ DOMAIN scan = Scanners /\ now \in Nat /\ lastRun \in Nat
  <2>1. Sweeper \in Scanners /\ DOMAIN scan = Scanners /\ now \in Nat /\ lastRun \in Nat
    BY DEF Scanners, ScansInv, WorldInv
  <2>2. scan[Sweeper].pc # "idle"
    BY DEF ScanStep, Refuse, StartRun, ReadCatalog, SourceFails, SecretRaises, FailRun,
       FinishRun, Crash
  <2>3. QED
    BY <2>1, <2>2 DEF SweepInv
<1>1. CASE StartRun(Sweeper) /\ scan[Sweeper].source \in Registered
  <2>1. /\ UNCHANGED <<now, sweep>> /\ lastRun' = lastRun + 1
        /\ scan' = [scan EXCEPT ![Sweeper].pc = "read", ![Sweeper].run = lastRun + 1]
    BY <1>1 DEF StartRun, world
  <2>2. scan[Sweeper] \in Scans
    BY <1>0 DEF ScansInv, ScanInv
  <2>3. /\ scan'[Sweeper].pc = "read" /\ scan'[Sweeper].name = scan[Sweeper].name
        /\ scan'[Sweeper].started = scan[Sweeper].started
        /\ scan'[Sweeper].run = lastRun + 1
    BY <1>0, <2>1, <2>2 DEF Scans
  <2>4. lastRun + 1 \notin sweep.reached
    BY <1>0, Sweeping
  <2>5. now' \in Nat /\ now <= now' /\ sweep' = sweep
    BY <1>0, <2>1
  <2>6. QED
    BY <1>0, <2>3, <2>4, <2>5, SweepKept
<1>2. CASE ReadCatalog(Sweeper) \/ SourceFails(Sweeper)
  <2>1. now' = now /\ sweep' = sweep
    BY <1>2 DEF ReadCatalog, SourceFails, world
  <2>2. scan[Sweeper] \in Scans
    BY <1>0 DEF ScansInv, ScanInv
  <2>3. /\ scan'[Sweeper].pc # "idle" /\ scan'[Sweeper].name = scan[Sweeper].name
        /\ scan'[Sweeper].started = scan[Sweeper].started
        /\ scan'[Sweeper].run = scan[Sweeper].run
    BY <1>0, <1>2, <2>2 DEF Scans, ReadCatalog, SourceFails
  <2>4. scan[Sweeper].run \notin sweep.reached
    BY <1>0 DEF SweepInv
  <2>5. now' \in Nat /\ now <= now'
    BY <1>0, <2>1
  <2>6. QED
    BY <1>0, <2>1, <2>3, <2>4, <2>5, SweepKept
<1>3. CASE Crash(Sweeper)
  <2>1. sweep' = NoSweep /\ scan'[Sweeper].pc = "idle"
    BY <1>0, <1>3 DEF Crash, Free
  <2>2. QED
    BY <2>1 DEF SweepInv
<1>4. ASSUME ~ Crash(Sweeper),
             \/ Refuse(Sweeper) \/ SecretRaises(Sweeper) \/ FailRun(Sweeper) \/ FinishRun(Sweeper)
             \/ (StartRun(Sweeper) /\ scan[Sweeper].source \notin Registered)
      PROVE  SweepInv'
  <2>1. now' = now /\ scan' = [scan EXCEPT ![Sweeper] = Free]
    BY <1>0, <1>4, Ends
  <2>2. scan'[Sweeper].pc = "idle"
    BY <1>0, <2>1 DEF Free
  <2>3. CASE sweep' = Reported(FALSE)
    BY <1>0, <2>1, <2>2, <2>3, SweepEnds
  <2>4. CASE FinishRun(Sweeper) /\ sweep' = Reported(TRUE) /\ scan[Sweeper].run \in DOMAIN runs
    <3>0. PICK run, started : run = scan[Sweeper].run /\ started = scan[Sweeper].started
      OBVIOUS
    <3>1. run \in 1 .. lastRun
      <4>1. run \in 0 .. lastRun /\ run # 0
        BY <1>0, <2>4, <3>0, InFlight DEF ScanInv, FinishRun
      <4>2. QED
        BY <1>0, <4>1
    <3>2. runs' = [runs EXCEPT ![run] = Completed(Sweeper)]
      BY <2>4, <3>0 DEF FinishRun
    <3>3. runs[run] = Running(scan[Sweeper].source, started)
      BY <1>0, <2>4, <3>0, InFlight DEF ScanInv
    <3>4. runs[run] \in Rows
      BY <2>4, <3>0 DEF RunsInv, RunInv
    <3>5. runs'[run] = Completed(Sweeper)
      BY <2>4, <3>0, <3>2
    <3>6. /\ Completed(Sweeper).status = "succeeded"
          /\ Completed(Sweeper).started = runs[run].started
      BY <3>0, <3>4 DEF Completed, Rows
    <3>7. runs[run].started = started
      BY <3>3 DEF Running
    <3>8. QED
      BY <1>0, <2>1, <2>2, <2>4, <3>0, <3>1, <3>5, <3>6, <3>7, SweepEnds
  <2>5. sweep' = Reported(FALSE) \/
        (FinishRun(Sweeper) /\ sweep' = Reported(TRUE) /\ scan[Sweeper].run \in DOMAIN runs)
    BY <1>4 DEF Refuse, SecretRaises, FailRun, FinishRun, StartRun, End, Reported
  <2>6. QED
    BY <2>3, <2>4, <2>5
<1>5. QED
  BY <1>1, <1>2, <1>3, <1>4 DEF ScanStep

LEMMA SweepStep == WorldInv /\ RunsInv /\ ScansInv /\ SweepInv /\ [Next]_vars => SweepInv'
<1> SUFFICES ASSUME WorldInv, RunsInv, ScansInv, SweepInv, [Next]_vars PROVE SweepInv'
  OBVIOUS
<1>0. /\ Settled /\ now \in Nat /\ DOMAIN scan = Scanners /\ Sweeper \in Scanners
  BY RunsSettle DEF WorldInv, ScansInv, Scanners
<1>1. ASSUME sweep' = sweep, scan'[Sweeper] = scan[Sweeper], now' = now \/ now' = now + 1
      PROVE  SweepInv'
  <2>1. now' \in Nat /\ now <= now'
    BY <1>0, <1>1
  <2>2. sweep # NoSweep /\ scan[Sweeper].pc # "idle" => scan[Sweeper].run \notin sweep.reached
    BY DEF SweepInv
  <2>3. QED
    BY <1>0, <1>1, <2>1, <2>2, SweepKept
<1>2. ASSUME NEW w \in Scanners, ScanStep(w) \/ Crash(w) PROVE SweepInv'
  <2>1. CASE w = Sweeper
    BY <1>0, <1>2, <2>1, SweepScans
  <2>2. CASE w # Sweeper
    <3>1. sweep' = sweep /\ now' = now
      BY <1>2, <2>2 DEF ScanStep, Refuse, StartRun, ReadCatalog, SourceFails, SecretRaises,
         FailRun, FinishRun, Crash, End, world
    <3>2. scan'[Sweeper] = scan[Sweeper]
      BY <1>0, <1>2, <2>2 DEF ScanStep, Refuse, StartRun, ReadCatalog, SourceFails,
         SecretRaises, FailRun, FinishRun, Crash, End
    <3>3. QED
      BY <1>1, <3>1, <3>2
  <2>3. QED
    BY <2>1, <2>2
<1>3. ASSUME NEW w \in Scanners, NEW n \in Names, BeginScan(w, n) PROVE SweepInv'
  <2>1. w # Sweeper
    BY <1>3, Constants DEF BeginScan
  <2>2. QED
    BY <1>0, <1>1, <1>3, <2>1 DEF BeginScan
<1>4. CASE StartSweep
  BY <1>4, SweepStarts
<1>5. CASE NextTarget
  BY <1>5, SweepTurns
<1>6. CASE EndSweep
  <2>1. /\ sweep.pc = "sweeping" /\ scan[Sweeper].pc = "idle" /\ sweep.todo = {}
        /\ sweep' = [sweep EXCEPT !.pc = "ended"]
        /\ UNCHANGED <<runs, lastRun, now, scan>>
    BY <1>6 DEF EndSweep, world
  <2>2. sweep # NoSweep /\ sweep \in Sweeps
    BY <2>1 DEF SweepInv, NoSweep
  <2>3. /\ sweep'.pc = "ended" /\ sweep'.todo = {} /\ sweep'.tx = sweep.tx
        /\ sweep'.failed = sweep.failed /\ sweep'.reached = sweep.reached
        /\ sweep'.total = sweep.total /\ sweep'.since = sweep.since
    BY <2>1, <2>2 DEF Sweeps
  <2>4. sweep' \in Sweeps'
    BY <2>1, <2>2 DEF Sweeps
  <2>5. InHand' = InHand
    BY <2>1 DEF InHand
  <2>6. /\ sweep.tx # 0 => sweep.tx >= sweep.since
        /\ Cardinality(sweep.reached) + Cardinality(sweep.failed)
              + Cardinality(sweep.todo) + InHand = sweep.total
        /\ \A r \in sweep.reached \cap DOMAIN runs :
              runs[r].status = "succeeded" /\ runs[r].started >= sweep.since
    BY <2>2 DEF SweepInv
  <2>7. scan'[Sweeper].pc = "idle"
    BY <2>1
  <2>8. /\ Cardinality(sweep'.reached) + Cardinality(sweep'.failed)
              + Cardinality(sweep'.todo) + InHand' = sweep'.total
        /\ \A r \in sweep'.reached \cap DOMAIN runs' :
              runs'[r].status = "succeeded" /\ runs'[r].started >= sweep'.since
    BY <2>1, <2>3, <2>5, <2>6
  <2>9. QED
    BY <2>3, <2>4, <2>6, <2>7, <2>8 DEF SweepInv
<1>7. ASSUME \/ \E n \in Names : SourceChanges(n) \/ Register(n) \/ Remove(n) \/ AskCatalog(n)
             \/ PickRun \/ ListTables \/ ListColumns \/ UNCHANGED vars
      PROVE  SweepInv'
  <2>1. UNCHANGED <<sweep, scan>>
    BY <1>7 DEF SourceChanges, Register, Remove, AskCatalog, PickRun, ListTables, ListColumns,
       vars
  <2>2. now' = now \/ now' = now + 1
    BY <1>7 DEF SourceChanges, Register, Remove, AskCatalog, PickRun, ListTables, ListColumns,
       vars, world
  <2>3. QED
    BY <1>1, <2>1, <2>2
<1>8. CASE Next
  BY <1>2, <1>3, <1>4, <1>5, <1>6, <1>7, <1>8 DEF Next
<1>9. QED
  BY <1>7, <1>8
-----------------------------------------------------------------------------
(* The reader.                                                             *)

LEMMA EmptyTables ==
    ASSUME NEW rows, rows = <<>>
    PROVE  DOMAIN rows = {} /\ [t \in DOMAIN rows |-> rows[t].columns] = <<>>
<1>1. DOMAIN rows = {} /\ DOMAIN <<>> = {}
  OBVIOUS
<1>2. QED
  BY <1>1

LEMMA ReaderInit == Init => ReaderInv
<1> SUFFICES ASSUME Init PROVE ReaderInv
  OBVIOUS
<1>1. reader.pc = "idle"
  BY DEF Init, NoReader
<1>2. QED
  BY <1>1 DEF ReaderInv, AnswerWhole

\* The tables of an answer that was put together from rows.
Columns(rows) == [t \in DOMAIN rows |-> rows[t].columns]

\* The reader waits while the runs go on.
LEMMA ReaderKept ==
    ASSUME WorldInv, RunsInv, ReaderInv, Settled, reader' = reader
    PROVE  ReaderInv'
<1>0. PICK run : run = reader.run
  OBVIOUS
<1>1. CASE reader.pc \notin {"tables", "columns", "answered"}
  BY <1>1 DEF ReaderInv, AnswerWhole
<1>2. CASE reader.pc \in {"tables", "columns", "answered"}
  <2>1. /\ run \in 0 .. lastRun /\ run \in 0 .. lastRun'
        /\ run \in DOMAIN runs /\ reader.status = "succeeded" => runs[run].status = "succeeded"
    <3>1. lastRun \in Nat /\ lastRun' \in Nat /\ lastRun <= lastRun'
      BY DEF WorldInv, Settled
    <3>2. run \in 0 .. lastRun
      BY <1>0, <1>2 DEF ReaderInv
    <3>3. QED
      BY <1>0, <1>2, <3>1, <3>2 DEF ReaderInv
  <2>2. run \in DOMAIN runs' =>
          /\ run \in DOMAIN runs
          /\ runs[run].status = "succeeded" => runs'[run] = runs[run]
    BY <2>1 DEF Settled
  <2>3. run \in DOMAIN runs /\ runs[run].status # "succeeded" =>
          reader.status # "succeeded" /\ runs[run].catalog = <<>>
    BY <2>1 DEF RunsInv, RunInv
  <2>4. run \in DOMAIN runs' /\ reader.status = "succeeded" => runs'[run].status = "succeeded"
    BY <2>1, <2>2
  <2>5. ASSUME reader.pc = "columns", run \in DOMAIN runs'
        PROVE  \/ reader.listed = DOMAIN runs'[run].catalog
               \/ reader.status # "succeeded" /\ reader.listed = {}
    <3>1. \/ reader.listed = DOMAIN runs[run].catalog
          \/ reader.status # "succeeded" /\ reader.listed = {}
      BY <1>0, <2>2, <2>5 DEF ReaderInv
    <3>2. DOMAIN <<>> = {}
      OBVIOUS
    <3>3. QED
      BY <2>2, <2>3, <2>5, <3>1, <3>2
  <2>6. ASSUME reader.pc = "answered", run \in DOMAIN runs'
        PROVE  \/ reader.tables = Columns(runs'[run].catalog)
               \/ reader.status # "succeeded" /\ reader.tables = <<>>
    <3>1. \/ reader.tables = Columns(runs[run].catalog)
          \/ reader.status # "succeeded" /\ reader.tables = <<>>
      BY <1>0, <2>2, <2>6 DEF ReaderInv, AnswerWhole, Columns
    <3>2. runs[run].catalog = <<>> => Columns(runs[run].catalog) = <<>>
      BY EmptyTables DEF Columns
    <3>3. QED
      BY <2>2, <2>3, <2>6, <3>1, <3>2
  <2>7. reader = [pc |-> reader.pc, run |-> reader.run, status |-> reader.status,
                  listed |-> reader.listed, tables |-> reader.tables]
    BY <1>2 DEF ReaderInv
  <2>8. AnswerWhole'
    BY <1>0, <2>6 DEF AnswerWhole, Columns
  <2>9. QED
    BY <1>0, <1>2, <2>1, <2>4, <2>5, <2>7, <2>8 DEF ReaderInv
<1>3. QED
  BY <1>1, <1>2

\* The reader has picked a run, or found none.
LEMMA ReaderPicks ==
    ASSUME WorldInv, RunsInv, PickRun
    PROVE  ReaderInv'
<1>1. UNCHANGED <<runs, lastRun>>
  BY DEF PickRun
<1>2. ASSUME NEW r \in DOMAIN runs, reader' = Picked(r) PROVE ReaderInv'
  <2>1. /\ reader' = [pc |-> "tables", run |-> r, status |-> runs[r].status,
                      listed |-> {}, tables |-> <<>>]
        /\ reader'.pc = "tables" /\ reader'.run = r /\ reader'.status = runs[r].status
        /\ reader'.listed = {} /\ reader'.tables = <<>>
    BY <1>2 DEF Picked
  <2>2. r \in 0 .. lastRun'
    BY <1>1 DEF RunsInv, WorldInv
  <2>3. reader' = [pc |-> reader'.pc, run |-> reader'.run, status |-> reader'.status,
                   listed |-> reader'.listed, tables |-> reader'.tables]
    BY <2>1
  <2>4. AnswerWhole'
    BY <2>1 DEF AnswerWhole
  <2>5. QED
    BY <1>1, <2>1, <2>2, <2>3, <2>4 DEF ReaderInv
<1>3. ASSUME reader' = Nothing PROVE ReaderInv'
  <2>1. /\ reader' = [pc |-> "answered", run |-> 0, status |-> "none",
                      listed |-> {}, tables |-> <<>>]
        /\ reader'.pc = "answered" /\ reader'.run = 0 /\ reader'.status = "none"
        /\ reader'.listed = {} /\ reader'.tables = <<>>
    BY <1>3 DEF Nothing
  <2>2. 0 \notin DOMAIN runs' /\ 0 \in 0 .. lastRun'
    BY <1>1 DEF RunsInv, WorldInv
  <2>3. reader' = [pc |-> reader'.pc, run |-> reader'.run, status |-> reader'.status,
                   listed |-> reader'.listed, tables |-> reader'.tables]
    BY <2>1
  <2>4. AnswerWhole'
    BY <2>1, <2>2 DEF AnswerWhole
  <2>5. QED
    BY <2>1, <2>2, <2>3, <2>4 DEF ReaderInv
<1>4. QED
  BY <1>2, <1>3 DEF PickRun, LatestSucceeded, Succeeded, RunsOf

LEMMA ReaderLists ==
    ASSUME WorldInv, RunsInv, ReaderInv, ListTables \/ ListColumns
    PROVE  ReaderInv'
<1>0. PICK run, status, listed, tables :
        /\ run = reader.run /\ status = reader.status
        /\ listed = reader.listed /\ tables = reader.tables
  OBVIOUS
<1>1. /\ UNCHANGED <<runs, lastRun>> /\ reader.pc \in {"tables", "columns"}
  BY DEF ListTables, ListColumns
<1>2. PICK pc : reader = [pc |-> pc, run |-> run, status |-> status,
                          listed |-> listed, tables |-> tables]
  BY <1>0, <1>1 DEF ReaderInv
<1>3. /\ run \in 0 .. lastRun'
      /\ run \in DOMAIN runs /\ status = "succeeded" => runs[run].status = "succeeded"
  BY <1>0, <1>1 DEF ReaderInv
<1>4. CASE ListTables
  <2>1. reader' = [reader EXCEPT !.pc = "columns", !.listed = DOMAIN RowsOf(run)]
    BY <1>0, <1>4 DEF ListTables
  <2>2. PICK rows : rows = DOMAIN RowsOf(run)
    OBVIOUS
  <2>3. reader' = [pc |-> "columns", run |-> run, status |-> status,
                   listed |-> rows, tables |-> tables]
    BY <1>2, <2>1, <2>2
  <2>4. /\ reader'.pc = "columns" /\ reader'.run = run /\ reader'.status = status
        /\ reader'.listed = rows /\ reader'.tables = tables
    BY <2>3
  <2>5. run \in DOMAIN runs => rows = DOMAIN runs[run].catalog
    BY <2>2 DEF RowsOf
  <2>6. AnswerWhole'
    BY <2>4 DEF AnswerWhole
  <2>7. QED
    BY <1>1, <1>3, <2>3, <2>4, <2>5, <2>6 DEF ReaderInv
<1>5. CASE ListColumns
  <2>1. PICK rows, answer :
          /\ rows = RowsOf(run)
          /\ answer = [t \in listed |-> IF t \in DOMAIN rows THEN rows[t].columns ELSE {}]
          /\ reader' = [reader EXCEPT !.pc = "answered", !.listed = {}, !.tables = answer]
    BY <1>0, <1>5 DEF ListColumns
  <2>2. /\ reader'.pc = "answered" /\ reader'.run = run /\ reader'.status = status
        /\ reader'.listed = {} /\ reader'.tables = answer
        /\ DOMAIN reader' = {"pc", "run", "status", "listed", "tables"}
    BY <1>2, <2>1
  <2>3. reader' = [pc |-> reader'.pc, run |-> reader'.run, status |-> reader'.status,
                   listed |-> reader'.listed, tables |-> reader'.tables]
    BY <1>2, <2>1
  <2>4. ASSUME run \in DOMAIN runs
        PROVE  answer = Columns(runs[run].catalog) \/ (status # "succeeded" /\ answer = <<>>)
    <3>1. rows = runs[run].catalog
      BY <2>1, <2>4 DEF RowsOf
    <3>2. listed = DOMAIN rows \/ (status # "succeeded" /\ listed = {})
      BY <1>0, <1>1, <1>5, <2>4, <3>1 DEF ReaderInv, ListColumns
    <3>3. CASE listed = DOMAIN rows
      BY <2>1, <3>1, <3>3 DEF Columns
    <3>4. CASE status # "succeeded" /\ listed = {}
      BY <2>1, <3>4
    <3>5. QED
      BY <3>2, <3>3, <3>4
  <2>5. AnswerWhole'
    BY <1>1, <2>2, <2>4 DEF AnswerWhole, Columns
  <2>6. QED
    BY <1>1, <1>3, <2>2, <2>3, <2>5 DEF ReaderInv
<1>6. QED
  BY <1>4, <1>5

LEMMA ReaderStep == WorldInv /\ RunsInv /\ ScansInv /\ ReaderInv /\ [Next]_vars => ReaderInv'
<1> SUFFICES ASSUME WorldInv, RunsInv, ScansInv, ReaderInv, [Next]_vars PROVE ReaderInv'
  OBVIOUS
<1>1. CASE reader' = reader
  BY <1>1, RunsSettle, ReaderKept
<1>2. ASSUME NEW n \in Names, AskCatalog(n) PROVE ReaderInv'
  <2>1. reader'.pc = "pick"
    BY <1>2 DEF AskCatalog
  <2>2. QED
    BY <2>1 DEF ReaderInv, AnswerWhole
<1>3. CASE PickRun
  BY <1>3, ReaderPicks
<1>4. CASE ListTables \/ ListColumns
  BY <1>4, ReaderLists
<1>5. ASSUME NEW w \in Scanners, ScanStep(w) \/ Crash(w) PROVE reader' = reader
  BY <1>5 DEF ScanStep, Refuse, StartRun, ReadCatalog, SourceFails, SecretRaises,
     FailRun, FinishRun, Crash
<1>6. ASSUME \/ \E n \in Names : SourceChanges(n) \/ Register(n) \/ Remove(n)
             \/ \E w \in Scanners, n \in Names : BeginScan(w, n)
             \/ StartSweep \/ NextTarget \/ EndSweep \/ UNCHANGED vars
      PROVE  reader' = reader
  BY <1>6 DEF SourceChanges, Register, Remove, BeginScan, StartSweep, NextTarget, EndSweep,
     vars
<1>7. QED
  BY <1>1, <1>2, <1>3, <1>4, <1>5, <1>6 DEF Next

-----------------------------------------------------------------------------
(* The theorems.                                                           *)

\* CInv holds at all times.
THEOREM CatalogInvariant == Spec => []CInv
<1>1. Init => CInv
  BY WorldInit, RunsInit, ScansInit, SweepInit, ReaderInit DEF CInv
<1>2. CInv /\ [Next]_vars => CInv'
  BY WorldStep, RunsStep, ScansStep, SweepStep, ReaderStep DEF CInv
<1>3. QED
  BY <1>1, <1>2, PTL DEF Spec

\* The rows of the catalog and what scans, sweep and reader hold in memory
\* keep their types, for any sources, shapes and scanners.
THEOREM CatalogTypes == Spec => []TypeOK
<1>1. CInv => TypeOK
  <2> SUFFICES ASSUME CInv PROVE TypeOK
    OBVIOUS
  <2>0. WorldInv /\ RunsInv /\ ScansInv /\ SweepInv /\ ReaderInv
    BY DEF CInv
  <2>1. ASSUME NEW s \in Shapes, NEW t \in Shapes PROVE IsCatalog(BuildObservations(s, t))
    BY Constants, FS_EmptySet DEF IsCatalog, BuildObservations
  <2>2. \A c \in Catalogs : IsCatalog(c)
    BY <2>1 DEF Catalogs, IsCatalog
  <2>3. ASSUME NEW r \in DOMAIN runs
        PROVE  /\ runs[r].source \in 1 .. ids /\ runs[r].started \in 1 .. now
               /\ runs[r].status \in {"running", "succeeded", "failed"}
               /\ runs[r].read \in Seq(Nat) /\ IsCatalog(runs[r].catalog)
    <3>1. runs[r] \in Rows
      BY <2>0 DEF RunsInv, RunInv
    <3>2. QED
      BY <2>2, <3>1 DEF Rows, Statuses
  <2>4. ASSUME NEW w \in Scanners
        PROVE  scan[w] = Free \/ /\ scan[w].pc \in {"start", "read", "finish", "fail"}
                                 /\ scan[w].name \in Names /\ scan[w].source \in 1 .. ids
                                 /\ scan[w].run \in 0 .. lastRun /\ scan[w].read \in Seq(Nat)
    BY <2>0 DEF ScansInv, Scans
  <2>5. sweep.pc \in {"idle", "sweeping", "ended"}
    BY <2>0, Sweeping DEF NoSweep
  <2>6. QED
    BY <2>0, <2>3, <2>4, <2>5 DEF TypeOK, WorldInv, RunsInv, ReaderInv
<1>2. QED
  BY <1>1, CatalogInvariant, PTL

\* No run and no catalog outlives its source: the cascade takes what was
\* complete, and the guards of start_run and finish_run what was in flight.
THEOREM NothingLeftBehind == Spec => []NothingOutlivesItsSource
<1>1. CInv => NothingOutlivesItsSource
  BY DEF CInv, RunsInv, RunInv, NothingOutlivesItsSource
<1>2. QED
  BY <1>1, CatalogInvariant, PTL

\* However scans overlap, the default catalog holds nothing that had been
\* replaced in the source before a completed scan of it began.
THEOREM DefaultIsFresh == Spec => []CatalogFresh
<1>1. CInv => CatalogFresh
  <2> SUFFICES ASSUME CInv, NEW n \in Names,
                      NEW r \in LatestSucceeded(source[n]), NEW q \in Succeeded(source[n]),
                      NEW i \in DOMAIN runs[r].read, runs[r].read[i] < Current(n)
               PROVE  history[n][runs[r].read[i] + 1].since > runs[q].started
    BY DEF CatalogFresh
  <2>1. /\ r \in DOMAIN runs /\ q \in DOMAIN runs
        /\ runs[r].source = source[n] /\ runs[r].status = "succeeded"
        /\ r = q \/ Newer(r, q)
    BY DEF LatestSucceeded, Succeeded, RunsOf
  <2>2. Fresh(history[n], runs[r].read, runs[r].started)
    BY <2>1 DEF CInv, RunsInv, RunInv
  <2>3. history[n][runs[r].read[i] + 1].since > runs[r].started
    BY <2>2 DEF Fresh, Current
  <2>4. /\ runs[r].started \in Nat /\ runs[q].started \in Nat
        /\ history[n][runs[r].read[i] + 1].since \in Nat
    <3>1. runs[r].started \in 1 .. now /\ runs[q].started \in 1 .. now /\ now \in Nat
      BY <2>1 DEF CInv, RunsInv, RunInv, WorldInv, Rows
    <3>2. history[n] \in Seq(Moments)
      BY DEF CInv, WorldInv, Moments
    <3>3. runs[r].read[i] \in 1 .. Len(history[n]) /\ Len(history[n]) \in Nat
      BY <2>2, <3>2 DEF Fresh
    <3>4. runs[r].read[i] + 1 \in DOMAIN history[n]
      BY <3>2, <3>3 DEF Current
    <3>5. history[n][runs[r].read[i] + 1] \in Moments
      BY <3>2, <3>4
    <3>6. QED
      BY <3>1, <3>5 DEF Moments
  <2>5. runs[r].started >= runs[q].started
    BY <2>1, <2>4 DEF Newer
  <2>6. QED
    BY <2>3, <2>4, <2>5
<1>2. QED
  BY <1>1, CatalogInvariant, PTL

\* A scan records every table it listed and every column it read.
THEOREM EverythingRecorded == Spec => []NothingObservedIsLost
<1>1. CInv => NothingObservedIsLost
  <2> SUFFICES ASSUME CInv, NEW n \in Names, NEW r \in Succeeded(source[n])
               PROVE  LET listed == history[n][runs[r].read[1]].shape
                          seen   == history[n][runs[r].read[2]].shape
                      IN  /\ DOMAIN listed \subseteq DOMAIN runs[r].catalog
                          /\ \A t \in DOMAIN seen : /\ t \in DOMAIN runs[r].catalog
                                                    /\ runs[r].catalog[t].columns = seen[t]
    BY DEF NothingObservedIsLost
  <2>1. r \in DOMAIN runs /\ runs[r].source = source[n] /\ runs[r].status = "succeeded"
    BY DEF Succeeded, RunsOf
  <2>2. runs[r].catalog = Observation(n, runs[r].read)
    BY <2>1 DEF CInv, RunsInv, RunInv
  <2>3. PICK listed, seen, built :
          /\ listed = history[n][runs[r].read[1]].shape
          /\ seen = history[n][runs[r].read[2]].shape
          /\ built = runs[r].catalog
    OBVIOUS
  <2>4. built = BuildObservations(listed, seen)
    BY <2>2, <2>3 DEF Observation
  <2>5. /\ DOMAIN listed \subseteq DOMAIN built
        /\ \A t \in DOMAIN seen : t \in DOMAIN built /\ built[t].columns = seen[t]
    BY <2>4 DEF BuildObservations
  <2>6. QED
    BY <2>3, <2>5
<1>2. QED
  BY <1>1, CatalogInvariant, PTL

\* An answer of the catalog is that of one run, whole, or empty when the run
\* had not succeeded, or its source is gone.
THEOREM AnswersWhole == Spec => []AnswerWhole
<1>1. CInv => AnswerWhole
  BY DEF CInv, ReaderInv
<1>2. QED
  BY <1>1, CatalogInvariant, PTL

\* A sweep that ended has counted every source it listed.
THEOREM SweepCountsAll == Spec => []SweepAccounts
<1>1. CInv => SweepAccounts
  <2> SUFFICES ASSUME CInv, sweep.pc = "ended" PROVE SweepAccounts
    BY DEF SweepAccounts
  <2>0. WorldInv /\ SweepInv
    BY DEF CInv
  <2>1. sweep # NoSweep
    BY DEF NoSweep
  <2>2. sweep.todo = {} /\ scan[Sweeper].pc = "idle"
    BY <2>0, <2>1 DEF SweepInv
  <2>3. Cardinality(sweep.reached) + Cardinality(sweep.failed) + 0 + 0 = sweep.total
    BY <2>0, <2>1, <2>2, FS_EmptySet DEF SweepInv, InHand
  <2>4. Cardinality(sweep.reached) \in Nat /\ Cardinality(sweep.failed) \in Nat
    BY <2>0, <2>1, SweepCounts
  <2>5. QED
    BY <2>0, <2>1, <2>3, <2>4 DEF SweepInv, SweepAccounts
<1>2. QED
  BY <1>1, CatalogInvariant, PTL

-----------------------------------------------------------------------------
(* The refinement.                                                         *)

Item(R, r) == [run |-> r, source |-> R[r].source, catalog |-> R[r].catalog]
Done(R) == {q \in DOMAIN R : R[q].status = "succeeded"}
Observed(R) == {[run |-> r, source |-> R[r].source, catalog |-> R[r].catalog] :
                   r \in {q \in DOMAIN R : R[q].status = "succeeded"}}

LEMMA ObservedItems ==
    ASSUME NEW R, NEW o
    PROVE  o \in Observed(R) <=> \E r \in Done(R) : o = Item(R, r)
BY DEF Observed, Done, Item

\* Runs that differ only in what has not succeeded show the same observations.
LEMMA SameObserved ==
    ASSUME NEW R, NEW S, Done(R) = Done(S), \A r \in Done(R) : R[r] = S[r]
    PROVE  Observed(R) = Observed(S)
<1>1. \A r \in Done(R) : Item(R, r) = Item(S, r)
  BY DEF Item
<1>2. \A o : o \in Observed(R) <=> o \in Observed(S)
  BY <1>1, ObservedItems
<1>3. QED
  BY <1>2 DEF Observed

\* A step that completes no run and removes no source is a stutter.
LEMMA QuietStep ==
    ASSUME UNCHANGED <<source, ids>>, Observed(runs') = Observed(runs)
    PROVE  UNCHANGED Promise!vars
BY DEF Promise!vars, Observed

LEMMA RegisterStep ==
    ASSUME NEW n \in Names, Register(n)
    PROVE  Promise!Next
<1>1. Promise!Register(n)
  BY DEF Register, Promise!Register
<1>2. QED
  BY <1>1 DEF Promise!Next

LEMMA RemoveStep ==
    ASSUME NEW n \in Names, Remove(n)
    PROVE  Promise!Next
<1>1. /\ source[n] # None /\ source' = [source EXCEPT ![n] = None] /\ ids' = ids
      /\ runs' = [r \in DOMAIN runs \ RunsOf(source[n]) |-> runs[r]]
  BY DEF Remove, Cascade
<1>2. PICK R : R = runs'
  OBVIOUS
<1>3. /\ \A r : r \in Done(R) <=> r \in Done(runs) /\ runs[r].source # source[n]
      /\ \A r \in Done(R) : Item(R, r) = Item(runs, r)
  BY <1>1, <1>2 DEF Done, Item, RunsOf
<1>4. \A r : Item(runs, r).source = runs[r].source
  BY DEF Item
<1>5. \A o : o \in Observed(R) <=> o \in Observed(runs) /\ o.source # source[n]
  BY <1>3, <1>4, ObservedItems
<1>6. Observed(R) = {o \in Observed(runs) : o.source # source[n]}
  BY <1>5 DEF Observed
<1>7. Promise!Remove(n)
  BY <1>1, <1>2, <1>6 DEF Promise!Remove, Observed
<1>8. QED
  BY <1>7 DEF Promise!Next

LEMMA FinishStep ==
    ASSUME CInv, NEW w \in Scanners, FinishRun(w), scan[w].run \in DOMAIN runs
    PROVE  Promise!Next
<1>0. PICK run, R : run = scan[w].run /\ R = runs'
  OBVIOUS
<1>1. /\ scan[w].pc = "finish" /\ UNCHANGED <<source, ids>>
      /\ R = [runs EXCEPT ![run] = Completed(w)]
  BY <1>0 DEF FinishRun, registry
<1>2. /\ run \in DOMAIN runs /\ runs[run] = Running(scan[w].source, scan[w].started)
      /\ runs[run] \in Rows /\ runs[run].source \in Registered
  <2>1. ScanInv(w)
    BY DEF CInv, ScansInv
  <2>2. RunInv(run)
    BY <1>0 DEF CInv, RunsInv
  <2>3. runs[run] = Running(scan[w].source, scan[w].started)
    BY <1>0, <1>1, <2>1 DEF ScanInv
  <2>4. QED
    BY <1>0, <2>2, <2>3 DEF RunInv
<1>3. /\ R[run].status = "succeeded" /\ R[run].source = runs[run].source
      /\ DOMAIN R = DOMAIN runs /\ \A r \in DOMAIN runs : r # run => R[r] = runs[r]
  <2>1. Completed(w).status = "succeeded" /\ Completed(w).source = runs[run].source
    BY <1>0, <1>2 DEF Completed, Rows
  <2>2. QED
    BY <1>1, <1>2, <2>1
<1>4. runs[run].status = "running"
  BY <1>2 DEF Running
<1>5. /\ \A r : r \in Done(R) <=> r \in Done(runs) \/ r = run
      /\ \A r \in Done(runs) : Item(R, r) = Item(runs, r) /\ r # run
  BY <1>2, <1>3, <1>4 DEF Done, Item
<1>6. PICK item : item = Item(R, run)
  OBVIOUS
<1>7. \A o : o \in Observed(R) <=> o \in Observed(runs) \/ o = item
  BY <1>5, <1>6, ObservedItems
<1>8. Observed(R) = Observed(runs) \cup {item} /\ item \in Observed(R)
  BY <1>7 DEF Observed
<1>9. item.source \in Registered /\ item.run = run
  BY <1>2, <1>3, <1>6 DEF Item
<1>10. \A p \in Observed(runs) : p.run # item.run
  <2>1. \A r : Item(runs, r).run = r
    BY DEF Item
  <2>2. QED
    BY <1>5, <1>9, <2>1, ObservedItems
<1>11. Promise!Observe
  BY <1>0, <1>1, <1>8, <1>9, <1>10 DEF Promise!Observe, Promise!Registered, Observed, Registered
<1>12. QED
  BY <1>11 DEF Promise!Next

LEMMA PromiseStep == CInv /\ [Next]_vars => [Promise!Next]_(Promise!vars)
<1> SUFFICES ASSUME CInv, [Next]_vars PROVE Promise!Next \/ UNCHANGED Promise!vars
  OBVIOUS
<1>0. /\ lastRun \in Nat /\ DOMAIN runs \subseteq 1 .. lastRun /\ ScansInv
      /\ WorldInv /\ RunsInv
  BY DEF CInv, WorldInv, RunsInv
<1>1. ASSUME UNCHANGED <<source, ids, runs>> PROVE UNCHANGED Promise!vars
  <2>1. Observed(runs') = Observed(runs)
    BY <1>1
  <2>2. QED
    BY <1>1, <2>1, QuietStep
<1>2. ASSUME NEW w \in Scanners, StartRun(w), scan[w].source \in Registered
      PROVE  UNCHANGED Promise!vars
  <2>1. PICK R : R = runs'
    OBVIOUS
  <2>2. /\ UNCHANGED <<source, ids>>
        /\ R = [r \in DOMAIN runs \cup {lastRun + 1} |->
                  IF r = lastRun + 1 THEN Running(scan[w].source, scan[w].started) ELSE runs[r]]
    BY <1>2, <2>1 DEF StartRun, registry
  <2>3. Running(scan[w].source, scan[w].started).status = "running"
    BY DEF Running
  <2>4. lastRun + 1 \notin DOMAIN runs
    BY <1>0
  <2>5. Done(R) = Done(runs) /\ \A r \in Done(R) : R[r] = runs[r]
    BY <2>2, <2>3, <2>4 DEF Done
  <2>6. Observed(runs') = Observed(runs)
    BY <2>1, <2>5, SameObserved
  <2>7. QED
    BY <2>2, <2>6, QuietStep
<1>3. ASSUME NEW w \in Scanners, FailRun(w) PROVE UNCHANGED Promise!vars
  <2>1. PICK R, run : R = runs' /\ run = scan[w].run
    OBVIOUS
  <2>2. /\ UNCHANGED <<source, ids>> /\ scan[w].pc = "fail"
        /\ R = [r \in DOMAIN runs |->
                  IF r = run THEN [runs[r] EXCEPT !.status = "failed"] ELSE runs[r]]
    BY <1>3, <2>1 DEF FailRun, registry
  <2>3. run \in DOMAIN runs => runs[run].status = "running" /\ R[run].status = "failed"
    <3>1. ASSUME run \in DOMAIN runs
          PROVE  runs[run] = Running(scan[w].source, scan[w].started) /\ runs[run] \in Rows
      BY <1>0, <2>1, <2>2, <3>1, InFlight DEF ScanInv, RunsInv, RunInv
    <3>2. Running(scan[w].source, scan[w].started).status = "running"
      BY DEF Running
    <3>3. QED
      BY <2>2, <3>1, <3>2 DEF Rows
  <2>4. DOMAIN R = DOMAIN runs /\ \A r \in DOMAIN runs : r # run => R[r] = runs[r]
    BY <2>2
  <2>5. Done(R) = Done(runs) /\ \A r \in Done(R) : R[r] = runs[r]
    BY <2>3, <2>4 DEF Done
  <2>6. Observed(runs') = Observed(runs)
    BY <2>1, <2>5, SameObserved
  <2>7. QED
    BY <2>2, <2>6, QuietStep
<1>4. ASSUME NEW w \in Scanners, ScanStep(w) \/ Crash(w)
      PROVE  Promise!Next \/ UNCHANGED Promise!vars
  <2>1. CASE FinishRun(w) /\ scan[w].run \in DOMAIN runs
    BY <2>1, FinishStep
  <2>2. CASE FinishRun(w) /\ scan[w].run \notin DOMAIN runs
    BY <1>1, <2>2 DEF FinishRun, registry
  <2>3. CASE StartRun(w) /\ scan[w].source \notin Registered
    BY <1>1, <2>3 DEF StartRun, registry
  <2>4. CASE Refuse(w) \/ ReadCatalog(w) \/ SourceFails(w) \/ SecretRaises(w) \/ Crash(w)
    BY <1>1, <2>4 DEF Refuse, ReadCatalog, SourceFails, SecretRaises, Crash, registry
  <2>5. QED
    BY <1>2, <1>3, <1>4, <2>1, <2>2, <2>3, <2>4 DEF ScanStep
<1>5. ASSUME \/ \E n \in Names : SourceChanges(n) \/ AskCatalog(n)
             \/ \E w \in Scanners, n \in Names : BeginScan(w, n)
             \/ StartSweep \/ NextTarget \/ EndSweep
             \/ PickRun \/ ListTables \/ ListColumns \/ UNCHANGED vars
      PROVE  UNCHANGED Promise!vars
  BY <1>1, <1>5 DEF SourceChanges, AskCatalog, BeginScan, StartSweep, NextTarget,
     EndSweep, PickRun, ListTables, ListColumns, registry, vars
<1>6. QED
  BY <1>4, <1>5, RegisterStep, RemoveStep DEF Next

\* The catalog with its runs, scans and crashes implements SourceCatalog:
\* completed observations accumulate, never change, and go only with their
\* source.
THEOREM CatalogRefinement == Spec => ImplementsPromise
<1>1. Init => Promise!Init
  <2> SUFFICES ASSUME Init PROVE Promise!Init
    OBVIOUS
  <2>1. WorldInv
    BY WorldInit
  <2>2. /\ ids \in Nat /\ source \in [Names -> (1 .. ids) \cup {None}]
        /\ \A m, n \in Names : m # n /\ source[m] = source[n] => source[n] = None
    BY <2>1 DEF WorldInv
  <2>3. runs = <<>> /\ DOMAIN <<>> = {}
    BY DEF Init
  <2>4. QED
    BY <2>2, <2>3 DEF Promise!Init
<1>2. QED
  BY <1>1, PromiseStep, CatalogInvariant, PTL DEF Spec, ImplementsPromise, Promise!Spec
=============================================================================
