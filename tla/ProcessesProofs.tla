-------------------------- MODULE ProcessesProofs --------------------------
(* For every set of places, seed files, processes and batch size: the        *)
(* fingerprint tells the truth about the table as long as no older file is   *)
(* installed again, and a place that earned points stays in its week's draw. *)
(*                                                                           *)
(* For every set of booting processes (instance Boots of Startup): the       *)
(* capture log is never lost and no two processes go on with different       *)
(* salts.  For every set of operators (instance Broker of Connections): a    *)
(* connector that is converted while others edit it stays in one table or    *)
(* the other.                                                                *)
EXTENDS MCProcesses, TLAPS

-----------------------------------------------------------------------------
(* The seed.                                                                 *)

LoadRows == [file : 1..Len(Files), left : SUBSET Places]

SeedTypeOK ==
    /\ disk \in 1..Len(Files)
    /\ stored \in 1..Len(Files) \cup {None}
    /\ place \in [Places -> PlaceRows \cup {None}]
    /\ load \in [Procs -> LoadRows \cup {None}]

\* A load runs in a process that is up, and it is the installed file's.
LoadsAreCurrent ==
    \A q \in Procs : load[q] # None =>
        /\ q \in up
        /\ load[q].file = disk
        /\ load[q].left \subseteq Kept(Files[disk])

\* What a load no longer has to load is in the table as the file has it, whichever load
\* put it there.
LoadedHolds ==
    \A q \in Procs : load[q] # None =>
        \A p \in Kept(Files[disk]) \ load[q].left : Holds(p, Files[disk])

\* A recorded file is never newer than the installed one.
StoredIsPast == stored # None => stored <= disk

SeedInv == SeedTypeOK /\ LoadsAreCurrent /\ LoadedHolds /\ StoredIsPast /\ SelfHealing

LEMMA FileType ==
    ASSUME NEW k \in 1..Len(Files)
    PROVE  /\ Files[k] \in [Places -> SeedRows \cup {None}]
           /\ Kept(Files[k]) \subseteq Places
           /\ \A p \in Kept(Files[k]) : Files[k][p] \in SeedRows
BY FilesRatePlaces DEF Kept

LEMMA InitSeed == Init => SeedInv
<1> SUFFICES ASSUME Init PROVE SeedInv
  OBVIOUS
<1>1. SeedTypeOK
  BY FilesRatePlaces DEF Init, SeedTypeOK
<1>2. stored # disk
  BY <1>1, NoneIsNothing DEF Init, SeedTypeOK
<1> QED
  BY <1>1, <1>2 DEF Init, SeedInv, LoadsAreCurrent, LoadedHolds, StoredIsPast, SelfHealing

\* A commit of a load puts its batch in as the file has it and takes nothing back that
\* the file keeps; the last one leaves exactly the file.
LEMMA BatchKeepsSeed ==
    ASSUME SeedInv, NEW q \in Procs, LoadBatch(q)
    PROVE  SeedInv'
<1> USE DEF SeedInv
<1> DEFINE file == Files[disk]
           left == load[q].left
           last == Cardinality(left) < BatchPlaces
<1>1. /\ load[q] # None /\ load[q] \in LoadRows
      /\ load[q].file = disk
      /\ left \subseteq Kept(file) /\ left \subseteq Places
      /\ disk \in 1..Len(Files)
  BY DEF LoadBatch, LoadsAreCurrent, SeedTypeOK, LoadRows
<1>2. PICK batch \in SUBSET left :
        /\ last => batch = left
        /\ place' = [p \in Places |->
             IF p \in batch THEN [points |-> file[p].points, rotates |-> file[p].rotates, active |-> TRUE]
             ELSE IF last /\ place[p] # None /\ p \notin Kept(file) THEN [place[p] EXCEPT !.active = FALSE]
             ELSE place[p]]
        /\ load' = [load EXCEPT ![q] = IF last THEN None ELSE [file |-> disk, left |-> left \ batch]]
  BY <1>1 DEF LoadBatch
<1>3. /\ stored' = IF last THEN disk ELSE stored
      /\ disk' = disk /\ up' = up
  BY <1>1 DEF LoadBatch, Recorded
<1>4. \A p \in batch : /\ place'[p] = [points |-> file[p].points, rotates |-> file[p].rotates, active |-> TRUE]
                       /\ place'[p] \in PlaceRows
  BY <1>1, <1>2, FileType DEF PlaceRows, SeedRows
<1>5. \A p \in Places : place'[p] \in PlaceRows \cup {None}
  <2> SUFFICES ASSUME NEW p \in Places, p \notin batch PROVE place'[p] \in PlaceRows \cup {None}
    BY <1>4
  <2>1. place[p] \in PlaceRows \cup {None}
    BY DEF SeedTypeOK
  <2>2. place[p] # None => [place[p] EXCEPT !.active = FALSE] \in PlaceRows
    BY <2>1 DEF PlaceRows
  <2> QED BY <1>2, <2>1, <2>2
<1>6. place' \in [Places -> PlaceRows \cup {None}]
  BY <1>2, <1>5
<1>7. /\ \A o \in Procs : o # q => load'[o] = load[o]
      /\ load'[q] = IF last THEN None ELSE [file |-> disk, left |-> left \ batch]
      /\ load' \in [Procs -> LoadRows \cup {None}]
  BY <1>1, <1>2 DEF SeedTypeOK, LoadRows
<1>8. SeedTypeOK'
  BY <1>1, <1>3, <1>6, <1>7 DEF SeedTypeOK
<1>9. LoadsAreCurrent'
  BY <1>1, <1>2, <1>3, <1>7 DEF LoadsAreCurrent
<1>10. \A p \in batch : Holds(p, file)'
  <2> SUFFICES ASSUME NEW p \in batch PROVE Holds(p, file)'
    OBVIOUS
  <2>0. /\ place'[p] \in PlaceRows
        /\ place'[p] = [points |-> file[p].points, rotates |-> file[p].rotates, active |-> TRUE]
    BY <1>4
  <2>1. place'[p] # None
    BY <2>0, NoneIsNothing
  <2>2. place'[p].active /\ place'[p].points = file[p].points /\ place'[p].rotates = file[p].rotates
    BY <2>0
  <2> QED BY <1>3, <2>1, <2>2 DEF Holds, Active
<1>11. \A p \in Kept(file) : Holds(p, file) => Holds(p, file)'
  <2> SUFFICES ASSUME NEW p \in Kept(file), Holds(p, file), p \notin batch PROVE Holds(p, file)'
    BY <1>10
  <2>1. place'[p] = place[p]
    BY <1>1, <1>2, FileType
  <2> QED BY <1>3, <2>1 DEF Holds, Active
<1>12. LoadedHolds'
  <2> SUFFICES ASSUME NEW o \in Procs, load'[o] # None, NEW p \in Kept(file) \ load'[o].left
               PROVE  Holds(p, file)'
    BY <1>3 DEF LoadedHolds
  <2>1. CASE o # q
    BY <1>7, <1>11, <2>1 DEF LoadedHolds
  <2>2. CASE o = q
    <3>1. p \in batch \/ p \notin left
      BY <1>7, <2>2
    <3>2. p \notin left => Holds(p, file)
      BY <1>1 DEF LoadedHolds
    <3> QED BY <1>10, <1>11, <3>1, <3>2
  <2> QED BY <2>1, <2>2
<1>13. StoredIsPast'
  BY <1>1, <1>3 DEF StoredIsPast
<1>14. SelfHealing'
  <2>1. CASE last
    <3>1. \A p \in Kept(file) : Holds(p, file)'
      BY <1>1, <1>2, <1>10, <1>11, <2>1 DEF LoadedHolds
    <3>2. ASSUME NEW p \in Places, p \notin Kept(file) PROVE ~Active(p)'
      <4>1. p \notin batch
        BY <1>1, <3>2
      <4>2. CASE place[p] = None
        BY <1>2, <4>1, <4>2 DEF Active
      <4>3. CASE place[p] # None
        <5>1. place'[p] = [place[p] EXCEPT !.active = FALSE]
          BY <1>2, <2>1, <3>2, <4>1, <4>3
        <5>2. place[p] \in PlaceRows
          BY <4>3 DEF SeedTypeOK
        <5> QED BY <5>1, <5>2 DEF Active, PlaceRows
      <4> QED BY <4>2, <4>3
    <3> QED BY <1>3, <3>1, <3>2 DEF SelfHealing
  <2>2. CASE ~last
    <3> SUFFICES ASSUME stored = disk, NEW p \in Places
                 PROVE  IF p \in Kept(file) THEN Holds(p, file)' ELSE ~Active(p)'
      BY <1>3, <2>2 DEF SelfHealing
    <3>1. CASE p \in Kept(file)
      BY <1>11, <3>1 DEF SelfHealing
    <3>2. CASE p \notin Kept(file)
      <4>1. place'[p] = place[p]
        BY <1>1, <1>2, <2>2, <3>2
      <4>2. ~Active(p)
        BY <3>2 DEF SelfHealing
      <4> QED BY <3>2, <4>1, <4>2 DEF Active
    <3> QED BY <3>1, <3>2
  <2> QED BY <2>1, <2>2
<1> QED
  BY <1>8, <1>9, <1>12, <1>13, <1>14

LEMMA SeedUnchanged ==
    ASSUME SeedInv, UNCHANGED <<disk, up, load, place, stored>>
    PROVE  SeedInv'
<1>1. \A p, file : Holds(p, file)' <=> Holds(p, file)
  BY DEF Holds, Active
<1>2. \A p : Active(p)' <=> Active(p)
  BY DEF Active
<1>3. SeedTypeOK' /\ LoadsAreCurrent' /\ StoredIsPast'
  BY DEF SeedInv, SeedTypeOK, LoadsAreCurrent, StoredIsPast
<1>4. LoadedHolds'
  BY <1>1 DEF SeedInv, LoadedHolds
<1>5. SelfHealing'
  BY <1>1, <1>2 DEF SeedInv, SelfHealing
<1> QED
  BY <1>3, <1>4, <1>5 DEF SeedInv

LEMMA StepKeepsSeed ==
    ASSUME ~Rollback
    PROVE  SeedInv /\ [Next]_vars => SeedInv'
<1> SUFFICES ASSUME SeedInv, [Next]_vars PROVE SeedInv'
  OBVIOUS
<1> USE DEF SeedInv
<1>1. ASSUME NEW q \in Procs, Start(q) PROVE SeedInv'
  <2>1. /\ UNCHANGED <<disk, place, stored>>
        /\ up' = up \cup {q}
        /\ \A o \in Procs : o # q => load'[o] = load[o]
        /\ load'[q] = None \/ load'[q] = [file |-> disk, left |-> Kept(Files[disk])]
        /\ load' \in [Procs -> LoadRows \cup {None}]
    BY <1>1, FileType DEF Start, SeedTypeOK, LoadRows
  <2>2. SeedTypeOK'
    BY <2>1 DEF SeedTypeOK
  <2>3. LoadsAreCurrent'
    BY <2>1 DEF LoadsAreCurrent
  <2>4. LoadedHolds'
    BY <2>1 DEF LoadedHolds, Holds, Active
  <2> QED BY <2>1, <2>2, <2>3, <2>4 DEF StoredIsPast, SelfHealing, Holds, Active
<1>2. ASSUME NEW q \in Procs, LoadBatch(q) PROVE SeedInv'
  BY <1>2, BatchKeepsSeed
<1>3. ASSUME NEW q \in Procs, LoadFails(q) \/ Stop(q) PROVE SeedInv'
  <2>1. /\ UNCHANGED <<disk, place, stored>>
        /\ up \ {q} \subseteq up'
        /\ load' = [load EXCEPT ![q] = None]
    BY <1>3 DEF LoadFails, Stop
  <2>2. /\ \A o \in Procs : o # q => load'[o] = load[o]
        /\ load'[q] = None
        /\ load' \in [Procs -> LoadRows \cup {None}]
    BY <2>1 DEF SeedTypeOK
  <2> QED
    BY <2>1, <2>2
       DEF SeedTypeOK, LoadsAreCurrent, LoadedHolds, StoredIsPast, SelfHealing, Holds, Active
<1>4. ASSUME InstallFile PROVE SeedInv'
  <2>1. /\ UNCHANGED <<up, load, place, stored>>
        /\ up = {}
        /\ disk' \in 1..Len(Files) /\ disk' > disk
    BY <1>4 DEF InstallFile, SeedTypeOK
  <2>2. \A q \in Procs : load[q] = None
    BY <2>1 DEF LoadsAreCurrent
  <2>3. stored' # disk'
    BY <2>1, NoneIsNothing DEF SeedTypeOK, StoredIsPast
  <2> QED
    BY <2>1, <2>2, <2>3 DEF SeedTypeOK, LoadsAreCurrent, LoadedHolds, StoredIsPast, SelfHealing
<1>5. ASSUME \/ \E w \in 0..now : ReaderComputes(w)
             \/ ReaderStores \/ Tick
             \/ \E p \in Players, b \in Boards, w \in 0..now, reached \in SUBSET Loaded \ {{}} :
                   Visit(p, b, w, reached)
             \/ UNCHANGED vars
      PROVE SeedInv'
  <2>1. UNCHANGED <<disk, up, load, place, stored>>
    BY <1>5 DEF ReaderComputes, ReaderStores, Tick, Visit, vars
  <2> QED BY <2>1, SeedUnchanged
<1> QED
  BY <1>1, <1>2, <1>3, <1>4, <1>5 DEF Next

\* While only newer files are installed, a database that says it holds the installed
\* file holds exactly that file: over loads that crash, fail, are cut off between two
\* commits, or run in several processes at once.
THEOREM FingerprintIsTrue ==
    ASSUME ~Rollback
    PROVE  Spec => []SelfHealing
<1>1. SeedInv => SelfHealing
  BY DEF SeedInv
<1>2. SeedInv /\ [Next]_vars => SeedInv'
  BY StepKeepsSeed
<1> QED BY <1>1, <1>2, InitSeed, PTL DEF Spec

-----------------------------------------------------------------------------
(* The draw.                                                                 *)

DrawInv ==
    /\ now \in Weeks
    /\ draw = [w \in Weeks |-> draw[w]]
    /\ \A a \in acts : a.week \in Weeks
    /\ CreditedStaysDrawn

\* A stored draw only grows.
LEMMA StoreGrows ==
    ASSUME draw = [w \in Weeks |-> draw[w]], NEW w, NEW chosen
    PROVE  /\ Store(draw, w, chosen) = [v \in Weeks |-> Store(draw, w, chosen)[v]]
           /\ \A v \in Weeks : draw[v] \subseteq Store(draw, w, chosen)[v]
BY DEF Store

LEMMA InitDraw == Init => DrawInv
BY PlaceNumbers DEF Init, DrawInv, CreditedStaysDrawn, Weeks

LEMMA StepKeepsDraw == DrawInv /\ [Next]_vars => DrawInv'
<1> SUFFICES ASSUME DrawInv, [Next]_vars PROVE DrawInv'
  OBVIOUS
<1> USE DEF DrawInv
<1>1. ASSUME NEW p \in Players, NEW b \in Boards, NEW w \in 0..now,
             NEW reached \in SUBSET Loaded \ {{}}, Visit(p, b, w, reached)
      PROVE DrawInv'
  <2>1. w \in Weeks
    BY PlaceNumbers DEF Weeks
  <2>2. draw' = Ensured(draw, w) /\ now' = now
    BY <1>1 DEF Visit
  <2>3. /\ draw' = [v \in Weeks |-> draw'[v]]
        /\ \A v \in Weeks : draw[v] \subseteq draw'[v]
    BY <2>2, StoreGrows, ZenonT(40) DEF Ensured
  <2>4. \A a \in acts' : a \in acts \/ (a.week = w /\ (a.rotated => a.place \in draw'[w]))
    BY <1>1, <2>2 DEF Visit
  <2>5. \A a \in acts' : a.week \in Weeks /\ (a.rotated => a.place \in draw'[a.week])
    BY <2>1, <2>3, <2>4 DEF CreditedStaysDrawn
  <2> QED BY <2>2, <2>3, <2>5 DEF CreditedStaysDrawn
<1>2. ASSUME ReaderStores PROVE DrawInv'
  <2>1. /\ draw' = [v \in Weeks |-> draw'[v]]
        /\ \A v \in Weeks : draw[v] \subseteq draw'[v]
        /\ acts' = acts /\ now' = now
    BY <1>2, StoreGrows DEF ReaderStores
  <2> QED BY <2>1 DEF CreditedStaysDrawn
<1>3. ASSUME \/ \E q \in Procs : Start(q) \/ LoadBatch(q) \/ LoadFails(q) \/ Stop(q)
             \/ InstallFile
             \/ \E w \in 0..now : ReaderComputes(w)
             \/ UNCHANGED vars
      PROVE DrawInv'
  <2>1. UNCHANGED <<now, draw, acts>>
    BY <1>3 DEF Start, LoadBatch, LoadFails, Stop, InstallFile, ReaderComputes, vars
  <2> QED BY <2>1 DEF CreditedStaysDrawn
<1>4. ASSUME Tick PROVE DrawInv'
  <2>1. UNCHANGED <<draw, acts>> /\ now' \in Weeks
    BY <1>4, PlaceNumbers DEF Tick, Weeks
  <2> QED BY <2>1 DEF CreditedStaysDrawn
<1> QED
  BY <1>1, <1>2, <1>3, <1>4 DEF Next

\* A rotating place that earned points is in its week's draw for ever after, whichever
\* process resolves the week again.
THEOREM CreditsStayDrawn == Spec => []CreditedStaysDrawn
<1>1. DrawInv => CreditedStaysDrawn
  BY DEF DrawInv
<1>2. Spec => []DrawInv
  BY InitDraw, StepKeepsDraw, PTL DEF Spec
<1> QED BY <1>1, <1>2, PTL
-----------------------------------------------------------------------------
(* Booting.                                                                  *)

\* A process that is about to rebuild the log has the indexes it listed.
LogInv ==
    /\ DOMAIN at = Boots!Processes /\ DOMAIN held = Boots!Processes
    /\ log = [strict |-> log.strict, rows |-> captured, indexes |-> Indexes]
    /\ \A p \in Boots!Processes : at[p] = "rebuild" => held[p].indexes = Indexes

\* Steps that touch neither the log nor a process about to rebuild it.
Aside(p) ==
    /\ UNCHANGED <<log, captured>> /\ DOMAIN at' = DOMAIN at /\ DOMAIN held' = DOMAIN held
    /\ at'[p] # "rebuild"
    /\ \A q \in Boots!Processes : q # p => at'[q] = at[q] /\ held'[q] = held[q]

LEMMA AsideKeepsLog ==
    ASSUME LogInv, NEW p \in Boots!Processes, Aside(p)
    PROVE  LogInv'
BY DEF LogInv, Aside

LEMMA MigrateKeepsLog ==
    ASSUME LogInv, NEW p \in Boots!Processes, Boots!Migrate(p)
    PROVE  LogInv'
<1>0. DOMAIN at = Boots!Processes /\ DOMAIN held = Boots!Processes
  BY DEF LogInv
<1>1. CASE Boots!Boot(p) \/ Boots!SessionGate(p) \/ Boots!RenameAgent(p) \/ Boots!DropIp(p)
           \/ Boots!EventsGate(p) \/ Boots!DropPassive(p) \/ Boots!StripPrefixes(p) \/ Boots!RenameEvent(p)
           \/ Boots!LogGate(p) \/ Boots!ReadAgents(p)
  <2>1. Aside(p)
    BY <1>0, <1>1 DEF Boots!Boot, Boots!SessionGate, Boots!RenameAgent, Boots!DropIp,
       Boots!EventsGate, Boots!DropPassive, Boots!StripPrefixes, Boots!RenameEvent,
       Boots!LogGate, Boots!ReadAgents, Boots!Goes, Boots!Rest, Boots!tables,
       Boots!AfterLog, Aside
  <2> QED BY <2>1, AsideKeepsLog
<1>2. ASSUME NEW s \in Sessions, Boots!LabelOne(p, s) PROVE LogInv'
  <2>1. Aside(p)
    BY <1>0, <1>2 DEF Boots!LabelOne, Boots!Rest, Aside
  <2> QED BY <2>1, AsideKeepsLog
<1>3. ASSUME NEW from, NEW present, Boots!NoSuchColumn(p, from, present) PROVE LogInv'
  <2>1. Aside(p)
    BY <1>0, <1>3 DEF Boots!NoSuchColumn, Boots!Fails, Boots!Rest, Boots!tables, Aside
  <2> QED BY <2>1, AsideKeepsLog
<1>4. CASE Boots!CountLog(p)
  <2>1. /\ at' = [at EXCEPT ![p] = "rebuild"] /\ UNCHANGED <<log, captured>>
        /\ held' = [held EXCEPT ![p] = [count |-> Boots!Cardinality(log.rows), indexes |-> log.indexes]]
    BY <1>4 DEF Boots!CountLog, Boots!Goes, Boots!tables, Boots!Rest
  <2>2. log.indexes = Indexes
    BY DEF LogInv
  <2> QED BY <1>0, <2>1, <2>2 DEF LogInv
<1>5. CASE Boots!RebuildLog(p)
  <2>1. at[p] = "rebuild" /\ held[p].indexes = Indexes /\ log.rows = captured /\ captured' = captured
    BY <1>5 DEF LogInv, Boots!RebuildLog, Boots!Rest
  <2>2. CASE log' = Boots!Rebuilt(p) /\ at' = [at EXCEPT ![p] = Boots!AfterLog(p)]
             /\ held' = [held EXCEPT ![p] = None]
    <3>1. log' = [strict |-> FALSE, rows |-> captured, indexes |-> Indexes]
      BY <2>1, <2>2 DEF Boots!Rebuilt
    <3>2. Boots!AfterLog(p) # "rebuild"
      BY DEF Boots!AfterLog
    <3> QED BY <1>0, <2>1, <2>2, <3>1, <3>2 DEF LogInv
  <2>3. CASE Boots!Fails(p) /\ UNCHANGED log
    BY <1>0, <2>1, <2>3 DEF Boots!Fails, LogInv
  <2> QED BY <1>5, <2>2, <2>3 DEF Boots!RebuildLog
<1> QED BY <1>1, <1>2, <1>3, <1>4, <1>5 DEF Boots!Migrate

LEMMA WorkerIs == Worker \in Boots!Processes
BY DEF Boots!Processes

LEMMA SeedKeepsLog == ASSUME LogInv, Boots!Seed PROVE LogInv'
<1>0. DOMAIN at = Boots!Processes /\ DOMAIN held = Boots!Processes
  BY DEF LogInv
<1>1. Aside(Worker)
  BY <1>0, WorkerIs DEF Boots!Seed, Boots!SeedNets, Boots!SeedOne, Boots!SeedConfig,
     Boots!FillConfig, Boots!Goes, Boots!Rest, Boots!tables, Aside
<1> QED BY <1>1, AsideKeepsLog, WorkerIs

LEMMA BootKeepsLog == ASSUME LogInv, [Boots!Next]_Boots!vars PROVE LogInv'
<1>0. DOMAIN at = Boots!Processes /\ DOMAIN held = Boots!Processes
  BY DEF LogInv
<1>1. ASSUME NEW p \in Boots!Processes, Boots!EditConfig(p) PROVE LogInv'
  BY <1>1 DEF Boots!EditConfig, LogInv
<1>2. ASSUME NEW p \in Boots!Processes, Boots!AskSalt(p) \/ Boots!InsertSalt(p) \/ Boots!ReadSalt(p) \/ Boots!Crash(p)
      PROVE  LogInv'
  <2>1. Aside(p)
    BY <1>0, <1>2 DEF Boots!AskSalt, Boots!InsertSalt, Boots!ReadSalt, Boots!Crash,
       Boots!Fails, Boots!Goes, Boots!tables, Aside
  <2> QED BY <2>1, AsideKeepsLog
<1>3. CASE Boots!Capture
  <2> DEFINE n == Boots!Cardinality(captured) + 1
  <2>1. /\ captured' = captured \cup {n} /\ log' = [log EXCEPT !.rows = @ \cup {n}]
        /\ UNCHANGED <<at, held>>
    BY <1>3 DEF Boots!Capture
  <2>2. log = [strict |-> log.strict, rows |-> captured, indexes |-> Indexes]
    BY DEF LogInv
  <2> HIDE DEF n
  <2>3. log' = [strict |-> log'.strict, rows |-> captured', indexes |-> Indexes]
    BY <2>1, <2>2
  <2> QED BY <2>1, <2>3 DEF LogInv
<1>4. CASE UNCHANGED Boots!vars
  BY <1>4 DEF Boots!vars, Boots!tables, LogInv
<1> QED BY <1>1, <1>2, <1>3, <1>4, MigrateKeepsLog, SeedKeepsLog DEF Boots!Next

\* No capture and no index is lost to a rebuild, whichever processes rebuild at
\* once, capture meanwhile or crash: the rows are copied in the transaction
\* that rebuilds (_migrate_mc_tile_capture_log_nullable_actor), and the indexes
\* that were listed before it are never fewer than there were.
THEOREM CaptureLogAlwaysSurvives == Boots!Spec => []CaptureLogSurvives
<1>1. Boots!Init => LogInv
  <2> SUFFICES ASSUME Boots!Init PROVE LogInv
    OBVIOUS
  <2>1. PICK strict \in BOOLEAN : log = [strict |-> strict, rows |-> {1}, indexes |-> Indexes]
    BY DEF Boots!Init
  <2> QED BY <2>1 DEF Boots!Init, LogInv
<1>2. LogInv /\ [Boots!Next]_Boots!vars => LogInv'
  BY BootKeepsLog
<1>3. LogInv => CaptureLogSurvives
  BY DEF LogInv, CaptureLogSurvives, Boots!CaptureLogSurvives
<1> QED BY <1>1, <1>2, <1>3, PTL DEF Boots!Spec

SaltInv == DOMAIN hash = Boots!Processes /\ Boots!OneSalt

\* All processes hash with one salt, however many ask for the first one at once
\* and whichever crash (get_or_create_persistent_salt): whoever inserts, each
\* reads back what is there.
THEOREM OneSaltAlways == Boots!Spec => []OneSalt
<1>1. Boots!Init => SaltInv
  BY DEF Boots!Init, SaltInv, Boots!OneSalt
<1>2. SaltInv /\ [Boots!Next]_Boots!vars => SaltInv'
  <2> SUFFICES ASSUME SaltInv, [Boots!Next]_Boots!vars PROVE SaltInv'
    OBVIOUS
  <2>1. ASSUME NEW p \in Boots!Processes,
               Boots!AskSalt(p) \/ Boots!InsertSalt(p) \/ Boots!ReadSalt(p) \/ Boots!Crash(p)
        PROVE  SaltInv'
    BY <2>1 DEF Boots!AskSalt, Boots!InsertSalt, Boots!ReadSalt, Boots!ReadBack,
       Boots!Crash, Boots!Goes, Boots!tables, SaltInv, Boots!OneSalt
  <2>2. CASE UNCHANGED <<salt, hash>>
    BY <2>2 DEF SaltInv, Boots!OneSalt
  <2>3. ASSUME NEW p \in Boots!Processes, Boots!Migrate(p) \/ Boots!EditConfig(p) PROVE UNCHANGED <<salt, hash>>
    BY <2>3 DEF Boots!Migrate, Boots!Boot, Boots!SessionGate, Boots!RenameAgent,
       Boots!DropIp, Boots!EventsGate, Boots!DropPassive, Boots!StripPrefixes,
       Boots!RenameEvent, Boots!LogGate, Boots!ReadAgents, Boots!LabelOne,
       Boots!NoSuchColumn, Boots!CountLog, Boots!RebuildLog, Boots!EditConfig, Boots!Rest
  <2>4. Boots!Seed \/ Boots!Capture \/ UNCHANGED Boots!vars => UNCHANGED <<salt, hash>>
    BY DEF Boots!Seed, Boots!SeedNets, Boots!SeedOne, Boots!SeedConfig, Boots!FillConfig,
       Boots!Rest, Boots!Capture, Boots!vars, Boots!tables
  <2> QED BY <2>1, <2>2, <2>3, <2>4 DEF Boots!Next
<1>3. SaltInv => OneSalt
  BY DEF SaltInv, OneSalt
<1> QED BY <1>1, <1>2, <1>3, PTL DEF Boots!Spec

-----------------------------------------------------------------------------
(* Connectors.                                                               *)

\* A row as it is, or as a request under way read it.
Asked == {p \in Admins : request[p] # None}
Copies == rows \cup {request[p].row : p \in Asked}

\* Ids are never used twice, so every copy of a row has its name.
ConnectorsInv ==
    /\ lastId \in Nat /\ DOMAIN request = Admins
    /\ \A r \in Copies : r.id \in Nat /\ r.id <= lastId
    /\ \A r, s \in Copies : r.id = s.id => r.name = s.name
    /\ Broker!ConversionLosesNothing

LEMMA RowIsOne ==
    ASSUME NEW i, NEW t, NEW n, NEW u, NEW f, NEW c, NEW on
    PROVE  Broker!Row(i, t, n, u, f, c, on).id = i /\ Broker!Row(i, t, n, u, f, c, on).name = n
BY DEF Broker!Row

\* A step after which every copy was one, or is a new row of the next id.
LEMMA CopiesStay ==
    ASSUME ConnectorsInv, lastId' \in {lastId, lastId + 1}, DOMAIN request' = Admins,
           NEW new, new.id = lastId + 1, lastId' = lastId => new \notin Copies',
           \A r \in Copies' : r = new \/ \E s \in Copies : s.id = r.id /\ s.name = r.name,
           Broker!ConversionLosesNothing'
    PROVE  ConnectorsInv'
<1>1. lastId \in Nat /\ lastId' \in Nat
  BY DEF ConnectorsInv
<1>2. \A r \in Copies : r.id \in Nat /\ r.id <= lastId
  BY DEF ConnectorsInv
<1>3. \A r \in Copies' : r.id \in Nat /\ r.id <= lastId'
  BY <1>1, <1>2
<1>4. \A r, s \in Copies' : r.id = s.id => r.name = s.name
  <2>1. ASSUME NEW r \in Copies', NEW s \in Copies', r.id = s.id PROVE r.name = s.name
    <3>1. r = new <=> s = new
      BY <1>1, <1>2, <2>1
    <3> QED BY <2>1, <3>1 DEF ConnectorsInv
  <2> QED BY <2>1
<1> QED BY <1>1, <1>3, <1>4 DEF ConnectorsInv

LEMMA AdminKeeps ==
    ASSUME ConnectorsInv, NEW p \in Admins,
           \/ Broker!Create(p) \/ Broker!CommitUpdate(p) \/ Broker!CommitConvert(p) \/ Broker!CommitFails(p)
           \/ \E r \in rows : Broker!OpenUpdate(p, r) \/ Broker!OpenConvert(p, r) \/ Broker!Delete(p, r)
    PROVE  ConnectorsInv'
<1>0. /\ lastId \in Nat /\ DOMAIN request = Admins
      /\ \A r, s \in Copies : r.id = s.id => r.name = s.name
      /\ \A r \in Copies : r.id \in Nat /\ r.id <= lastId
      /\ live \subseteq {r.name : r \in rows}
  BY DEF ConnectorsInv, Broker!ConversionLosesNothing
<1>1. PICK fresh : fresh.id = lastId + 1
  <2>1. [id |-> lastId + 1].id = lastId + 1
    OBVIOUS
  <2> QED BY <2>1
<1>2. fresh \notin Copies
  BY <1>0, <1>1
<1>3. CASE Broker!Create(p)
  <2>1. PICK t \in {"net", "source"}, u \in Urls, f \in Filters, c \in Creds :
            rows' = rows \cup {Broker!Row(lastId', t, lastId', u, f, c, TRUE)}
    BY <1>3 DEF Broker!Create
  <2>2. PICK new : new = Broker!Row(lastId', t, lastId', u, f, c, TRUE)
    OBVIOUS
  <2>3. new.id = lastId + 1 /\ new.name = lastId + 1 /\ lastId' = lastId + 1
    BY <1>3, <2>2 DEF Broker!Create, Broker!Row
  <2>4. rows' = rows \cup {new} /\ request' = request /\ live' = live \cup {lastId + 1}
    BY <1>3, <2>1, <2>2, <2>3 DEF Broker!Create
  <2>5. Copies' = Copies \cup {new}
    BY <2>4 DEF Copies, Asked
  <2>6. live' \subseteq {r.name : r \in rows'}
    BY <1>0, <2>3, <2>4
  <2> QED BY <1>0, <2>3, <2>4, <2>5, <2>6, CopiesStay DEF Broker!ConversionLosesNothing
<1>4. CASE Broker!CommitUpdate(p)
  <2>1. PICK r : r = request[p].row
    OBVIOUS
  <2>2. /\ rows' = IF Broker!Exists(r.id) THEN Broker!Without(r.id) \cup {r} ELSE rows
        /\ request[p] # None /\ request' = [request EXCEPT ![p] = None] /\ UNCHANGED <<lastId, live>>
    BY <1>4, <2>1 DEF Broker!CommitUpdate
  <2>3. r \in Copies /\ Copies' \subseteq Copies
    BY <1>0, <2>1, <2>2 DEF Copies, Asked, Broker!Without
  <2>4. live' \subseteq {s.name : s \in rows'}
    <3>1. ASSUME NEW s \in rows PROVE \E t \in rows' : t.name = s.name
      <4>1. s.id = r.id => s.name = r.name
        BY <1>0, <2>3 DEF Copies
      <4> QED BY <2>2, <4>1 DEF Broker!Without, Broker!Exists
    <3> QED BY <1>0, <2>2, <3>1
  <2>5. \A s \in Copies' : s \in Copies
    BY <2>3
  <2> QED BY <1>0, <1>1, <1>2, <2>2, <2>4, <2>5, CopiesStay DEF Broker!ConversionLosesNothing
<1>5. CASE Broker!CommitConvert(p)
  <2>1. PICK r : r = request[p].row
    OBVIOUS
  <2>2. PICK new : new = Broker!Row(lastId + 1, Broker!Other(r.table), r.name, r.url, r.filter, r.cred, r.on)
    OBVIOUS
  <2>3. new.id = lastId + 1 /\ new.name = r.name
    BY <2>2, RowIsOne
  <2>4. /\ rows' = Broker!Without(r.id) \cup {new} /\ lastId' = lastId + 1
        /\ request[p] # None /\ request' = [request EXCEPT ![p] = None] /\ live' = live
    BY <1>5, <2>1, <2>2 DEF Broker!CommitConvert, Broker!Converted
  <2>5. r \in Copies /\ Copies' \subseteq Copies \cup {new}
    BY <1>0, <2>1, <2>4 DEF Copies, Asked, Broker!Without
  <2>6. live' \subseteq {s.name : s \in rows'}
    <3>1. ASSUME NEW s \in rows PROVE \E t \in rows' : t.name = s.name
      <4>1. s.id = r.id => s.name = r.name
        BY <1>0, <2>5 DEF Copies
      <4> QED BY <2>3, <2>4, <4>1 DEF Broker!Without
    <3> QED BY <1>0, <2>4, <3>1
  <2> QED BY <1>0, <2>3, <2>4, <2>5, <2>6, CopiesStay DEF Broker!ConversionLosesNothing
<1>6. CASE Broker!CommitFails(p)
  <2>1. request' = [request EXCEPT ![p] = None] /\ UNCHANGED <<rows, lastId, live>>
    BY <1>6 DEF Broker!CommitFails
  <2>2. Copies' \subseteq Copies
    BY <1>0, <2>1 DEF Copies, Asked
  <2> QED BY <1>0, <1>1, <1>2, <2>1, <2>2, CopiesStay DEF Broker!ConversionLosesNothing
<1>7. ASSUME NEW r \in rows, Broker!OpenUpdate(p, r) \/ Broker!OpenConvert(p, r) PROVE ConnectorsInv'
  <2>1. PICK s : /\ s.id = r.id /\ s.name = r.name
                 /\ \E op \in {"update", "convert"} :
                      request' = [request EXCEPT ![p] = [op |-> op, row |-> s]]
    BY <1>7, RowIsOne DEF Broker!OpenUpdate, Broker!OpenConvert
  <2>2. UNCHANGED <<rows, lastId, live>>
    BY <1>7 DEF Broker!OpenUpdate, Broker!OpenConvert
  <2>3. Copies' \subseteq Copies \cup {s} /\ r \in Copies
    BY <1>0, <2>1, <2>2 DEF Copies, Asked
  <2>4. \A q \in Copies' : \E t \in Copies : t.id = q.id /\ t.name = q.name
    BY <2>1, <2>3
  <2>5. fresh \notin Copies'
    BY <1>0, <1>1, <2>4
  <2> QED BY <1>0, <1>1, <2>1, <2>2, <2>4, <2>5, CopiesStay DEF Broker!ConversionLosesNothing
<1>8. ASSUME NEW r \in rows, Broker!Delete(p, r) PROVE ConnectorsInv'
  <2>1. rows' = Broker!Without(r.id) /\ live' = live \ {r.name} /\ UNCHANGED <<request, lastId>>
    BY <1>8 DEF Broker!Delete
  <2>2. Copies' \subseteq Copies /\ r \in Copies
    BY <2>1 DEF Copies, Asked, Broker!Without
  <2>3. live' \subseteq {s.name : s \in rows'}
    BY <1>0, <2>1, <2>2 DEF Broker!Without, Copies
  <2> QED BY <1>0, <1>1, <1>2, <2>1, <2>2, <2>3, CopiesStay DEF Broker!ConversionLosesNothing
<1> QED BY <1>3, <1>4, <1>5, <1>6, <1>7, <1>8

\* A connector exists, in one table or the other, until an admin deletes it,
\* whichever processes convert and edit it at the same time: the row that a
\* conversion or an update read before its transaction may be gone or changed
\* by then, never another connector's (admin_ops.py).
THEOREM ConversionNeverLoses == Broker!Spec => []ConversionLosesNothing
<1>1. Broker!Init => ConnectorsInv
  BY DEF Broker!Init, ConnectorsInv, Copies, Asked, Broker!ConversionLosesNothing
<1>2. ConnectorsInv /\ [Broker!Next]_Broker!vars => ConnectorsInv'
  <2> SUFFICES ASSUME ConnectorsInv, [Broker!Next]_Broker!vars PROVE ConnectorsInv'
    OBVIOUS
  <2>1. CASE UNCHANGED <<rows, lastId, request, live>>
    BY <2>1 DEF ConnectorsInv, Copies, Asked, Broker!ConversionLosesNothing
  <2>2. \/ Broker!Reconcile \/ Broker!Restart \/ UNCHANGED Broker!vars
        \/ \E u \in Urls : Broker!OnConnect(u) \/ Broker!OnDisconnect(u) \/ Broker!StatusWriteFails(u)
        => UNCHANGED <<rows, lastId, request, live>>
    BY DEF Broker!Reconcile, Broker!ReadNets, Broker!ReadSources, Broker!Restart,
       Broker!OnConnect, Broker!OnDisconnect, Broker!StatusWriteFails, Broker!vars
  <2> QED BY <2>1, <2>2, AdminKeeps DEF Broker!Next
<1>3. ConnectorsInv => ConversionLosesNothing
  BY DEF ConnectorsInv, ConversionLosesNothing
<1> QED BY <1>1, <1>2, <1>3, PTL DEF Broker!Spec
=============================================================================
