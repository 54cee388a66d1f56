------------------------- MODULE OrchestrationProofs -------------------------
(***************************************************************************)
(* Theorems about Orchestration, for every number of runs, versions and    *)
(* syncs.                                                                  *)
(***************************************************************************)
EXTENDS Orchestration, SequenceTheorems, FiniteSetTheorems, TLAPS

USE OrchestrationAssumption

-----------------------------------------------------------------------------
(* The inductive invariant.                                                *)

RunSteps ==
  {"queued", "locked", "building", "built", "exporting", "uploading", "done", "failed"}
RunRecord == [step : RunSteps, key : 0 .. Mtime, version : 0 .. MaxVersion]

TypeInv ==
  /\ lake \in 0 .. MaxVersion /\ listed \in 0 .. lake
  /\ sync \in {"idle", "copying"}
  /\ covers \in Seq(0 .. lake)
  /\ seen \in 0 .. Mtime /\ tick \in {"idle", "evaluated", "launched"}
  /\ run \in Seq(RunRecord)
  /\ gold \in 0 .. MaxVersion

\* A sync copies all that it listed before it touches the marker, and nothing
\* leaves the mirror.
MirrorInv ==
  /\ sync = "copying" => ObjectsOf(listed) \subseteq mirror \cup todo
  /\ \A m \in 1 .. Mtime : ObjectsOf(covers[m]) \subseteq mirror

\* One build at a time; what it has read is not older than what is in the file,
\* and what a run has built stays there, or something newer.
BuildInv ==
  /\ \A q, r \in Runs : Writing(q) /\ Writing(r) => q = r
  /\ gold <= NewestLogged
  /\ \A r \in Runs :
       /\ run[r].step = "building" => gold <= run[r].version /\ run[r].version <= NewestLogged
       /\ run[r].step \in {"built", "exporting"} => run[r].version <= gold

Inv == TypeInv /\ MirrorInv /\ BuildInv /\ OneRunPerSync /\ RunSeesItsSync

-----------------------------------------------------------------------------
(* The newest logged version.                                              *)

\* A set of numbers that is bounded and not empty has a largest: the fewer are
\* above it, the larger a number, and sets of them are well-founded.
LEMMA LargestExists ==
  ASSUME NEW n \in Nat, NEW S \in SUBSET (1 .. n), S # {}
  PROVE  \E m \in S : \A k \in S : k <= m
<1> DEFINE Above(m) == {k \in S : k > m}
           T == {Above(m) : m \in S}
           R == StrictSubsetOrdering(S)
<1>1. FiniteSubsetsOf(S) = SUBSET S
  <2>1. 1 \in Int /\ n \in Int
    OBVIOUS
  <2>2. IsFiniteSet(1 .. n)
    BY <2>1, FS_Interval
  <2>3. IsFiniteSet(S)
    BY <2>2, FS_Subset
  <2> QED
    BY <2>3, FS_FiniteSubsetsOfFinite
<1>2. T \subseteq FiniteSubsetsOf(S) /\ T # {}
  <2>1. \A m \in S : Above(m) \in SUBSET S
    OBVIOUS
  <2>2. T \subseteq SUBSET S
    BY <2>1
  <2>3. T # {}
    <3>1. PICK m : m \in S
      OBVIOUS
    <3>2. Above(m) \in T
      BY <3>1
    <3> QED
      BY <3>2
  <2> QED
    BY <1>1, <2>2, <2>3
<1>3. IsWellFoundedOn(R, FiniteSubsetsOf(S))
  BY FS_StrictSubsetOrderingWellFounded
<1>4. PICK X \in T : \A Y \in T : <<Y, X>> \notin R
  <2> HIDE DEF R, T
  <2> QED
    BY <1>2, <1>3, WFMin
<1>5. PICK m \in S : X = Above(m)
  OBVIOUS
<1>6. ASSUME NEW k \in S, ~(k <= m) PROVE FALSE
  <2>1. k \in Int /\ m \in Int /\ k > m /\ \A l \in S : l \in Int
    BY <1>6
  <2>2. \A l \in S : l > k => l > m
    BY <2>1
  <2>3. Above(k) \subseteq Above(m)
    BY <2>2
  <2>4. k \in Above(m) /\ k \notin Above(k)
    BY <2>1
  <2>5. <<Above(k), X>> \in R
    BY <1>5, <2>3, <2>4 DEF StrictSubsetOrdering
  <2> QED
    BY <1>4, <2>5
<1> QED
  BY <1>6

LEMMA NewestIs ==
  /\ NewestLogged \in 0 .. MaxVersion
  /\ NewestLogged # 0 => NewestLogged \in Logged
  /\ \A n \in Versions : <<n, "log">> \in mirror => n <= NewestLogged
<1>1. CASE Logged = {}
  BY <1>1 DEF NewestLogged, Logged
<1>2. CASE Logged # {}
  <2>1. Logged \in SUBSET (1 .. MaxVersion)
    BY DEF Logged, Versions
  <2>2. \E m \in Logged : \A k \in Logged : k <= m
    BY <1>2, <2>1, LargestExists
  <2>3. NewestLogged \in Logged /\ \A k \in Logged : k <= NewestLogged
    BY <1>2, <2>2 DEF NewestLogged
  <2> QED
    BY <2>1, <2>3 DEF Logged
<1> QED
  BY <1>1, <1>2

LEMMA NewestIsNext ==
  /\ NewestLogged' \in 0 .. MaxVersion
  /\ \A n \in Versions : <<n, "log">> \in mirror' => n <= NewestLogged'
<1> DEFINE P == /\ NewestLogged \in 0 .. MaxVersion
                /\ \A n \in Versions : <<n, "log">> \in mirror => n <= NewestLogged
<1>1. P
  BY NewestIs
<1>2. P'
  BY <1>1, PTL
<1> QED
  BY <1>2

\* The mirror only grows, and so does the newest version logged in it.
LEMMA MirrorGrows ==
  ASSUME Inv, [Next]_vars
  PROVE  mirror \subseteq mirror' /\ NewestLogged <= NewestLogged'
<1>1. mirror \subseteq mirror'
  BY DEF Next, StreamsAppend, SyncStart, SyncFails, SyncTouch, SyncCopy, Evaluate, Launch,
         SaveCursor, DaemonCrash, Backstop, OpenForBuild, ReadMirror, BuildFails, BuildDone,
         OpenForExport, Query, Publish, PublishFails, syncVars, vars
<1>2. NewestLogged \in 0 .. MaxVersion /\ NewestLogged' \in 0 .. MaxVersion
  BY NewestIs, NewestIsNext
<1>3. NewestLogged = 0 => NewestLogged <= NewestLogged'
  BY <1>2
<1>4. ASSUME NewestLogged # 0 PROVE NewestLogged <= NewestLogged'
  <2>1. NewestLogged \in Versions /\ <<NewestLogged, "log">> \in mirror'
    BY <1>1, <1>4, NewestIs DEF Logged
  <2> QED
    BY <2>1, NewestIsNext
<1> QED
  BY <1>1, <1>3, <1>4

-----------------------------------------------------------------------------
(* What a step does to the runs: it requests one, or moves one on.         *)

Moved(r, to, v) ==
  run' = [run EXCEPT ![r] = [step |-> to, key |-> run[r].key, version |-> v]]

LEMMA RunTypes ==
  ASSUME TypeInv
  PROVE  /\ Len(run) \in Nat /\ Runs = 1 .. Len(run) /\ run \in Seq(RunRecord)
         /\ Mtime \in Nat /\ covers \in [1 .. Mtime -> 0 .. lake]
         /\ \A r \in Runs :
              /\ run[r] \in RunRecord /\ run[r].step \in RunSteps
              /\ run[r].key \in 0 .. Mtime /\ run[r].version \in 0 .. MaxVersion
<1>1. Len(run) \in Nat /\ Runs = 1 .. Len(run) /\ run \in Seq(RunRecord)
  BY LenProperties DEF TypeInv, Runs
<1>2. Mtime \in Nat /\ covers \in [1 .. Mtime -> 0 .. lake]
  BY LenProperties DEF TypeInv, Mtime
<1>3. ASSUME NEW r \in Runs PROVE run[r] \in RunRecord
  BY <1>1, ElementOfSeq
<1> QED
  BY <1>1, <1>2, <1>3 DEF RunRecord

LEMMA RequestAdds ==
  ASSUME TypeInv, NEW key \in 0 .. Mtime, Request(key)
  PROVE  /\ run' \in Seq(RunRecord) /\ Runs \subseteq Runs' /\ Runs' = 1 .. (Len(run) + 1)
         /\ \A q \in Runs : run'[q] = run[q]
         /\ \A q \in Runs' \ Runs :
              /\ q = Len(run) + 1
              /\ run'[q].step = "queued" /\ run'[q].key = key
<1> DEFINE new == [step |-> "queued", key |-> key, version |-> 0]
<1>1. new \in RunRecord
  BY DEF RunRecord, RunSteps
<1>2. run' = Append(run, new)
  BY DEF Request
<1>3. /\ Len(run) \in Nat /\ Runs = 1 .. Len(run) /\ run \in Seq(RunRecord)
      /\ new.step = "queued" /\ new.key = key
  BY RunTypes
<1> HIDE DEF new
<1>4. /\ run' \in Seq(RunRecord) /\ Len(run') = Len(run) + 1
      /\ \A q \in 1 .. Len(run) : run'[q] = run[q]
      /\ run'[Len(run) + 1] = new
  BY <1>1, <1>2, <1>3, AppendProperties
<1>5. Runs' = 1 .. (Len(run) + 1)
  BY <1>4, LenProperties DEF Runs
<1> QED
  BY <1>3, <1>4, <1>5

LEMMA MoveMoves ==
  ASSUME TypeInv, NEW r \in Runs, NEW to \in RunSteps, NEW v \in 0 .. MaxVersion, Moved(r, to, v)
  PROVE  /\ run' \in Seq(RunRecord) /\ Runs' = Runs
         /\ run'[r].step = to /\ run'[r].key = run[r].key /\ run'[r].version = v
         /\ \A q \in Runs \ {r} : run'[q] = run[q]
<1> DEFINE new == [step |-> to, key |-> run[r].key, version |-> v]
<1>1. new \in RunRecord
  BY RunTypes DEF RunRecord
<1>2. run' = [run EXCEPT ![r] = new]
  BY DEF Moved
<1>3. Len(run) \in Nat /\ Runs = 1 .. Len(run) /\ run \in Seq(RunRecord)
  BY RunTypes
<1>4. new.step = to /\ new.key = run[r].key /\ new.version = v
  OBVIOUS
<1> HIDE DEF new
<1>5. /\ run' \in Seq(RunRecord) /\ Len(run') = Len(run)
      /\ \A q \in 1 .. Len(run) : run'[q] = IF q = r THEN new ELSE run[q]
  BY <1>1, <1>2, <1>3, ExceptSeq
<1>6. Runs' = Runs
  BY <1>3, <1>5, LenProperties DEF Runs
<1> QED
  BY <1>3, <1>4, <1>5, <1>6

LEMMA StepMoves ==
  ASSUME TypeInv, NEW r \in Runs, NEW from, NEW to, Step(r, from, to)
  PROVE  run[r].step = from /\ Moved(r, to, run[r].version)
<1>1. run[r] \in RunRecord /\ run \in [1 .. Len(run) -> RunRecord] /\ r \in 1 .. Len(run)
  BY RunTypes, LenProperties
<1>2. run[r] = [step |-> run[r].step, key |-> run[r].key, version |-> run[r].version]
  BY <1>1 DEF RunRecord
<1>3. run[r].step = from /\ run' = [run EXCEPT ![r].step = to]
  BY DEF Step
<1>4. [run[r] EXCEPT !.step = to] = [step |-> to, key |-> run[r].key, version |-> run[r].version]
  BY <1>1, <1>2 DEF RunRecord
<1>5. [run EXCEPT ![r].step = to] = [run EXCEPT ![r] = [run[r] EXCEPT !.step = to]]
  BY <1>1
<1> QED
  BY <1>3, <1>4, <1>5 DEF Moved

LEMMA ReadMoves ==
  ASSUME TypeInv, NEW r \in Runs
  PROVE  /\ ReadMirror(r) =>
              \/ Readable /\ Moved(r, "building", NewestLogged)
              \/ ~Readable /\ Moved(r, "failed", NewestLogged)
         /\ Query(r) => Moved(r, "uploading", gold)
<1>1. run[r] \in RunRecord /\ run \in [1 .. Len(run) -> RunRecord] /\ r \in 1 .. Len(run)
  BY RunTypes, LenProperties
<1>2. run[r] = [step |-> run[r].step, key |-> run[r].key, version |-> run[r].version]
  BY <1>1 DEF RunRecord
<1> QED
  BY <1>1, <1>2 DEF ReadMirror, Query, Moved, RunRecord

\* How a run moves on, and what becomes of the tables in the file.
Move(r, to, v) ==
  /\ Moved(r, to, v)
  /\ UNCHANGED <<syncVars, sensorVars>>
  /\ \/ /\ to = "locked" /\ run[r].step = "queued" /\ Unlocked
        /\ v = run[r].version /\ gold' = gold
     \/ /\ to = "building" /\ run[r].step = "locked" /\ Readable
        /\ v = NewestLogged /\ gold' = gold
     \/ to = "built" /\ run[r].step = "building" /\ v = run[r].version /\ gold' = v
     \/ to = "exporting" /\ run[r].step = "built" /\ v = run[r].version /\ gold' = gold
     \/ to = "uploading" /\ run[r].step = "exporting" /\ v = gold /\ gold' = gold
     \/ to = "done" /\ run[r].step = "uploading" /\ v = run[r].version /\ gold' = gold
     \/ to = "failed" /\ (gold' = gold \/ (run[r].step = "building" /\ gold' = run[r].version))

LEMMA StepOfRuns ==
  ASSUME Inv, [Next]_vars
  PROVE  \/ UNCHANGED <<run, gold>>
         \/ \E key \in {0, seen} :
              /\ Request(key) /\ (key = 0 \/ ~Requested(key))
              /\ UNCHANGED <<syncVars, cursor, seen, gold>>
         \/ \E r \in Runs : \E to \in RunSteps, v \in 0 .. MaxVersion : Move(r, to, v)
<1>1. TypeInv /\ gold \in 0 .. MaxVersion /\ NewestLogged \in 0 .. MaxVersion
  BY NewestIs DEF Inv, TypeInv
<1>2. CASE StreamsAppend \/ SyncStart \/ SyncFails \/ SyncTouch \/ (\E o \in todo : SyncCopy(o))
           \/ Evaluate \/ SaveCursor \/ DaemonCrash \/ UNCHANGED vars
  BY <1>2 DEF StreamsAppend, SyncStart, SyncFails, SyncTouch, SyncCopy, Evaluate, SaveCursor,
              DaemonCrash, buildVars, vars
<1>3. CASE Launch
  BY <1>3 DEF Launch
<1>4. CASE Backstop
  BY <1>4 DEF Backstop, sensorVars
<1>5. ASSUME NEW r \in Runs,
             \/ OpenForBuild(r) \/ ReadMirror(r) \/ BuildFails(r) \/ BuildDone(r)
             \/ OpenForExport(r) \/ Query(r) \/ Publish(r) \/ PublishFails(r)
      PROVE  \E to \in RunSteps, v \in 0 .. MaxVersion : Move(r, to, v)
  <2>1. run[r].version \in 0 .. MaxVersion
    BY <1>1, RunTypes
  <2> USE DEF Move, RunSteps
  <2>2. CASE OpenForBuild(r)
    <3>1. (Unlocked /\ Step(r, "queued", "locked")) \/ Step(r, "queued", "failed")
      BY <2>2 DEF OpenForBuild
    <3> QED
      BY <1>1, <2>1, <2>2, <3>1, StepMoves DEF OpenForBuild
  <2>3. CASE ReadMirror(r)
    BY <1>1, <2>1, <2>3, ReadMoves DEF ReadMirror
  <2>4. CASE BuildFails(r)
    BY <1>1, <2>1, <2>4, StepMoves DEF BuildFails
  <2>5. CASE BuildDone(r)
    BY <1>1, <2>1, <2>5, StepMoves DEF BuildDone
  <2>6. CASE OpenForExport(r)
    <3>1. Step(r, "built", "exporting") \/ Step(r, "built", "failed")
      BY <2>6 DEF OpenForExport
    <3> QED
      BY <1>1, <2>1, <2>6, <3>1, StepMoves DEF OpenForExport
  <2>7. CASE Query(r)
    BY <1>1, <2>1, <2>7, ReadMoves DEF Query
  <2>8. CASE Publish(r) \/ PublishFails(r)
    BY <1>1, <2>1, <2>8, StepMoves DEF Publish, PublishFails
  <2> QED
    BY <1>5, <2>2, <2>3, <2>4, <2>5, <2>6, <2>7, <2>8
<1> QED
  BY <1>2, <1>3, <1>4, <1>5 DEF Next

-----------------------------------------------------------------------------
LEMMA InitInv == Init => Inv
<1> SUFFICES ASSUME Init PROVE Inv
  OBVIOUS
<1>1. Runs = {} /\ Mtime = 0
  BY EmptySeq DEF Init, Runs, Mtime
<1>2. TypeInv
  BY <1>1, EmptySeq DEF Init, TypeInv
<1>3. MirrorInv /\ BuildInv /\ OneRunPerSync /\ RunSeesItsSync
  BY <1>1, NewestIs DEF Init, MirrorInv, BuildInv, OneRunPerSync, RunSeesItsSync
<1> QED
  BY <1>2, <1>3 DEF Inv

\* The marker is only touched again, and what a touch covers stays.
LEMMA MarkerStep ==
  ASSUME Inv, [Next]_vars
  PROVE  /\ lake' \in 0 .. MaxVersion /\ lake <= lake'
         /\ listed' \in 0 .. lake' /\ sync' \in {"idle", "copying"}
         /\ covers' \in Seq(0 .. lake') /\ Mtime' \in Nat /\ Mtime <= Mtime'
         /\ \A m \in 1 .. Mtime : covers'[m] = covers[m]
         /\ \/ UNCHANGED covers
            \/ /\ SyncTouch
               /\ Mtime' = Mtime + 1 /\ covers'[Mtime + 1] = listed
<1>1. /\ lake \in 0 .. MaxVersion /\ listed \in 0 .. lake /\ sync \in {"idle", "copying"}
      /\ covers \in Seq(0 .. lake) /\ Mtime \in Nat
  BY RunTypes DEF Inv, TypeInv
<1>2. CASE SyncTouch
  BY <1>1, <1>2, AppendProperties DEF SyncTouch, Mtime
<1>3. CASE StreamsAppend
  <2>1. lake' = lake + 1 /\ lake' \in 0 .. MaxVersion /\ UNCHANGED <<listed, sync, covers>>
    BY <1>1, <1>3 DEF StreamsAppend
  <2>2. 0 .. lake \subseteq 0 .. lake'
    BY <1>1, <2>1
  <2>3. covers \in Seq(0 .. lake')
    BY <1>1, <2>2, SeqMonotonic
  <2> QED
    BY <1>1, <2>1, <2>3 DEF Mtime
<1>4. CASE SyncStart \/ SyncFails \/ \E o \in todo : SyncCopy(o)
  BY <1>1, <1>4 DEF SyncStart, SyncFails, SyncCopy, Mtime
<1>5. CASE UNCHANGED syncVars
  BY <1>1, <1>5 DEF syncVars, Mtime
<1> QED
  BY <1>2, <1>3, <1>4, <1>5
  DEF Next, Evaluate, Launch, SaveCursor, DaemonCrash, Backstop, OpenForBuild, ReadMirror,
      BuildFails, BuildDone, OpenForExport, Query, Publish, PublishFails, vars

LEMMA StepTypes ==
  ASSUME Inv, [Next]_vars
  PROVE  TypeInv'
<1>1. TypeInv
  BY DEF Inv
<1>2. Mtime \in Nat /\ Mtime' \in Nat /\ Mtime <= Mtime'
  BY <1>1, MarkerStep, RunTypes
<1>3. seen' \in 0 .. Mtime'
  <2>1. seen \in 0 .. Mtime
    BY <1>1 DEF TypeInv
  <2>2. seen' = seen \/ seen' = Mtime
    BY DEF Next, StreamsAppend, SyncStart, SyncFails, SyncTouch, SyncCopy, Evaluate, Launch,
           SaveCursor, DaemonCrash, Backstop, OpenForBuild, ReadMirror, BuildFails, BuildDone,
           OpenForExport, Query, Publish, PublishFails, sensorVars, vars
  <2> QED
    BY <1>2, <2>1, <2>2
<1>4. tick' \in {"idle", "evaluated", "launched"}
  BY <1>1 DEF TypeInv, Next, StreamsAppend, SyncStart, SyncFails, SyncTouch, SyncCopy, Evaluate,
              Launch, SaveCursor, DaemonCrash, Backstop, OpenForBuild, ReadMirror, BuildFails,
              BuildDone, OpenForExport, Query, Publish, PublishFails, sensorVars, vars
<1>5. run' \in Seq(RunRecord) /\ gold' \in 0 .. MaxVersion
  <2>1. run \in Seq(RunRecord) /\ gold \in 0 .. MaxVersion
    BY <1>1 DEF TypeInv
  <2>2. ASSUME NEW key \in {0, seen}, Request(key), UNCHANGED gold
        PROVE  run' \in Seq(RunRecord) /\ gold' \in 0 .. MaxVersion
    <3>1. key \in 0 .. Mtime
      BY <1>1, <1>2 DEF TypeInv
    <3> QED
      BY <1>1, <2>1, <2>2, <3>1, RequestAdds
  <2>3. ASSUME NEW r \in Runs, NEW to \in RunSteps, NEW v \in 0 .. MaxVersion, Move(r, to, v)
        PROVE  run' \in Seq(RunRecord) /\ gold' \in 0 .. MaxVersion
    BY <1>1, <2>1, <2>3, MoveMoves, RunTypes DEF Move
  <2> QED
    BY <2>1, <2>2, <2>3, StepOfRuns
<1>6. RunRecord \subseteq RunRecord'
  <2>1. 0 .. Mtime \subseteq 0 .. Mtime'
    BY <1>2
  <2> QED
    BY <2>1 DEF RunRecord, RunSteps
<1>7. run' \in Seq(RunRecord)'
  BY <1>5, <1>6, SeqMonotonic
<1> QED
  BY <1>3, <1>4, <1>5, <1>7, MarkerStep DEF TypeInv

-----------------------------------------------------------------------------
(* The mirror.                                                             *)

LEMMA StepMirror ==
  ASSUME Inv, [Next]_vars
  PROVE  MirrorInv'
<1>1. MirrorInv /\ TypeInv /\ mirror \subseteq mirror'
  BY MirrorGrows DEF Inv
<1>2. sync' = "copying" => ObjectsOf(listed') \subseteq mirror' \cup todo'
  BY <1>1 DEF MirrorInv, ObjectsOf, Next, StreamsAppend, SyncStart, SyncFails, SyncTouch, SyncCopy,
              Evaluate, Launch, SaveCursor, DaemonCrash, Backstop, OpenForBuild, ReadMirror,
              BuildFails, BuildDone, OpenForExport, Query, Publish, PublishFails, syncVars, vars
<1>3. ASSUME NEW m \in 1 .. Mtime' PROVE ObjectsOf(covers'[m]) \subseteq mirror'
  <2>1. Mtime \in Nat
    BY <1>1, RunTypes
  <2>2. CASE m \in 1 .. Mtime
    <3>1. covers'[m] = covers[m]
      BY <2>2, MarkerStep
    <3> QED
      BY <1>1, <2>2, <3>1 DEF MirrorInv
  <2>3. CASE m \notin 1 .. Mtime
    <3>1. SyncTouch /\ Mtime' = Mtime + 1 /\ covers'[Mtime + 1] = listed
      BY <2>3, MarkerStep DEF Mtime
    <3>2. m = Mtime + 1
      BY <2>1, <2>3, <3>1
    <3>3. ObjectsOf(listed) \subseteq mirror
      BY <1>1, <3>1 DEF SyncTouch, MirrorInv
    <3> QED
      BY <1>1, <3>1, <3>2, <3>3
  <2> QED
    BY <2>2, <2>3
<1> QED
  BY <1>2, <1>3 DEF MirrorInv, ObjectsOf

-----------------------------------------------------------------------------
(* The runs.                                                               *)

LEMMA StepKeys ==
  ASSUME Inv, [Next]_vars
  PROVE  OneRunPerSync'
<1>1. TypeInv /\ OneRunPerSync /\ Mtime \in Nat /\ Len(run) \in Nat /\ Runs = 1 .. Len(run)
  BY RunTypes DEF Inv
<1>2. ASSUME NEW key \in {0, seen}, Request(key), key = 0 \/ ~Requested(key)
      PROVE  OneRunPerSync'
  <2>1. key \in 0 .. Mtime
    BY <1>1 DEF TypeInv
  <2>2. /\ \A q \in Runs : run'[q] = run[q]
        /\ \A q \in Runs' \ Runs : q = Len(run) + 1 /\ run'[q].key = key
    BY <1>1, <1>2, <2>1, RequestAdds
  <2> SUFFICES ASSUME NEW q \in Runs', NEW r \in Runs', run'[q].key = run'[r].key, run'[r].key # 0
               PROVE  q = r
    BY DEF OneRunPerSync
  <2>3. CASE q \in Runs /\ r \in Runs
    BY <1>1, <2>2, <2>3 DEF OneRunPerSync
  <2>4. CASE q \notin Runs /\ r \notin Runs
    BY <2>2, <2>4
  <2>5. CASE q \in Runs /\ r \notin Runs
    BY <1>2, <2>2, <2>5 DEF Requested
  <2>6. CASE q \notin Runs /\ r \in Runs
    BY <1>2, <2>2, <2>6 DEF Requested
  <2> QED
    BY <2>3, <2>4, <2>5, <2>6
<1>3. ASSUME NEW r \in Runs, NEW to \in RunSteps, NEW v \in 0 .. MaxVersion, Move(r, to, v)
      PROVE  OneRunPerSync'
  <2>1. Runs' = Runs /\ \A q \in Runs : run'[q].key = run[q].key
    BY <1>1, <1>3, MoveMoves DEF Move
  <2> QED
    BY <1>1, <2>1 DEF OneRunPerSync
<1>4. CASE UNCHANGED run
  BY <1>1, <1>4 DEF OneRunPerSync, Runs
<1> QED
  BY <1>2, <1>3, <1>4, StepOfRuns

\* What is in the file was read from the mirror by the only build, and the
\* mirror has it still.
LEMMA GoldRises ==
  ASSUME Inv, [Next]_vars
  PROVE  gold <= gold' /\ gold' \in 0 .. MaxVersion
<1>1. TypeInv /\ BuildInv /\ gold \in 0 .. MaxVersion
  BY DEF Inv, TypeInv
<1>2. ASSUME NEW r \in Runs, NEW to \in RunSteps, NEW v \in 0 .. MaxVersion, Move(r, to, v)
      PROVE  gold <= gold'
  BY <1>1, <1>2 DEF Move, BuildInv
<1>3. gold <= gold'
  BY <1>1, <1>2, StepOfRuns
<1> QED
  BY <1>3, StepTypes DEF TypeInv

LEMMA StepBuild ==
  ASSUME Inv, [Next]_vars
  PROVE  BuildInv'
<1>1. /\ TypeInv /\ BuildInv /\ NewestLogged <= NewestLogged'
      /\ gold \in 0 .. MaxVersion /\ NewestLogged \in 0 .. MaxVersion
      /\ NewestLogged' \in 0 .. MaxVersion /\ gold' \in 0 .. MaxVersion /\ gold <= gold'
  BY MirrorGrows, NewestIs, NewestIsNext, GoldRises DEF Inv, TypeInv
<1>2. CASE UNCHANGED <<run, gold>>
  <2>1. ASSUME NEW r \in Runs, run[r].step = "building" PROVE run[r].version <= NewestLogged'
    <3>1. run[r].version <= NewestLogged /\ run[r].version \in 0 .. MaxVersion
      BY <1>1, <2>1, RunTypes DEF BuildInv
    <3> QED
      BY <1>1, <3>1
  <2>2. gold' <= NewestLogged'
    BY <1>1, <1>2 DEF BuildInv
  <2> QED
    BY <1>1, <1>2, <2>1, <2>2 DEF BuildInv, Runs, Writing
<1>3. ASSUME NEW key \in {0, seen}, Request(key), UNCHANGED <<syncVars, gold>>
      PROVE  BuildInv'
  <2>1. key \in 0 .. Mtime
    BY <1>1, RunTypes DEF TypeInv
  <2>2. /\ \A q \in Runs : run'[q] = run[q]
        /\ \A q \in Runs' \ Runs : run'[q].step = "queued"
    BY <1>1, <1>3, <2>1, RequestAdds
  <2>3. NewestLogged' = NewestLogged /\ gold' = gold
    BY <1>3 DEF NewestLogged, Logged, syncVars
  <2> QED
    BY <1>1, <2>2, <2>3 DEF BuildInv, Writing
<1>4. ASSUME NEW r \in Runs, NEW to \in RunSteps, NEW v \in 0 .. MaxVersion, Move(r, to, v)
      PROVE  BuildInv'
  <2>1. /\ Runs' = Runs
        /\ run'[r].step = to /\ run'[r].key = run[r].key /\ run'[r].version = v
        /\ \A q \in Runs \ {r} : run'[q] = run[q]
    BY <1>1, <1>4, MoveMoves DEF Move
  <2>2. NewestLogged' = NewestLogged
    BY <1>4 DEF Move, NewestLogged, Logged, syncVars
  <2>3. ASSUME NEW q \in Runs', NEW p \in Runs', Writing(q)', Writing(p)' PROVE q = p
    <3>1. Writing(r)' => Writing(r) \/ Unlocked
      BY <1>4, <2>1 DEF Move, Writing
    <3> QED
      BY <1>1, <2>1, <2>3, <3>1 DEF BuildInv, Writing, Unlocked
  <2>4. gold' <= NewestLogged
    BY <1>1, <1>4 DEF Move, BuildInv
  <2>5. ASSUME NEW q \in Runs', run'[q].step = "building"
        PROVE  gold' <= run'[q].version /\ run'[q].version <= NewestLogged
    <3>1. CASE q = r
      BY <1>1, <1>4, <2>1, <2>5, <3>1 DEF Move, BuildInv
    <3>2. CASE q # r
      <4>1. q \in Runs /\ run[q] = run'[q] /\ Writing(q)
        BY <2>1, <2>5, <3>2 DEF Writing
      <4>2. ~Writing(r)
        BY <1>1, <3>2, <4>1 DEF BuildInv
      <4>3. gold' = gold
        BY <1>4, <4>2 DEF Move, Writing
      <4> QED
        BY <1>1, <2>5, <4>1, <4>3 DEF BuildInv
    <3> QED
      BY <3>1, <3>2
  <2>6. ASSUME NEW q \in Runs', run'[q].step \in {"built", "exporting"}
        PROVE  run'[q].version <= gold'
    <3>1. CASE q = r
      BY <1>1, <1>4, <2>1, <2>6, <3>1 DEF Move, BuildInv
    <3>2. CASE q # r
      <4>1. run'[q] = run[q] /\ run[q].version <= gold /\ run[q].version \in 0 .. MaxVersion
        BY <1>1, <2>1, <2>6, <3>2, RunTypes DEF BuildInv
      <4> QED
        BY <1>1, <4>1
    <3> QED
      BY <3>1, <3>2
  <2> QED
    BY <2>2, <2>3, <2>4, <2>5, <2>6 DEF BuildInv
<1> QED
  BY <1>2, <1>3, <1>4, StepOfRuns

LEMMA StepSees ==
  ASSUME Inv, [Next]_vars
  PROVE  RunSeesItsSync'
<1> DEFINE Fresh == {"building", "built", "exporting", "uploading", "done"}
<1> SUFFICES ASSUME NEW q \in Runs', run'[q].key # 0, run'[q].step \in Fresh
             PROVE  run'[q].version >= covers'[run'[q].key]
  BY DEF RunSeesItsSync
<1>1. /\ TypeInv /\ MirrorInv /\ BuildInv /\ RunSeesItsSync
      /\ Mtime \in Nat /\ Len(run) \in Nat /\ lake \in 0 .. MaxVersion
  BY RunTypes DEF Inv, TypeInv
<1>2. ASSUME NEW r \in Runs, run[r].key # 0
      PROVE  covers'[run[r].key] = covers[run[r].key] /\ run[r].key \in 1 .. Mtime
  BY <1>1, <1>2, RunTypes, MarkerStep
<1>3. CASE UNCHANGED run
  <2>1. q \in Runs /\ run'[q] = run[q]
    BY <1>3 DEF Runs
  <2> QED
    BY <1>1, <1>2, <2>1 DEF RunSeesItsSync
<1>4. ASSUME NEW key \in {0, seen}, Request(key)
      PROVE  run'[q].version >= covers'[run'[q].key]
  <2>1. key \in 0 .. Mtime
    BY <1>1 DEF TypeInv
  <2>2. q \in Runs /\ run'[q] = run[q]
    BY <1>1, <1>4, <2>1, RequestAdds
  <2> QED
    BY <1>1, <1>2, <2>2 DEF RunSeesItsSync
<1>5. ASSUME NEW r \in Runs, NEW to \in RunSteps, NEW v \in 0 .. MaxVersion, Move(r, to, v)
      PROVE  run'[q].version >= covers'[run'[q].key]
  <2>1. /\ Runs' = Runs
        /\ run'[r].step = to /\ run'[r].key = run[r].key /\ run'[r].version = v
        /\ \A p \in Runs \ {r} : run'[p] = run[p]
    BY <1>1, <1>5, MoveMoves DEF Move
  <2>2. CASE q # r
    BY <1>1, <1>2, <2>1, <2>2 DEF RunSeesItsSync
  <2>3. CASE q = r
    <3>1. /\ run[r].key \in 1 .. Mtime /\ covers'[run'[r].key] = covers[run[r].key]
          /\ covers[run[r].key] \in 0 .. lake
      BY <1>1, <1>2, <2>1, <2>3, RunTypes
    <3>2. CASE to = "building"
      <4>1. PICK c \in 0 .. MaxVersion : c = covers[run[r].key]
        BY <1>1, <3>1
      <4>2. c # 0 => c \in Versions /\ <<c, "log">> \in mirror
        BY <1>1, <3>1, <4>1 DEF MirrorInv, ObjectsOf, Parts, Versions
      <4>3. c <= NewestLogged
        BY <4>1, <4>2, NewestIs
      <4>4. v = NewestLogged
        BY <1>5, <3>2 DEF Move
      <4> QED
        BY <2>1, <2>3, <3>1, <4>1, <4>3, <4>4
    <3>3. CASE to # "building"
      <4>1. run[r].step \in Fresh /\ (v = run[r].version \/ (v = gold /\ run[r].step = "exporting"))
        BY <1>5, <2>1, <2>3, <3>3 DEF Move
      <4>2. run[r].version >= covers[run[r].key]
        BY <1>1, <2>1, <2>3, <4>1 DEF RunSeesItsSync
      <4>3. run[r].version <= v
        BY <1>1, <4>1, RunTypes DEF BuildInv
      <4>4. run[r].version \in Int /\ covers[run[r].key] \in Int
        BY <1>1, <3>1, RunTypes
      <4> QED
        BY <2>1, <2>3, <3>1, <4>2, <4>3, <4>4
    <3> QED
      BY <3>2, <3>3
  <2> QED
    BY <2>2, <2>3
<1> QED
  BY <1>3, <1>4, <1>5, StepOfRuns

-----------------------------------------------------------------------------
LEMMA StepInv == Inv /\ [Next]_vars => Inv'
BY StepTypes, StepMirror, StepBuild, StepKeys, StepSees DEF Inv

LEMMA Invariance == Spec => []Inv
BY InitInv, StepInv, PTL DEF Spec

\* A sync is built at most once on the sensor's account, wherever in a tick the
\* daemon dies (sensors.py:20-32).
THEOREM OneRunEach == Spec => []OneRunPerSync
<1>1. Inv => OneRunPerSync
  BY DEF Inv
<1> QED
  BY <1>1, Invariance, PTL

\* A run that a sync triggered builds and publishes what that sync had listed
\* (sync_lakehouse.sh:15-25).
THEOREM RunsSeeTheirSync == Spec => []RunSeesItsSync
<1>1. Inv => RunSeesItsSync
  BY DEF Inv
<1> QED
  BY <1>1, Invariance, PTL

\* The tables never go back, whichever runs overlap and fail (assets.py:59-67,
\* schedules.py:5-12).
THEOREM GoldOnlyRises == Spec => GoldNeverGoesBack
<1>1. Inv /\ [Next]_vars => [gold' >= gold]_vars
  <2> SUFFICES ASSUME Inv, [Next]_vars PROVE gold' >= gold
    OBVIOUS
  <2>1. gold <= gold' /\ gold' \in 0 .. MaxVersion /\ gold \in 0 .. MaxVersion
    BY GoldRises DEF Inv, TypeInv
  <2> QED
    BY <2>1
<1> QED
  BY <1>1, Invariance, PTL DEF Spec, GoldNeverGoesBack
=============================================================================
