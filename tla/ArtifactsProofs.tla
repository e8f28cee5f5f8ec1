--------------------------- MODULE ArtifactsProofs ---------------------------
(***************************************************************************)
(* Theorems about what a run leaves behind: the log and the artifacts, for *)
(* any number of runs, engine threads, events, disk failures and kills;    *)
(* the reports and the verdicts on them, for any jobs; the exit code of    *)
(* the command line, for any number of calls.                              *)
(***************************************************************************)
EXTENDS ArtifactsMC, FiniteSetTheorems, SequenceTheorems, TLAPS

-----------------------------------------------------------------------------
(* ExecutionLog                                                            *)

LEMMA RunsAreNumbers == Runs \subseteq 0..MaxRuns /\ 0 \notin Runs /\ \A n \in 0..MaxRuns : n > 0 => n \in Runs
BY LogAssumption DEF Runs

\* An event at the end of a sequence.
LEMMA Appended ==
    ASSUME NEW s \in Seq(Events), NEW e \in Events
    PROVE  /\ Append(s, e) \in Seq(Events)
           /\ Len(Append(s, e)) = Len(s) + 1
           /\ \A i \in 1..Len(s) : Append(s, e)[i] = s[i]
           /\ Append(s, e)[Len(s) + 1] = e
BY AppendProperties

LEMMA NextTypes == TypeOK /\ [Next]_vars => TypeOK'
<1> SUFFICES ASSUME TypeOK, [Next]_vars PROVE TypeOK'
  BY Zenon
<1> USE LogAssumption, RunsAreNumbers DEF artifacts
<1>0. Idle \in [run : 0..MaxRuns, stage : {"idle", "captured", "stamped"}, stamp : Nat]
  BY DEF Idle
<1>1. CASE StartRun
  BY <1>1 DEF StartRun, TypeOK, Runs
<1>2. ASSUME NEW t \in Workers, Emit(t) PROVE TypeOK'
  BY <1>2, SMTT(60) DEF Emit, Stamped, TypeOK, Threads
<1>3. ASSUME NEW t \in Threads, Append_(t) PROVE TypeOK'
  <2> DEFINE e == [by |-> t, stamp |-> emitting[t].stamp]
  <2>1. e \in Events
    BY Zenon DEF TypeOK, Events
  <2>2. \A r \in Runs : Append(buffer[r], e) \in Seq(Events)
    BY <2>1, Appended, Zenon DEF TypeOK
  <2>3. buffer' \in [Runs -> Seq(Events)]
    <3> HIDE DEF e
    <3>1. buffer' = [buffer EXCEPT ![emitting[t].run] = Append(@, e)]
      BY <1>3, Zenon DEF Append_, e
    <3> QED
      BY <2>2, <3>1, Zenon DEF TypeOK
  <2>4. emitting' \in [Threads -> [run : 0..MaxRuns, stage : {"idle", "captured", "stamped"}, stamp : Nat]]
    BY <1>0, <1>3, Zenon DEF Append_, TypeOK
  <2> QED
    BY <1>3, <2>3, <2>4, Zenon DEF Append_, TypeOK
<1>4. CASE Capture
  BY <1>4, Zenon DEF Capture, TypeOK, Threads
<1>5. CASE EmitCallback
  BY <1>5 DEF EmitCallback, Stamped, TypeOK, Threads
<1>6. CASE EngineDone \/ EngineFails \/ DiskFails \/ MarkCompleted
  BY <1>6, ZenonT(60) DEF EngineDone, EngineFails, DiskFails, MarkCompleted, Ends, TypeOK
<1>7. CASE OpenResult
  <2>1. resultFile' \in [run : 0..MaxRuns, whole : BOOLEAN]
    BY <1>7, Zenon DEF OpenResult, TypeOK
  <2> QED
    BY <1>7, <2>1, Zenon DEF OpenResult, TypeOK
<1>8. CASE WriteLine
  BY <1>8, Zenon DEF WriteLine, TypeOK
<1>9. CASE WriteResult
  <2>1. resultFile' \in [run : 0..MaxRuns, whole : BOOLEAN]
    BY <1>9, Zenon DEF WriteResult, TypeOK
  <2> QED
    BY <1>9, <2>1, Zenon DEF WriteResult, TypeOK
<1>10. CASE TakeSnapshot
  <2>1. buffer[run] \in Seq(Events)
    BY <1>10, Zenon DEF TakeSnapshot, TypeOK
  <2> QED
    BY <1>10, <2>1, Zenon DEF TakeSnapshot, TypeOK
<1>11. CASE Replace
  BY <1>11, Zenon DEF Replace, TypeOK
<1>12. CASE Crash
  BY <1>0, <1>12, Zenon DEF Crash, TypeOK
<1>13. CASE UNCHANGED vars
  BY <1>13, Zenon DEF vars, TypeOK
<1> QED
  BY <1>1, <1>2, <1>3, <1>4, <1>5, <1>6, <1>7, <1>8, <1>9, <1>10, <1>11, <1>12, <1>13, ZenonT(60) DEF Next

\* Every reachable state is well typed.
THEOREM LogTypeCorrect == Spec => []TypeOK
<1>1. Init => TypeOK
  <2>1. <<>> \in Seq(Events)
    OBVIOUS
  <2> QED
    BY <2>1, LogAssumption DEF Init, TypeOK, Idle
<1> QED
  BY <1>1, NextTypes, PTL DEF Spec

-----------------------------------------------------------------------------
(* The log file.                                                           *)

\* A copy holds the first events of a run, and all of its engine's.
Whole(events, r) ==
    /\ Len(events) <= Len(buffer[r])
    /\ \A i \in 1..Len(events) : events[i] = buffer[r][i]
    /\ \A i \in 1..Len(buffer[r]) : buffer[r][i].by \in Workers => i <= Len(events)

\* The engine's threads append while their run is executed; the callback may
\* append whenever it likes.
LogInv ==
    /\ \A t \in Workers : emitting[t] # Idle => pc = "running" /\ emitting[t].run = run
    /\ \A t \in Threads : emitting[t].stage # "idle" => emitting[t].run \in Runs
    /\ pc = "lines" => Whole(snapshot, run)
    /\ logFile.run > 0 => Whole(logFile.events, logFile.run)
    /\ logFile.run <= run
    /\ logFile.run = run => pc \in {"idle", "mark"}

\* What is not the engine's may be appended to the buffer of any run, and what
\* is the engine's to a run of which there is no copy.
LEMMA WholeAppend ==
    ASSUME TypeOK, NEW t \in Threads, Append_(t), emitting[t].run \in Runs,
           NEW r \in Runs, NEW events \in Seq(Events), Whole(events, r),
           t \in Workers => emitting[t].run # r
    PROVE  Whole(events, r)'
<1> DEFINE e == [by |-> t, stamp |-> emitting[t].stamp]
<1>1. e \in Events /\ e.by = t
  BY Zenon DEF TypeOK, Events
<1> HIDE DEF e
<1>2. buffer' = [buffer EXCEPT ![emitting[t].run] = Append(@, e)]
  BY Zenon DEF Append_, e
<1>3. CASE emitting[t].run # r
  <2>1. buffer'[r] = buffer[r]
    BY <1>2, <1>3, Zenon DEF TypeOK
  <2> QED
    BY <2>1, Zenon DEF Whole
<1>4. CASE emitting[t].run = r
  <2>1. t \notin Workers
    BY <1>4, Zenon
  <2>2. buffer'[r] = Append(buffer[r], e) /\ buffer[r] \in Seq(Events)
    BY <1>2, <1>4, Zenon DEF TypeOK
  <2>3. /\ Len(buffer'[r]) = Len(buffer[r]) + 1
        /\ \A i \in 1..Len(buffer[r]) : buffer'[r][i] = buffer[r][i]
        /\ buffer'[r][Len(buffer[r]) + 1] = e
    BY <1>1, <2>2, Appended
  <2>4. Len(buffer[r]) \in Nat /\ Len(events) \in Nat
    BY <2>2
  <2>5. Len(events) <= Len(buffer'[r])
    BY <2>3, <2>4 DEF Whole
  <2>6. \A i \in 1..Len(events) : events[i] = buffer'[r][i]
    BY <2>3, <2>4 DEF Whole
  <2>7. ASSUME NEW i \in 1..Len(buffer'[r]), buffer'[r][i].by \in Workers
        PROVE  i <= Len(events)
    <3>1. i # Len(buffer[r]) + 1
      BY <1>1, <2>1, <2>3, <2>7, Zenon
    <3>2. i \in 1..Len(buffer[r])
      BY <2>3, <2>4, <3>1, SMTT(60)
    <3> QED
      BY <2>3, <2>7, <3>2, Zenon DEF Whole
  <2> QED
    BY <2>5, <2>6, <2>7, Zenon DEF Whole
<1> QED
  BY <1>3, <1>4, Zenon

LEMMA NextLog == TypeOK /\ LogInv /\ [Next]_vars => LogInv'
<1> SUFFICES ASSUME TypeOK, LogInv, [Next]_vars PROVE LogInv'
  BY Zenon
<1> USE LogAssumption, RunsAreNumbers DEF artifacts
<1>0. run \in Int /\ logFile.run \in Int /\ (logFile.run > 0 => logFile.run \in Runs) /\ Workers \subseteq Threads
  BY DEF TypeOK, Threads
<1>1. CASE StartRun
  BY <1>0, <1>1 DEF StartRun, LogInv, Whole
<1>2. ASSUME NEW t \in Workers, Emit(t) PROVE LogInv'
  <2>1. /\ emitting' = [emitting EXCEPT ![t] = [run |-> run, stage |-> "stamped", stamp |-> clock + 1]]
        /\ UNCHANGED <<run, pc, buffer, snapshot, logFile>> /\ pc = "running"
    BY <1>2, Zenon DEF Emit, Stamped
  <2>2. run \in Runs
    BY <2>1, Zenon DEF TypeOK
  <2> QED
    BY <1>0, <2>1, <2>2, Zenon DEF LogInv, Whole, TypeOK
<1>3. ASSUME NEW t \in Threads, Append_(t) PROVE LogInv'
  <2>1. /\ emitting' = [emitting EXCEPT ![t] = Idle] /\ UNCHANGED <<run, pc, snapshot, logFile>>
        /\ emitting[t].stage = "stamped"
    BY <1>3, Zenon DEF Append_
  <2>2. emitting[t].run \in Runs
    BY <2>1, Zenon DEF LogInv
  <2>3. t \in Workers => pc = "running" /\ emitting[t].run = run
    BY <2>1 DEF LogInv, Idle
  <2>4. pc = "lines" => Whole(snapshot, run)'
    <3> HAVE pc = "lines"
    <3>1. run \in Runs /\ snapshot \in Seq(Events) /\ Whole(snapshot, run) /\ t \notin Workers
      BY <2>3, Zenon DEF TypeOK, LogInv
    <3>2. \A r \in Runs, x \in Seq(Events) : Whole(x, r) => Whole(x, r)'
      BY <1>3, <2>2, <3>1, WholeAppend, Zenon
    <3> QED
      BY <2>1, <3>1, <3>2, Zenon DEF Whole
  <2>5. logFile.run > 0 => Whole(logFile.events, logFile.run)'
    <3> HAVE logFile.run > 0
    <3>1. logFile.run \in Runs /\ logFile.events \in Seq(Events) /\ Whole(logFile.events, logFile.run)
      BY <1>0, Zenon DEF TypeOK, LogInv
    <3>2. t \in Workers => emitting[t].run # logFile.run
      BY <2>3, Zenon DEF LogInv
    <3>3. \A x \in Seq(Events) : Whole(x, logFile.run) => (\A r \in Runs : r = logFile.run => Whole(x, r)')
      BY <1>3, <2>2, <3>1, <3>2, WholeAppend, ZenonT(60)
    <3> QED
      BY <2>1, <3>1, <3>3, ZenonT(60) DEF Whole
  <2>6. /\ \A u \in Workers : emitting'[u] # Idle => emitting[u] # Idle /\ emitting'[u] = emitting[u]
        /\ \A u \in Threads : emitting'[u].stage # "idle" => emitting'[u] = emitting[u]
    BY <1>0, <2>1, Zenon DEF TypeOK, Idle
  <2> QED
    BY <1>0, <2>1, <2>4, <2>5, <2>6, ZenonT(60) DEF LogInv
<1>4. CASE Capture
  <2>1. run \in Runs /\ Callback \in Threads
    BY <1>4, Zenon DEF Capture, TypeOK, Threads
  <2> QED
    BY <1>0, <1>4, <2>1, Zenon DEF Capture, LogInv, Whole, TypeOK
<1>5. CASE EmitCallback
  <2>1. emitting[Callback].run \in Runs /\ Callback \in Threads
    BY <1>5, Zenon DEF EmitCallback, LogInv, Threads
  <2>2. /\ UNCHANGED <<run, pc, buffer, snapshot, logFile>>
        /\ \A t \in Threads \ {Callback} : emitting'[t] = emitting[t]
        /\ emitting'[Callback].run = emitting[Callback].run
    BY <1>5, <2>1, Zenon DEF EmitCallback, Stamped, TypeOK
  <2> QED
    BY <1>0, <2>1, <2>2, ZenonT(60) DEF LogInv, Whole
<1>6. CASE EngineDone \/ EngineFails
  BY <1>0, <1>6, Zenon DEF EngineDone, EngineFails, Ends, LogInv, Whole
<1>7. CASE DiskFails \/ MarkCompleted
  BY <1>0, <1>7, Zenon DEF DiskFails, MarkCompleted, Ends, LogInv, Whole
<1>8. CASE OpenResult \/ WriteResult \/ WriteLine
  BY <1>0, <1>8, Zenon DEF OpenResult, WriteResult, WriteLine, LogInv, Whole
<1>9. CASE TakeSnapshot
  <2>1. run \in Runs /\ Len(buffer[run]) \in Nat
    BY <1>9, SMTT(60) DEF TakeSnapshot, TypeOK
  <2> QED
    BY <1>0, <1>9, <2>1, SMTT(60) DEF TakeSnapshot, LogInv, Whole
<1>10. CASE Replace
  BY <1>0, <1>10, SMTT(60) DEF Replace, LogInv, Whole
<1>11. CASE Crash
  BY <1>0, <1>11, Zenon DEF Crash, LogInv, Whole, Idle
<1>12. CASE UNCHANGED vars
  BY <1>0, <1>12, Zenon DEF vars, LogInv, Whole
<1> QED
  BY <1>1, <1>2, <1>3, <1>4, <1>5, <1>6, <1>7, <1>8, <1>9, <1>10, <1>11, <1>12, ZenonT(60) DEF Next

\* flush_to_path: at any time, also after a kill, the log file holds the first
\* events of one run, all of its engine's among them.
THEOREM LogFilesAreWhole == Spec => []LogFileIsWhole
<1>1. Init => LogInv
  BY DEF Init, LogInv, Idle, Threads
<1>2. TypeOK /\ LogInv => LogFileIsWhole
  <2> SUFFICES ASSUME TypeOK, LogInv, logFile.run > 0
               PROVE  /\ Begins(logFile.events, buffer[logFile.run])
                      /\ \A i \in DOMAIN buffer[logFile.run] :
                            buffer[logFile.run][i].by \in Workers => i <= Len(logFile.events)
    BY Zenon DEF LogFileIsWhole
  <2>1. /\ Whole(logFile.events, logFile.run)
        /\ logFile.events \in Seq(Events) /\ buffer[logFile.run] \in Seq(Events)
    BY RunsAreNumbers, Zenon DEF LogInv, TypeOK
  <2>2. Begins(logFile.events, buffer[logFile.run])
    BY <2>1, SMTT(60) DEF Whole, Begins
  <2>3. DOMAIN buffer[logFile.run] = 1..Len(buffer[logFile.run])
    BY <2>1
  <2> QED
    BY <2>1, <2>2, <2>3, Zenon DEF Whole
<1> QED
  BY <1>1, <1>2, NextLog, LogTypeCorrect, PTL DEF Spec

-----------------------------------------------------------------------------
(* The artifacts of a run.                                                 *)

FilesInv ==
    /\ pc # "idle" => status[run] = "running"
    /\ \A r \in Runs : r > run => status[r] = "none"
    /\ resultFile.run <= run /\ logFile.run <= resultFile.run
    /\ resultFile.run = 0 => resultFile.whole
    /\ pc \in {"running", "result"} => resultFile.run < run
    /\ pc \in {"writing", "flush", "lines", "mark"} => resultFile.run = run
    /\ pc \in {"flush", "lines", "mark"} => resultFile.whole
    /\ pc = "mark" => logFile.run = run
    /\ \A r \in Runs : status[r] = "completed" /\ resultFile.run <= r =>
          resultFile.run = r /\ resultFile.whole /\ logFile.run = r

LEMMA NextFiles == TypeOK /\ FilesInv /\ [Next]_vars => FilesInv'
<1> SUFFICES ASSUME TypeOK, FilesInv, [Next]_vars PROVE FilesInv'
  BY Zenon
<1> USE LogAssumption, RunsAreNumbers DEF artifacts
<1>0. /\ run \in Int /\ logFile.run \in Int /\ resultFile.run \in Int
      /\ \A r \in Runs : r \in Int
      /\ pc # "idle" => run \in Runs
  BY DEF TypeOK
<1>1. CASE StartRun
  <2>1. run + 1 \in Runs
    BY <1>1 DEF StartRun, TypeOK, Runs
  <2>2. /\ run' = run + 1 /\ pc' = "running" /\ UNCHANGED <<resultFile, logFile>>
        /\ \A r \in Runs : status'[r] = IF r = run + 1 THEN "running" ELSE status[r]
    BY <1>1, <2>1, Zenon DEF StartRun, TypeOK
  <2> QED
    BY <1>0, <2>1, <2>2, SMTT(60) DEF FilesInv
<1>2. CASE UNCHANGED <<run, status, pc, resultFile, logFile>>
  BY <1>2, Zenon DEF FilesInv
<1>3. ASSUME NEW t \in Threads, Append_(t) \/ Emit(t) PROVE FilesInv'
  BY <1>2, <1>3, Zenon DEF Append_, Emit
<1>4. CASE Capture \/ EmitCallback \/ WriteLine \/ UNCHANGED vars
  BY <1>2, <1>4, Zenon DEF Capture, EmitCallback, WriteLine, vars
<1>5. CASE EngineDone \/ TakeSnapshot
  BY <1>0, <1>5, Zenon DEF EngineDone, TakeSnapshot, FilesInv
<1>6. CASE EngineFails \/ DiskFails
  <2>1. /\ UNCHANGED <<run, resultFile, logFile>> /\ pc' = "idle" /\ run \in Runs
        /\ \A r \in Runs : status'[r] = IF r = run THEN "failed" ELSE status[r]
    BY <1>0, <1>6, Zenon DEF EngineFails, DiskFails, Ends, TypeOK
  <2> QED
    BY <1>0, <2>1 DEF FilesInv
<1>7. CASE MarkCompleted
  <2>1. /\ UNCHANGED <<run, resultFile, logFile>> /\ pc' = "idle" /\ pc = "mark" /\ run \in Runs
        /\ \A r \in Runs : status'[r] = IF r = run THEN "completed" ELSE status[r]
    BY <1>0, <1>7, Zenon DEF MarkCompleted, Ends, TypeOK
  <2> QED
    BY <1>0, <2>1, Zenon DEF FilesInv
<1>8. CASE OpenResult
  <2>1. /\ UNCHANGED <<run, status, logFile>> /\ pc = "result" /\ pc' = "writing" /\ run \in Runs
        /\ resultFile' = [run |-> run, whole |-> FALSE] /\ status[run] = "running"
    BY <1>0, <1>8, Zenon DEF OpenResult, FilesInv
  <2>2. \A r \in Runs : status[r] = "completed" => r < run
    BY <1>0, <2>1 DEF FilesInv
  <2> QED
    BY <1>0, <2>1, <2>2 DEF FilesInv
<1>9. CASE WriteResult
  <2>1. /\ UNCHANGED <<run, status, logFile>> /\ pc = "writing" /\ pc' = "flush"
        /\ resultFile'.run = resultFile.run /\ resultFile'.whole
    BY <1>9, Zenon DEF WriteResult, TypeOK
  <2> QED
    BY <1>0, <2>1, Zenon DEF FilesInv
<1>10. CASE Replace
  <2>1. /\ UNCHANGED <<run, status, resultFile>> /\ pc = "lines" /\ pc' = "mark" /\ run \in Runs
        /\ logFile'.run = run /\ status[run] = "running"
    BY <1>0, <1>10, Zenon DEF Replace, FilesInv
  <2>2. \A r \in Runs : status[r] = "completed" => r < run
    BY <1>0, <2>1 DEF FilesInv
  <2> QED
    BY <1>0, <2>1, <2>2, Zenon DEF FilesInv
<1>11. CASE Crash
  BY <1>0, <1>11, ZenonT(60) DEF Crash, FilesInv
<1> QED
  BY <1>1, <1>3, <1>4, <1>5, <1>6, <1>7, <1>8, <1>9, <1>10, <1>11, ZenonT(60) DEF Next, Threads

\* _persist_configured_artifacts: a completed run left both of its files; files
\* that do not belong together, or a torn one, are not those of a completed run.
THEOREM ArtifactsAlwaysAgree == Spec => []ArtifactsAgree
<1>1. Init => FilesInv
  BY DEF Init, FilesInv
<1>2. TypeOK /\ FilesInv => ArtifactsAgree
  <2> SUFFICES ASSUME TypeOK, FilesInv PROVE ArtifactsAgree
    BY Zenon
  <2>1. /\ run \in Int /\ logFile.run \in Int /\ resultFile.run \in Int
        /\ run > 0 => run \in Runs
        /\ resultFile.run > 0 => resultFile.run \in Runs
        /\ logFile.run >= 0 /\ resultFile.run >= 0
    BY LogAssumption, RunsAreNumbers DEF TypeOK
  <2>2. run > 0 /\ status[run] = "completed" => resultFile = [run |-> run, whole |-> TRUE] /\ logFile.run = run
    <3> HAVE run > 0 /\ status[run] = "completed"
    <3>1. resultFile.run = run /\ resultFile.whole /\ logFile.run = run
      BY <2>1, Zenon DEF FilesInv
    <3> QED
      BY <3>1, Zenon DEF TypeOK
  <2>3. resultFile.run > logFile.run \/ ~resultFile.whole => status[resultFile.run] # "completed"
    BY <2>1 DEF FilesInv
  <2> QED
    BY <2>2, <2>3, Zenon DEF ArtifactsAgree, FilesInv
<1> QED
  BY <1>1, <1>2, NextFiles, LogTypeCorrect, PTL DEF Spec

-----------------------------------------------------------------------------
(* CommandLine: until it writes them, the files are of earlier calls.      *)

mcVars == <<program, pc, status, reportVars, logVars, commandVars>>

Unwritten == {"parse", "load", "plan", "smoke", "discovery", "jwks", "finalise", "write"}

CommandInv ==
    /\ call \in Nat
    /\ files \in [result : Nat, log : Nat, torn : BOOLEAN, passed : BOOLEAN]
    /\ files.result <= call /\ files.log <= call
    /\ pc \in Unwritten \union {"flush", "end"}
    /\ pc \in Unwritten => files.result < call /\ files.log < call
    /\ pc = "flush" => files.result = call /\ files.log < call /\ ~files.torn /\ (files.passed <=> status = "passed")
    /\ C!ExitTellsTheFiles

LEMMA ResultWritten ==
    ASSUME CommandInv, NEW torn \in BOOLEAN, NEW ok \in BOOLEAN, NEW g, g = C!Written(torn, ok)
    PROVE  /\ g.result = call /\ g.log = files.log /\ g.torn = torn /\ g.passed = ok
           /\ g \in [result : Nat, log : Nat, torn : BOOLEAN, passed : BOOLEAN]
<1>1. call \in Nat /\ files.log \in Nat
  BY Zenon DEF CommandInv
<1> QED
  BY <1>1, Zenon DEF C!Written

LEMMA CommandStep == CommandInv /\ C!Next => CommandInv'
<1> SUFFICES ASSUME CommandInv, C!Next PROVE CommandInv'
  BY Zenon
<1> USE DEF CommandInv, C!ExitTellsTheFiles, C!BothWritten, C!NoneWritten, C!Exit, C!Uncaught, Unwritten
\* Steps that leave the files alone and end with no verdict.
<1>1. ASSUME UNCHANGED <<call, files>>, pc \in Unwritten,
             \/ pc' \in Unwritten
             \/ pc' = "end" /\ (exit' \in {1, 2} \/ (exit' = 0 /\ args'.help))
      PROVE  CommandInv'
  BY <1>1, SMTT(60)
<1>2. CASE C!Parse \/ C!Load
  <2>1. UNCHANGED <<call, files>> /\ pc \in Unwritten
    BY <1>2, Zenon DEF C!Parse, C!Load
  <2>2. pc' \in Unwritten \/ (pc' = "end" /\ (exit' \in {1, 2} \/ (exit' = 0 /\ args'.help)))
    BY <1>2, Zenon DEF C!Parse, C!Load
  <2> QED
    BY <1>1, <2>1, <2>2, Zenon
<1>3. CASE C!RunPlan
  <2>1. UNCHANGED <<call, files>> /\ pc \in Unwritten /\ (pc' \in Unwritten \/ (pc' = "end" /\ exit' \in {1, 2}))
    BY <1>3, Zenon DEF C!RunPlan
  <2> QED
    BY <1>1, <2>1, Zenon
<1>4. CASE C!StartSmoke \/ C!FetchDiscovery \/ C!FetchJwks \/ C!Finalise
  <2>1. UNCHANGED <<call, files>> /\ pc \in Unwritten /\ (pc' \in Unwritten \/ (pc' = "end" /\ exit' \in {1, 2}))
    BY <1>4, Zenon DEF C!StartSmoke, C!FetchDiscovery, C!FetchJwks, C!Finalise, C!Raise
  <2> QED
    BY <1>1, <2>1, Zenon
<1>5. CASE C!WriteResult
  <2>1. UNCHANGED <<call, status>> /\ pc = "write"
    BY <1>5, Zenon DEF C!WriteResult
  <2>2. CASE files' = C!Written(FALSE, status = "passed") /\ pc' = "flush"
    <3>1. PICK ok \in BOOLEAN : ok <=> status = "passed"
      BY Zenon
    <3>2. files' = C!Written(FALSE, ok)
      BY <2>2, <3>1, Zenon
    <3>3. /\ files'.result = call /\ files'.log = files.log /\ files'.torn = FALSE /\ files'.passed = ok
          /\ files' \in [result : Nat, log : Nat, torn : BOOLEAN, passed : BOOLEAN]
      BY <3>2, ResultWritten, Zenon
    <3> HIDE DEF CommandInv
    <3>4. call \in Nat /\ files.log < call /\ files.log \in Nat
      BY <2>1, SMTT(60) DEF CommandInv
    <3>5. call <= call /\ files.log <= call
      BY <3>4
    <3> USE DEF CommandInv
    <3> QED
      BY <2>1, <2>2, <3>1, <3>3, <3>4, <3>5, ZenonT(60)
  <2>3. CASE pc' = "end" /\ exit' = 3 /\ files' = files
    BY <2>1, <2>3, SMTT(60)
  <2>4. CASE pc' = "end" /\ exit' = 3 /\ files' = C!Written(TRUE, FALSE)
    <3>1. /\ files'.result = call /\ files'.log = files.log
          /\ files' \in [result : Nat, log : Nat, torn : BOOLEAN, passed : BOOLEAN]
      BY <2>4, ResultWritten, Zenon
    <3>2. call \in Nat /\ files.log < call /\ files.log \in Nat
      BY <2>1, SMTT(60)
    <3>3. call <= call /\ files.log <= call
      BY <3>2
    <3>4. 3 # 0 /\ 3 # 1 /\ 3 # 2
      OBVIOUS
    <3> QED
      BY <2>1, <2>4, <3>1, <3>2, <3>3, <3>4, ZenonT(60)
  <2> QED
    BY <1>5, <2>2, <2>3, <2>4, Zenon DEF C!WriteResult
<1>6. CASE C!FlushLog
  <2>1. UNCHANGED <<call, status>> /\ pc = "flush" /\ pc' = "end"
    BY <1>6, Zenon DEF C!FlushLog
  <2>2. CASE files' = [files EXCEPT !.log = call] /\ exit' = IF status = "passed" THEN 0 ELSE 1
    BY <2>1, <2>2, SMTT(60)
  <2>3. CASE exit' = 3 /\ files' = files
    BY <2>1, <2>3, SMTT(60)
  <2> QED
    BY <1>6, <2>2, <2>3, Zenon DEF C!FlushLog
<1>7. CASE C!CallAgain
  <2>1. call' = call + 1 /\ files' = files /\ pc' = "parse"
    BY <1>7, Zenon DEF C!CallAgain
  <2> QED
    BY <2>1, SMTT(60)
<1> QED
  BY <1>2, <1>3, <1>4, <1>5, <1>6, <1>7, ZenonT(60) DEF C!Next

\* The exit status tells what the call did to the two files, however often the
\* program is called, whichever write fails and whatever exception ends it
\* with the status of failed checks (cli.py, main.py).
THEOREM ExitCodesTell == MCSpec => []ExitTells
<1> DEFINE Inv == program = "command" => CommandInv
<1>1. MCInit => Inv
  <2> SUFFICES ASSUME MCInit, program = "command" PROVE CommandInv
    BY Zenon
  <2>1. /\ pc = "parse" /\ call = 1
        /\ files = [result |-> 0, log |-> 0, torn |-> FALSE, passed |-> FALSE]
    BY DEF MCInit, C!Init
  <2> QED
    BY <2>1, SMTT(60) DEF CommandInv, Unwritten, C!ExitTellsTheFiles, C!BothWritten, C!NoneWritten
<1>2. Inv /\ [MCNext]_mcVars => Inv'
  <2> SUFFICES ASSUME Inv, [MCNext]_mcVars, program' = "command" PROVE CommandInv'
    BY Zenon
  <2>1. CASE MCNext
    <3>1. program = "command" /\ C!Next
      BY <2>1, SMTT(60) DEF MCNext
    <3> QED
      BY <3>1, CommandStep, Zenon
  <2>2. CASE UNCHANGED mcVars
    <3>1. UNCHANGED <<program, pc, status, call, args, files, exit>>
      BY <2>2, Zenon DEF mcVars, commandVars
    <3> QED
      BY <3>1, Zenon DEF CommandInv, C!ExitTellsTheFiles, C!BothWritten, C!NoneWritten
  <2> QED
    BY <2>1, <2>2, Zenon
<1>3. Inv => ExitTells
  BY Zenon DEF ExitTells, CommandInv
<1> QED
  BY <1>1, <1>2, <1>3, PTL DEF MCSpec, mcVars

-----------------------------------------------------------------------------
(* Reports: the results of a run are of its selected steps, each once, and *)
(* the report is what is built of them.                                    *)

Rows == [id : selected, status : R!Statuses, mandatory : BOOLEAN]

AllReported == \A k \in selected : \E i \in DOMAIN results : results[i].id = k

Fields == {"form", "version", "status", "steps", "summary", "plan", "catalogue", "mode", "traceGroups", "eligibility"}

Eligibility ==
    R!build_eligibility(results, R!DeselectedMandatory, job.policy, job.version, job.coverage, job.overridden)

Built ==
    /\ DOMAIN report = Fields
    /\ report.version = job.version /\ report.status = R!run_status(results) /\ report.steps = results
    /\ report.summary = R!summary(results) /\ report.catalogue = job.kind
    /\ report.traceGroups = R!trace_groups(job.cases, results)
    /\ job.kind = "manifest" => report.eligibility.eligible = Eligibility.eligible

ReadBy(policy, kept) ==
    reading = [policy |-> policy, gate |-> R!gate_run(report),
               certification |-> R!certification_run(report, job.mandatory, policy, job.coverage, kept)]

ReportInv ==
    /\ job \in Jobs
    /\ results \in Seq(Rows)
    /\ \A i \in DOMAIN results : results[i].mandatory <=> results[i].id \in job.mandatory
    /\ \A i, j \in DOMAIN results : results[i].id = results[j].id => i = j
    /\ job.kind = "dcr" => selected = R!StepsOfJob
    /\ pc = "planning" => results = <<>> /\ job.kind # "dcr"
    /\ pc \in {"attaching", "reading", "read"} => AllReported /\ Built
    /\ pc = "read" => \E policy \in R!Policies \ {R!NoPolicy}, kept \in BOOLEAN : ReadBy(policy, kept)

LEMMA InitReport == R!Init => ReportInv
<1> SUFFICES ASSUME R!Init PROVE ReportInv
  BY Zenon
<1>1. /\ job \in Jobs /\ results = <<>> /\ pc \in {"planning", "running"}
      /\ job.kind = "dcr" => selected = R!StepsOfJob /\ pc = "running"
  BY Zenon DEF R!Init
<1>2. <<>> \in Seq(Rows) /\ DOMAIN <<>> = {}
  BY EmptySeq
<1> QED
  BY <1>1, <1>2, Zenon DEF ReportInv

LEMMA ReportStep == ReportInv /\ R!Next => ReportInv'
<1> SUFFICES ASSUME ReportInv, R!Next PROVE ReportInv'
  BY Zenon
<1>1. CASE R!WithDeselection
  <2>1. /\ pc = "planning" /\ pc' = "running" /\ UNCHANGED <<job, results>> /\ results = <<>> /\ job.kind # "dcr"
    BY <1>1, Zenon DEF R!WithDeselection, ReportInv
  <2>2. results' \in Seq(Rows') /\ DOMAIN results' = {}
    BY <2>1, EmptySeq
  <2> QED
    BY <2>1, <2>2, Zenon DEF ReportInv
<1>2. CASE R!RunStep
  <2>1. UNCHANGED <<job, selected, pc>> /\ pc = "running"
    BY <1>2, Zenon DEF R!RunStep
  <2>2. PICK k \in R!Pending, s \in R!Statuses :
            results' = Append(results, [id |-> k, status |-> s, mandatory |-> k \in job.mandatory])
    BY <1>2, Zenon DEF R!RunStep
  <2>0. (k \in job.mandatory) \in BOOLEAN
    OBVIOUS
  <2>3. PICK row : row = [id |-> k, status |-> s, mandatory |-> k \in job.mandatory]
    BY Zenon
  <2>4. row \in Rows /\ row.id = k /\ (row.mandatory <=> k \in job.mandatory) /\ results' = Append(results, row)
    BY <2>0, <2>2, <2>3, Zenon DEF Rows, R!Pending
  <2>5. /\ results' \in Seq(Rows) /\ DOMAIN results = 1..Len(results) /\ DOMAIN results' = 1..(Len(results) + 1)
        /\ Len(results) \in Nat
        /\ \A i \in 1..Len(results) : results'[i] = results[i]
        /\ results'[Len(results) + 1] = row
    BY <2>4, AppendProperties, LenProperties, SMTT(60) DEF ReportInv
  <2>6. \A i \in DOMAIN results' : i \in DOMAIN results \/ i = Len(results) + 1
    BY <2>5
  <2>7. Rows' = Rows
    BY <2>1, Zenon DEF Rows
  <2>8. \A i \in DOMAIN results : results[i].id # k
    BY Zenon DEF R!Pending
  <2>9. \A i \in DOMAIN results' : results'[i].mandatory <=> results'[i].id \in job.mandatory
    <3>1. \A i \in DOMAIN results : results'[i].mandatory <=> results'[i].id \in job.mandatory
      BY <2>5, Zenon DEF ReportInv
    <3> QED
      BY <2>4, <2>5, <2>6, <3>1, Zenon
  <2>10. \A i, j \in DOMAIN results' : results'[i].id = results'[j].id => i = j
    <3>1. \A i, j \in DOMAIN results : results'[i].id = results'[j].id => i = j
      BY <2>5, Zenon DEF ReportInv
    <3>2. \A i \in DOMAIN results : results'[i].id # results'[Len(results) + 1].id
      BY <2>4, <2>5, <2>8, Zenon
    <3> QED
      BY <2>6, <3>1, <3>2, Zenon
  <2>11. R!StepsOfJob' = R!StepsOfJob
    BY <2>1, ZenonT(60) DEF R!StepsOfJob
  <2> QED
    BY <2>1, <2>5, <2>7, <2>9, <2>10, <2>11, ZenonT(60) DEF ReportInv
\* What the last three steps leave alone.
<1>3. ASSUME UNCHANGED <<job, selected, results>>, pc' # "planning",
             pc' \in {"attaching", "reading", "read"} => AllReported' /\ Built',
             pc' = "read" => \E policy \in R!Policies \ {R!NoPolicy}, kept \in BOOLEAN : ReadBy(policy, kept)'
      PROVE  ReportInv'
  <2>1. Rows' = Rows /\ R!StepsOfJob' = R!StepsOfJob
    BY <1>3, ZenonT(60) DEF Rows, R!StepsOfJob
  <2> QED
    BY <1>3, <2>1, Zenon DEF ReportInv
<1>4. ASSUME UNCHANGED <<job, selected, results>> PROVE Eligibility' = Eligibility /\ (AllReported => AllReported')
  <2>1. R!DeselectedMandatory' = R!DeselectedMandatory
    BY <1>4, Zenon DEF R!DeselectedMandatory
  <2> QED
    BY <1>4, <2>1, Zenon DEF Eligibility, AllReported
<1>5. CASE R!Build
  <2>1. UNCHANGED <<job, selected, results>> /\ pc' = "attaching" /\ R!Pending = {}
    BY <1>5, Zenon DEF R!Build
  <2>2. AllReported
    BY <2>1, Zenon DEF AllReported, R!Pending
  <2>3. report' = [form |-> "whole", version |-> job.version, status |-> R!run_status(results), steps |-> results,
                   summary |-> R!summary(results), plan |-> R!PlanSummary, catalogue |-> job.kind, mode |-> "none",
                   traceGroups |-> R!trace_groups(job.cases, results), eligibility |-> Eligibility]
    BY <1>5, Zenon DEF R!Build, Eligibility
  <2>4. /\ DOMAIN report' = Fields
        /\ report'.version = job.version /\ report'.status = R!run_status(results) /\ report'.steps = results
        /\ report'.summary = R!summary(results) /\ report'.catalogue = job.kind
        /\ report'.traceGroups = R!trace_groups(job.cases, results)
        /\ report'.eligibility = Eligibility
    BY <2>3 DEF Fields
  <2>5. Built'
    BY <1>4, <2>1, <2>4, Zenon DEF Built
  <2> QED
    BY <1>3, <1>4, <2>1, <2>2, <2>5, ZenonT(60)
<1>6. CASE R!AttachPlanEvidence
  <2>1. UNCHANGED <<job, selected, results>> /\ pc = "attaching" /\ pc' = "reading"
    BY <1>6, Zenon DEF R!AttachPlanEvidence
  <2>2. AllReported /\ Built
    BY <2>1, Zenon DEF ReportInv
  <2>3. CASE ~job.development
    <3>1. report' = report
      BY <1>6, <2>3, Zenon DEF R!AttachPlanEvidence
    <3>2. Built'
      BY <1>4, <2>1, <2>2, <3>1, ZenonT(60) DEF Built
    <3> QED
      BY <1>3, <1>4, <2>1, <2>2, <3>2, Zenon
  <2>4. CASE job.development
    <3>1. job.kind # "manifest"
      BY <2>4, JobsAssumption, Zenon DEF ReportInv
    <3>2. PICK e : report' = [report EXCEPT !.mode = "development", !.eligibility = e]
      BY <1>6, <2>4, Zenon DEF R!AttachPlanEvidence
    <3>3. DOMAIN report' = DOMAIN report /\ \A f \in Fields \ {"mode", "eligibility"} : report'[f] = report[f]
      BY <2>2, <3>2, Zenon DEF Built
    <3>4. Built'
      BY <2>1, <2>2, <3>1, <3>3, ZenonT(60) DEF Built, Fields
    <3> QED
      BY <1>3, <1>4, <2>1, <2>2, <3>4, Zenon
  <2> QED
    BY <2>3, <2>4, Zenon
<1>7. CASE R!Read
  <2>1. UNCHANGED <<job, selected, results>> /\ pc = "reading" /\ pc' = "read"
    BY <1>7, Zenon DEF R!Read
  <2>2. AllReported /\ Built
    BY <2>1, Zenon DEF ReportInv
  <2>3. PICK form \in R!Forms, policy \in R!Policies \ {R!NoPolicy}, kept \in BOOLEAN :
            /\ report' = [report EXCEPT !.form = form]
            /\ reading' = [policy |-> policy, gate |-> R!gate_run(report'),
                           certification |-> R!certification_run(report', job.mandatory, policy, job.coverage, kept)]
    BY <1>7, Zenon DEF R!Read
  <2>4. DOMAIN report' = DOMAIN report /\ \A f \in Fields \ {"form"} : report'[f] = report[f]
    BY <2>2, <2>3, SMTT(60) DEF Built
  <2>5. Built'
    BY <1>4, <2>1, <2>2, <2>4, Zenon DEF Built, Fields
  <2>6. ReadBy(policy, kept)'
    BY <2>1, <2>3, Zenon DEF ReadBy
  <2> QED
    BY <1>3, <1>4, <2>1, <2>2, <2>5, <2>6, ZenonT(60)
<1> QED
  BY <1>1, <1>2, <1>5, <1>6, <1>7, ZenonT(60) DEF R!Next

\* The verdicts of the three readers.
Reasons == {"deselected", "failed", "skipped", "none_mandatory", "coverage", "overridden", "version", "no_policy"}

LEMMA OneIsSome == ASSUME NEW S, NEW reason \in S PROVE <<reason>> \in Seq(S) /\ <<reason>> # <<>> /\ <<>> \in Seq(S)
BY SMT

LEMMA ConcatenationIsEmpty ==
    ASSUME NEW S, NEW s \in Seq(S), NEW t \in Seq(S)
    PROVE  s \o t \in Seq(S) /\ (s \o t = <<>> <=> s = <<>> /\ t = <<>>)
BY ConcatProperties, EmptySeq, LenProperties, SMTT(60)

LEMMA SameCardinality == ASSUME NEW T PROVE R!Cardinality(T) = Cardinality(T)
BY DEF R!Cardinality, Cardinality

\* A set of places in the results is empty when its number is zero.
LEMMA NoneOf ==
    ASSUME NEW S, NEW s \in Seq(S), NEW T, T \subseteq DOMAIN s
    PROVE  R!Cardinality(T) \in Nat /\ (R!Cardinality(T) = 0 <=> T = {}) /\ (R!Cardinality(T) > 0 <=> T # {})
<1>1. DOMAIN s = 1..Len(s) /\ Len(s) \in Nat
  BY LenProperties
<1>2. IsFiniteSet(1..Len(s))
  BY <1>1, FS_Interval
<1>3. IsFiniteSet(T)
  BY <1>1, <1>2, FS_Subset
<1>4. R!Cardinality(T) \in Nat /\ (R!Cardinality(T) = 0 <=> T = {})
  BY <1>3, FS_CardinalityType, FS_EmptySet, SameCardinality, SMTT(60)
<1> QED
  BY <1>4

\* A report calls itself eligible when nothing blocks it.
Unblocked(s, d, policy, version, coverage, overridden) ==
    /\ d = {}
    /\ \A i \in DOMAIN s : s[i].mandatory => s[i].status \notin {"failed", "skipped"}
    /\ \E i \in DOMAIN s : s[i].mandatory
    /\ coverage = "complete" /\ ~overridden
    /\ policy.supplied /\ version \in policy.approved

LEMMA EligibleIs ==
    ASSUME NEW S, NEW s \in Seq(S), NEW d, NEW policy, NEW version, NEW coverage, NEW overridden
    PROVE  R!build_eligibility(s, d, policy, version, coverage, overridden).eligible <=>
               Unblocked(s, d, policy, version, coverage, overridden)
<1> DEFINE count == [x \in R!Statuses |-> R!MandatoryOf(s, x)]
           mandatory == {i \in DOMAIN s : s[i].mandatory}
           total == R!Cardinality(mandatory) + R!Cardinality(d)
           b1 == R!Blocked(d # {}, "deselected")
           b2 == R!Blocked(count["failed"] > 0, "failed")
           b3 == R!Blocked(count["skipped"] > 0, "skipped")
           b4 == R!Blocked(total = 0, "none_mandatory")
           b5 == R!Blocked(coverage # "complete", "coverage")
           b6 == R!Blocked(overridden, "overridden")
           b7 == R!Blocked(policy.supplied /\ ~R!is_tool_version_approved(policy, version), "version")
           b8 == R!Blocked(~policy.supplied, "no_policy")
           all == b1 \o b2 \o b3 \o b4 \o b5 \o b6 \o b7 \o b8
<1>1. R!build_eligibility(s, d, policy, version, coverage, overridden).eligible <=> all = <<>>
  <2> DEFINE block == [eligible |-> all = <<>>, count |-> count, deselected |-> R!Cardinality(d), total |-> total,
                       reason |-> IF all = <<>> THEN "none" ELSE all[1], reasons |-> all]
  <2>1. R!build_eligibility(s, d, policy, version, coverage, overridden) = block
    BY Zenon DEF R!build_eligibility
  <2> HIDE DEF all
  <2>2. block.eligible <=> all = <<>>
    BY Zenon
  <2> QED
    BY <2>1, <2>2, Zenon
<1>0. /\ \A r \in Reasons : <<r>> \in Seq(Reasons) /\ <<r>> # <<>>
      /\ <<>> \in Seq(Reasons)
  BY OneIsSome, Zenon DEF Reasons
<1>2. /\ b1 \in Seq(Reasons) /\ (b1 = <<>> <=> d = {})
      /\ b5 \in Seq(Reasons) /\ (b5 = <<>> <=> coverage = "complete")
      /\ b6 \in Seq(Reasons) /\ (b6 = <<>> <=> ~overridden)
  BY <1>0, Zenon DEF R!Blocked, Reasons
<1>3. /\ b7 \in Seq(Reasons) /\ (b7 = <<>> <=> ~(policy.supplied /\ ~R!is_tool_version_approved(policy, version)))
      /\ b8 \in Seq(Reasons) /\ (b8 = <<>> <=> policy.supplied)
  BY <1>0, Zenon DEF R!Blocked, Reasons
<1>4. /\ count["failed"] = R!Cardinality({i \in DOMAIN s : s[i].mandatory /\ s[i].status = "failed"})
      /\ count["skipped"] = R!Cardinality({i \in DOMAIN s : s[i].mandatory /\ s[i].status = "skipped"})
  BY Zenon DEF R!MandatoryOf, R!Statuses
<1> HIDE DEF count
<1>5. /\ b2 \in Seq(Reasons) /\ (b2 = <<>> <=> ~(count["failed"] > 0))
      /\ b3 \in Seq(Reasons) /\ (b3 = <<>> <=> ~(count["skipped"] > 0))
      /\ b4 \in Seq(Reasons) /\ (b4 = <<>> <=> total # 0)
  BY <1>0, Zenon DEF R!Blocked, Reasons
<1>6. count["failed"] > 0 <=> \E i \in DOMAIN s : s[i].mandatory /\ s[i].status = "failed"
  <2> DEFINE T == {i \in DOMAIN s : s[i].mandatory /\ s[i].status = "failed"}
  <2>1. T \subseteq DOMAIN s /\ (T # {} <=> \E i \in DOMAIN s : s[i].mandatory /\ s[i].status = "failed")
    BY Zenon
  <2>2. count["failed"] = R!Cardinality(T)
    BY <1>4, Zenon
  <2> HIDE DEF T
  <2>3. R!Cardinality(T) > 0 <=> T # {}
    BY <2>1, NoneOf, Zenon
  <2> QED
    BY <2>1, <2>2, <2>3, Zenon
<1>7. count["skipped"] > 0 <=> \E i \in DOMAIN s : s[i].mandatory /\ s[i].status = "skipped"
  <2> DEFINE T == {i \in DOMAIN s : s[i].mandatory /\ s[i].status = "skipped"}
  <2>1. T \subseteq DOMAIN s /\ (T # {} <=> \E i \in DOMAIN s : s[i].mandatory /\ s[i].status = "skipped")
    BY Zenon
  <2>2. count["skipped"] = R!Cardinality(T)
    BY <1>4, Zenon
  <2> HIDE DEF T
  <2>3. R!Cardinality(T) > 0 <=> T # {}
    BY <2>1, NoneOf, Zenon
  <2> QED
    BY <2>1, <2>2, <2>3, Zenon
<1>8. d = {} => (total = 0 <=> mandatory = {})
  <2>1. R!Cardinality(mandatory) \in Nat /\ (R!Cardinality(mandatory) = 0 <=> mandatory = {})
    BY NoneOf, Zenon
  <2>2. R!Cardinality({}) = 0
    BY FS_EmptySet, SameCardinality, SMTT(60)
  <2> HIDE DEF mandatory
  <2> QED
    BY <2>1, <2>2, SMTT(60)
<1>9. mandatory = {} <=> ~\E i \in DOMAIN s : s[i].mandatory
  BY Zenon
<1> HIDE DEF mandatory, total, b1, b2, b3, b4, b5, b6, b7, b8
<1>10. all = <<>> <=> b1 = <<>> /\ b2 = <<>> /\ b3 = <<>> /\ b4 = <<>> /\ b5 = <<>> /\ b6 = <<>> /\ b7 = <<>> /\ b8 = <<>>
  <2>0. /\ b1 \in Seq(Reasons) /\ b2 \in Seq(Reasons) /\ b3 \in Seq(Reasons) /\ b4 \in Seq(Reasons)
        /\ b5 \in Seq(Reasons) /\ b6 \in Seq(Reasons) /\ b7 \in Seq(Reasons) /\ b8 \in Seq(Reasons)
    BY <1>2, <1>3, <1>5, Zenon
  <2> DEFINE c2 == b1 \o b2
  <2>2. c2 \in Seq(Reasons) /\ (c2 = <<>> <=> b1 = <<>> /\ b2 = <<>>)
    BY <2>0, ConcatenationIsEmpty, Zenon
  <2> HIDE DEF c2
  <2> DEFINE c3 == c2 \o b3
  <2>3. c3 \in Seq(Reasons) /\ (c3 = <<>> <=> c2 = <<>> /\ b3 = <<>>)
    BY <2>0, <2>2, ConcatenationIsEmpty, ZenonT(60)
  <2> HIDE DEF c3
  <2> DEFINE c4 == c3 \o b4
  <2>4. c4 \in Seq(Reasons) /\ (c4 = <<>> <=> c3 = <<>> /\ b4 = <<>>)
    BY <2>0, <2>3, ConcatenationIsEmpty, ZenonT(60)
  <2> HIDE DEF c4
  <2> DEFINE c5 == c4 \o b5
  <2>5. c5 \in Seq(Reasons) /\ (c5 = <<>> <=> c4 = <<>> /\ b5 = <<>>)
    BY <2>0, <2>4, ConcatenationIsEmpty, ZenonT(60)
  <2> HIDE DEF c5
  <2> DEFINE c6 == c5 \o b6
  <2>6. c6 \in Seq(Reasons) /\ (c6 = <<>> <=> c5 = <<>> /\ b6 = <<>>)
    BY <2>0, <2>5, ConcatenationIsEmpty, ZenonT(60)
  <2> HIDE DEF c6
  <2> DEFINE c7 == c6 \o b7
  <2>7. c7 \in Seq(Reasons) /\ (c7 = <<>> <=> c6 = <<>> /\ b7 = <<>>)
    BY <2>0, <2>6, ConcatenationIsEmpty, ZenonT(60)
  <2>8. c7 \o b8 = <<>> <=> c7 = <<>> /\ b8 = <<>>
    BY <2>0, <2>7, ConcatenationIsEmpty, ZenonT(60)
  <2>9. all = c7 \o b8
    BY Zenon DEF c2, c3, c4, c5, c6
  <2> HIDE DEF all, c7
  <2> QED
    BY <2>2, <2>3, <2>4, <2>5, <2>6, <2>7, <2>8, <2>9, ZenonT(60)
<1> QED
  BY <1>1, <1>2, <1>3, <1>5, <1>6, <1>7, <1>8, <1>9, <1>10, ZenonT(60) DEF R!is_tool_version_approved, Unblocked

\* The validator finds no fault with a step when it was reported, and not as
\* failed or skipped.
LEMMA StepIsValid ==
    ASSUME ReportInv, Built, NEW k
    PROVE  R!validate_mandatory_step(report, k) = "none" <=>
               \E i \in DOMAIN results : results[i].id = k /\ results[i].status \notin {"failed", "skipped"}
<1> DEFINE found == {i \in DOMAIN results : results[i].id = k}
           first == CHOOSE i \in found : TRUE
<1>1. report.steps = results
  BY Zenon DEF Built
<1>2. R!validate_mandatory_step(report, k) =
          IF found = {} THEN "missing"
          ELSE IF results[first].status \in {"failed", "skipped"} THEN results[first].status ELSE "none"
  BY <1>1, Zenon DEF R!validate_mandatory_step
<1>3. found # {} => first \in found
  BY Zenon
<1>4. \A i, j \in found : i = j
  BY Zenon DEF ReportInv
<1>5. \A i : i \in found <=> i \in DOMAIN results /\ results[i].id = k
  BY Zenon
<1> HIDE DEF found, first
<1>6. CASE found = {}
  <2>1. R!validate_mandatory_step(report, k) = "missing"
    BY <1>2, <1>6, Zenon
  <2> QED
    BY <1>5, <1>6, <2>1, Zenon
<1>7. CASE found # {}
  <2>1. first \in DOMAIN results /\ results[first].id = k
    BY <1>3, <1>5, <1>7, Zenon
  <2>2. R!validate_mandatory_step(report, k) = "none" <=> results[first].status \notin {"failed", "skipped"}
    BY <1>2, <1>7, Zenon
  <2> QED
    BY <1>3, <1>4, <1>5, <1>7, <2>1, <2>2, ZenonT(60)
<1> QED
  BY <1>6, <1>7, Zenon

LEMMA ValidatorAgrees == ReportInv => R!EligibleReportsValidate
<1> SUFFICES ASSUME ReportInv, R!Whole, job.kind = "manifest", job.policy = reading.policy, reading.certification # 3
             PROVE  report.eligibility.eligible <=> reading.certification = 0
  BY Zenon DEF R!EligibleReportsValidate
<1>1. pc = "read" /\ report.form = "whole" /\ AllReported /\ Built
  BY Zenon DEF R!Whole, ReportInv
<1>2. PICK policy \in R!Policies \ {R!NoPolicy}, kept \in BOOLEAN : ReadBy(policy, kept)
  BY <1>1, Zenon DEF ReportInv
<1>3. /\ job.policy = policy
      /\ reading.certification = R!certification_run(report, job.mandatory, policy, job.coverage, kept)
  BY <1>2, Zenon DEF ReadBy
<1>4. policy.supplied = TRUE
  BY <1>2, Zenon DEF R!Policies
<1>5. R!parses(report)
  <2>1. report.steps = results
    BY <1>1, Zenon DEF Built
  <2> QED
    BY <1>1, <2>1, Zenon DEF R!parses, ReportInv
<1> DEFINE reasons == R!validation_reasons(report, job.mandatory, policy, job.coverage)
<1>6. reading.certification = 0 <=> job.mandatory # {} /\ reasons = {}
  <2>1. CASE job.mandatory = {}
    <3>1. reading.certification = 2
      BY <1>3, <2>1, Zenon DEF R!certification_run
    <3> QED
      BY <2>1, <3>1, SMTT(60)
  <2>2. CASE job.mandatory # {}
    <3>1. CASE ~kept
      BY <1>3, <1>5, <2>2, <3>1, ZenonT(60) DEF R!certification_run
    <3>2. CASE kept
      <4>1. reading.certification = IF reasons = {} THEN 0 ELSE 1
        BY <1>3, <1>5, <2>2, <3>2, ZenonT(60) DEF R!certification_run
      <4> HIDE DEF reasons
      <4> QED
        BY <2>2, <4>1, SMTT(60)
    <3> QED
      BY <3>1, <3>2, Zenon
  <2> QED
    BY <2>1, <2>2, Zenon
<1>7. reasons = {} <=> /\ \A k \in job.mandatory : R!validate_mandatory_step(report, k) = "none"
                       /\ job.version \in policy.approved
                       /\ job.coverage = "complete"
  <2>1. report.version = job.version
    BY <1>1, Zenon DEF Built
  <2> QED
    BY <2>1, Zenon DEF R!validation_reasons, R!is_tool_version_approved
<1> HIDE DEF reasons
<1>8. \A k : R!validate_mandatory_step(report, k) = "none" <=>
          \E i \in DOMAIN results : results[i].id = k /\ results[i].status \notin {"failed", "skipped"}
  BY <1>1, StepIsValid, Zenon
<1>9. report.eligibility.eligible <=>
          /\ job.mandatory \ selected = {}
          /\ \A i \in DOMAIN results : results[i].mandatory => results[i].status \notin {"failed", "skipped"}
          /\ \E i \in DOMAIN results : results[i].mandatory
          /\ job.coverage = "complete" /\ job.version \in policy.approved
  <2>1. report.eligibility.eligible = Eligibility.eligible
    BY <1>1, Zenon DEF Built
  <2>2. R!DeselectedMandatory = job.mandatory \ selected
    BY Zenon DEF R!DeselectedMandatory
  <2>3. ~job.overridden
    BY JobsAssumption, Zenon DEF ReportInv
  <2>4. results \in Seq(Rows)
    BY Zenon DEF ReportInv
  <2>5. Eligibility.eligible <=>
            Unblocked(results, R!DeselectedMandatory, job.policy, job.version, job.coverage, job.overridden)
    BY <2>4, EligibleIs, Zenon DEF Eligibility
  <2> QED
    BY <1>3, <1>4, <2>1, <2>2, <2>3, <2>5, ZenonT(60) DEF Unblocked
<1>10. \A i \in DOMAIN results : results[i].id \in selected /\ (results[i].mandatory <=> results[i].id \in job.mandatory)
  <2>0. results \in Seq(Rows)
    BY Zenon DEF ReportInv
  <2>1. \A i \in DOMAIN results : results[i] \in Rows
    BY <2>0, ElementOfSeq, LenProperties, SMTT(60)
  <2> QED
    BY <2>1, ZenonT(60) DEF Rows, ReportInv
<1>11. \A i, j \in DOMAIN results : results[i].id = results[j].id => i = j
  BY Zenon DEF ReportInv
<1>12. \A k \in selected : \E i \in DOMAIN results : results[i].id = k
  BY <1>1, Zenon DEF AllReported
<1>13. ASSUME report.eligibility.eligible PROVE reading.certification = 0
  <2>1. ASSUME NEW k \in job.mandatory
        PROVE  \E i \in DOMAIN results : results[i].id = k /\ results[i].status \notin {"failed", "skipped"}
    <3>1. k \in selected
      BY <1>9, <1>13, Zenon
    <3>2. PICK i \in DOMAIN results : results[i].id = k
      BY <1>12, <3>1, Zenon
    <3>3. results[i].mandatory
      BY <1>10, <3>2, Zenon
    <3> QED
      BY <1>9, <1>13, <3>2, <3>3, ZenonT(60)
  <2>2. job.mandatory # {}
    BY <1>9, <1>10, <1>13, ZenonT(60)
  <2> QED
    BY <1>6, <1>7, <1>8, <1>9, <1>13, <2>1, <2>2, ZenonT(60)
<1>14. ASSUME reading.certification = 0 PROVE report.eligibility.eligible
  <2>1. \A k \in job.mandatory : \E i \in DOMAIN results : results[i].id = k /\ results[i].status \notin {"failed", "skipped"}
    BY <1>6, <1>7, <1>8, <1>14, ZenonT(60)
  <2>2. job.mandatory \ selected = {}
    <3>1. ASSUME NEW k \in job.mandatory PROVE k \in selected
      <4>1. PICK i \in DOMAIN results : results[i].id = k
        BY <2>1, Zenon
      <4> QED
        BY <1>10, <4>1, Zenon
    <3> QED
      BY <3>1, Zenon
  <2>3. ASSUME NEW i \in DOMAIN results, results[i].mandatory PROVE results[i].status \notin {"failed", "skipped"}
    <3>1. results[i].id \in job.mandatory
      BY <1>10, <2>3, Zenon
    <3>2. PICK j \in DOMAIN results : results[j].id = results[i].id /\ results[j].status \notin {"failed", "skipped"}
      BY <2>1, <3>1, Zenon
    <3>3. j = i
      BY <1>11, <3>2, Zenon
    <3> QED
      BY <3>2, <3>3, Zenon
  <2>4. \E i \in DOMAIN results : results[i].mandatory
    <3>1. PICK k : k \in job.mandatory
      BY <1>6, <1>14, Zenon
    <3>2. PICK i \in DOMAIN results : results[i].id = k
      BY <2>1, <3>1, Zenon
    <3> QED
      BY <1>10, <3>1, <3>2, ZenonT(60)
  <2> QED
    BY <1>6, <1>7, <1>9, <1>14, <2>2, <2>3, <2>4, ZenonT(60)
<1> QED
  BY <1>13, <1>14, Zenon

LEMMA FailedAggregate == ASSUME NEW S PROVE R!aggregate_trace_status(S) = "failed" <=> "failed" \in S
BY DEF R!aggregate_trace_status

\* Nothing in the trace of a run without a failed step is failed.
LEMMA TraceHasNoFailure ==
    ASSUME ReportInv, \A i \in DOMAIN results : results[i].status # "failed",
           NEW g \in DOMAIN R!trace_groups(job.cases, results)
    PROVE  LET group == R!trace_groups(job.cases, results)[g]
           IN  group.status # "failed" /\ ~R!reject_failed_trace_cases(group)
<1> DEFINE members == {c \in DOMAIN job.cases : job.cases[c].group = g}
           rendered == [c \in members |-> R!trace_case(job.cases[c], results)]
           aggregate == R!aggregate_trace_status({rendered[c].status : c \in members})
           group == R!trace_groups(job.cases, results)[g]
<1>1. group = [cases |-> rendered, status |-> aggregate, skipReason |-> R!NotSelected(aggregate = "skipped")]
  BY Zenon DEF R!trace_groups, R!trace_group
<1> HIDE DEF group, aggregate, rendered
<1>2. group.cases = rendered /\ group.status = aggregate
  BY <1>1, Zenon
<1>3. ASSUME NEW k PROVE R!StatusIn(results, k) # "failed"
  <2> DEFINE found == {i \in DOMAIN results : results[i].id = k}
             last == CHOOSE i \in found : \A j \in found : j <= i
  <2>1. R!StatusIn(results, k) = IF found = {} THEN "skipped" ELSE results[last].status
    BY Zenon DEF R!StatusIn
  <2>2. \A i, j \in found : i = j
    BY Zenon DEF ReportInv
  <2>3. found \subseteq DOMAIN results /\ found \subseteq Nat
    BY LenProperties, SMTT(60) DEF ReportInv
  <2> HIDE DEF found
  <2>4. found # {} => \E i \in found : \A j \in found : j <= i
    BY <2>2, <2>3, SMTT(60)
  <2>5. found # {} => last \in found
    BY <2>4, Zenon
  <2> HIDE DEF last
  <2> QED
    BY <2>1, <2>3, <2>5, ZenonT(60)
<1>4. ASSUME NEW c \in members
      PROVE  /\ rendered[c].status # "failed"
             /\ \A k \in DOMAIN rendered[c].steps : rendered[c].steps[k] # "failed"
  <2> DEFINE case == job.cases[c]
             shown == [k \in case.steps |-> IF case.selected THEN R!StatusIn(results, k) ELSE "skipped"]
             verdict == R!aggregate_trace_status({shown[k] : k \in case.steps})
  <2> USE DEF rendered
  <2>1. PICK reason : rendered[c] = [steps |-> shown, skipReason |-> reason, status |-> verdict]
    BY Zenon DEF R!trace_case
  <2>3. DOMAIN shown = case.steps /\ \A k \in case.steps : shown[k] # "failed"
    BY <1>3, ZenonT(60)
  <2> HIDE DEF rendered, shown, verdict
  <2>2. rendered[c].steps = shown /\ rendered[c].status = verdict
    BY <2>1
  <2>4. "failed" \notin {shown[k] : k \in case.steps}
    BY <2>3, Zenon
  <2> QED
    BY <2>2, <2>3, <2>4, FailedAggregate, ZenonT(60) DEF verdict
<1>5. DOMAIN rendered = members
  BY Zenon DEF rendered
<1>6. "failed" \notin {rendered[c].status : c \in members}
  BY <1>4, Zenon
<1>7. aggregate # "failed"
  BY <1>6, FailedAggregate, Zenon DEF aggregate
<1> HIDE DEF members
<1>8. ~R!reject_failed_trace_cases(group)
  BY <1>2, <1>4, <1>5, ZenonT(60) DEF R!reject_failed_trace_cases
<1>9. group.status # "failed"
  BY <1>2, <1>7, Zenon
<1> QED
  BY <1>8, <1>9, Zenon DEF group

LEMMA GateVerdict == ReportInv => R!GateAgreesWithTheRun
<1> SUFFICES ASSUME ReportInv, R!Whole
             PROVE  reading.gate = 0 <=> report.status = "passed" /\ report.steps # <<>>
  BY Zenon DEF R!GateAgreesWithTheRun
<1>1. pc = "read" /\ report.form = "whole" /\ Built
  BY Zenon DEF R!Whole, ReportInv
<1>2. reading.gate = R!gate_run(report)
  <2>1. PICK policy \in R!Policies \ {R!NoPolicy}, kept \in BOOLEAN : ReadBy(policy, kept)
    BY <1>1, Zenon DEF ReportInv
  <2> QED
    BY <2>1, Zenon DEF ReadBy
<1>3. R!gate_run(report) = 0 <=> R!gate_accepts(report)
  <2>1. report.form \notin {"unreadable", "not_json"}
    BY <1>1, Zenon
  <2>2. R!gate_accepts(report) => R!gate_run(report) = 0
    BY <2>1, Zenon DEF R!gate_run
  <2>3. ~R!gate_accepts(report) => R!gate_run(report) = 1
    BY <2>1, Zenon DEF R!gate_run
  <2> QED
    BY <2>2, <2>3, SMTT(60)
<1>4. R!gate_accepts(report) => report.status = "passed" /\ report.steps # <<>>
  BY Zenon DEF R!gate_accepts
<1>5. ASSUME report.status = "passed", report.steps # <<>> PROVE R!gate_accepts(report)
  <2>1. /\ report.steps = results /\ report.summary = R!summary(results) /\ report.catalogue = job.kind
        /\ report.traceGroups = R!trace_groups(job.cases, results) /\ R!run_status(results) = "passed"
    BY <1>1, <1>5, Zenon DEF Built
  <2>2. \A i \in DOMAIN results : results[i].status \in {"passed", "warn"}
    BY <2>1, Zenon DEF R!run_status
  <2>3. \A i \in DOMAIN results : results[i].status # "failed"
    BY <2>2, Zenon
  <2>4. report.summary["failed"] = 0
    <3>1. R!summary(results)["failed"] = R!Cardinality({i \in DOMAIN results : results[i].status = "failed"})
      BY Zenon DEF R!summary, R!Statuses
    <3>2. {i \in DOMAIN results : results[i].status = "failed"} = {}
      BY <2>3, Zenon
    <3>3. R!Cardinality({}) = 0
      BY FS_EmptySet, SameCardinality, SMTT(60)
    <3> QED
      BY <2>1, <3>1, <3>2, <3>3, ZenonT(60)
  <2>5. \A g \in DOMAIN report.traceGroups :
            report.traceGroups[g].status # "failed" /\ ~R!reject_failed_trace_cases(report.traceGroups[g])
    BY <2>1, <2>3, TraceHasNoFailure, ZenonT(60)
  <2>6. ASSUME report.catalogue = "dcr"
        PROVE  \E g \in DOMAIN report.traceGroups : report.traceGroups[g].cases # <<>>
    <3>1. results \in Seq(Rows) /\ results # <<>>
      BY <1>5, <2>1, Zenon DEF ReportInv
    <3>2. results[1] \in Rows
      BY <3>1
    <3>3. results[1].id \in R!StepsOfJob
      BY <2>1, <2>6, <3>2, Zenon DEF Rows, ReportInv
    <3>4. PICK c \in DOMAIN job.cases : job.cases[c].selected
      BY <2>1, <2>6, <3>3, Zenon DEF R!StepsOfJob
    <3> DEFINE g == job.cases[c].group
               members == {d \in DOMAIN job.cases : job.cases[d].group = g}
    <3>5. g \in DOMAIN R!trace_groups(job.cases, results) /\ c \in members
      BY Zenon DEF R!trace_groups
    <3>6. R!trace_groups(job.cases, results)[g] = R!trace_group(job.cases, g, results)
      BY Zenon DEF R!trace_groups
    <3>7. DOMAIN R!trace_group(job.cases, g, results).cases = members
      BY Zenon DEF R!trace_group
    <3> HIDE DEF members
    <3>8. R!trace_group(job.cases, g, results).cases # <<>>
      BY <3>5, <3>7, SMTT(60)
    <3> QED
      BY <2>1, <3>5, <3>6, <3>8, ZenonT(60)
  <2> QED
    BY <1>1, <1>5, <2>1, <2>3, <2>4, <2>5, <2>6, ZenonT(60) DEF R!gate_accepts
<1> QED
  BY <1>2, <1>3, <1>4, <1>5, ZenonT(60)

\* What is true of a behaviour that follows the report.
LEMMA ReportsKeep == MCSpec => [](program = "report" => ReportInv)
<1> DEFINE Inv == program = "report" => ReportInv
<1>1. MCInit => Inv
  BY InitReport, SMTT(60) DEF MCInit
<1>2. Inv /\ [MCNext]_mcVars => Inv'
  <2> SUFFICES ASSUME Inv, [MCNext]_mcVars, program' = "report" PROVE ReportInv'
    BY Zenon
  <2>1. CASE MCNext
    <3>1. program = "report" /\ R!Next
      BY <2>1, SMTT(60) DEF MCNext
    <3> QED
      BY <3>1, ReportStep, ZenonT(60)
  <2>2. CASE UNCHANGED mcVars
    <3>1. UNCHANGED <<program, pc, job, selected, results, report, reading>>
      BY <2>2, Zenon DEF mcVars, reportVars
    <3>2. /\ Rows' = Rows /\ R!StepsOfJob' = R!StepsOfJob /\ R!DeselectedMandatory' = R!DeselectedMandatory
      BY <3>1, ZenonT(60) DEF Rows, R!StepsOfJob, R!DeselectedMandatory
    <3>3. Eligibility' = Eligibility
      BY <3>1, <3>2, Zenon DEF Eligibility
    <3>4. AllReported' = AllReported /\ Built' = Built /\ \A policy, kept : ReadBy(policy, kept)' = ReadBy(policy, kept)
      BY <3>1, <3>3, Zenon DEF AllReported, Built, ReadBy
    <3> QED
      BY <3>1, <3>2, <3>4, ZenonT(60) DEF ReportInv
  <2> QED
    BY <2>1, <2>2, Zenon
<1> QED
  BY <1>1, <1>2, PTL DEF MCSpec, mcVars

\* The report of a manifest run calls itself eligible exactly when the
\* validator of submitted reports accepts it with the same manifest and policy,
\* for any steps, versions and policies (_build_eligibility, validate_report).
THEOREM EligibleIsCertified == MCSpec => []ReportsValidate
<1>1. (program = "report" => ReportInv) => ReportsValidate
  BY ValidatorAgrees, Zenon DEF ReportsValidate
<1> QED
  BY <1>1, ReportsKeep, PTL

\* The gate, which looks at steps, groups, cases and their steps, accepts a
\* whole report exactly when the run passed and had a step (result_gate.py).
THEOREM GateIsRight == MCSpec => []GateAgrees
<1>1. (program = "report" => ReportInv) => GateAgrees
  BY GateVerdict, Zenon DEF GateAgrees
<1> QED
  BY <1>1, ReportsKeep, PTL
=============================================================================
