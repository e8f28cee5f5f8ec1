---------------------------- MODULE ExecutionLog ----------------------------
(***************************************************************************)
(* The execution log of a run (BufferedExecutionLogger) and the artifacts  *)
(* a run leaves on disk (_persist_configured_artifacts).                   *)
(*                                                                         *)
(* The engine's threads and the PSU callback append to the buffer of their *)
(* run; when the engine is done it writes the result file in place and     *)
(* replaces the log file.  Runs come one after the other and share the     *)
(* paths.  The disk may fail at any call and the process may be killed.    *)
(***************************************************************************)
EXTENDS Integers, Sequences, FiniteSets

CONSTANTS
    Workers,     \* the engine's threads
    Callback,    \* the thread of the callback request
    MaxRuns,     \* bound: runs
    MaxEvents,   \* bound: events of one run
    MaxCrashes   \* bound: kills

ASSUME LogAssumption == MaxRuns \in Nat /\ Callback \notin Workers

VARIABLES
    run,         \* the newest run
    status,      \* what its record says, or that the record is lost
    pc,          \* where the engine is
    buffer,      \* of each run: its events, by thread and timestamp
    emitting,    \* of each thread: the run and the event it is about to append
    clock,
    snapshot, written, \* flush_to_path: the events to write, and how many are
    resultFile,  \* [run, whole]
    logFile,     \* [run, events]
    crashes

vars == <<run, status, pc, buffer, emitting, clock, snapshot, written, resultFile, logFile, crashes>>

artifacts == <<resultFile, logFile>>

Threads == Workers \union {Callback}

Idle == [run |-> 0, stage |-> "idle", stamp |-> 0]

Runs == 1..MaxRuns

Init ==
    /\ run = 0 /\ status = [r \in Runs |-> "none"] /\ pc = "idle"
    /\ buffer = [r \in Runs |-> <<>>]
    /\ emitting = [t \in Threads |-> Idle]
    /\ clock = 0
    /\ snapshot = <<>> /\ written = 0
    /\ resultFile = [run |-> 0, whole |-> TRUE] /\ logFile = [run |-> 0, events |-> <<>>]
    /\ crashes = 0

\* A run is created only when no other one is active.
StartRun ==
    /\ pc = "idle" /\ run < MaxRuns
    /\ run' = run + 1
    /\ status' = [status EXCEPT ![run + 1] = "running"]
    /\ pc' = "running"
    /\ UNCHANGED <<buffer, emitting, clock, snapshot, written, artifacts, crashes>>

-----------------------------------------------------------------------------
(* emit: the timestamp is taken before the lock.                           *)

Room(r) == Len(buffer[r]) + Cardinality({t \in Threads : emitting[t].run = r}) < MaxEvents

Stamped(t, r) ==
    /\ emitting' = [emitting EXCEPT ![t] = [run |-> r, stage |-> "stamped", stamp |-> clock + 1]]
    /\ clock' = clock + 1

Emit(t) ==
    /\ pc = "running" /\ emitting[t] = Idle /\ Room(run)
    /\ Stamped(t, run)
    /\ UNCHANGED <<run, status, pc, buffer, snapshot, written, artifacts, crashes>>

Append_(t) ==
    /\ emitting[t].stage = "stamped"
    /\ buffer' = [buffer EXCEPT ![emitting[t].run] = Append(@, [by |-> t, stamp |-> emitting[t].stamp])]
    /\ emitting' = [emitting EXCEPT ![t] = Idle]
    /\ UNCHANGED <<run, status, pc, clock, snapshot, written, artifacts, crashes>>

\* callback_view captures the code of a session, which lives until the sweep at
\* the end of its run, and appends the event afterwards.  So does
\* register_auth_session when it has found its run active.
Capture ==
    /\ pc # "idle" /\ emitting[Callback] = Idle /\ Room(run)
    /\ emitting' = [emitting EXCEPT ![Callback] = [run |-> run, stage |-> "captured", stamp |-> 0]]
    /\ UNCHANGED <<run, status, pc, buffer, clock, snapshot, written, artifacts, crashes>>

EmitCallback ==
    /\ emitting[Callback].stage = "captured"
    /\ Stamped(Callback, emitting[Callback].run)
    /\ UNCHANGED <<run, status, pc, buffer, snapshot, written, artifacts, crashes>>

-----------------------------------------------------------------------------
(* The end of a run.                                                       *)

Ends(final) == pc' = "idle" /\ status' = [status EXCEPT ![run] = final]

\* The plan has been executed and its threads were joined.
EngineDone ==
    /\ pc = "running" /\ \A t \in Workers : emitting[t] = Idle
    /\ pc' = "result"
    /\ UNCHANGED <<run, status, buffer, emitting, clock, snapshot, written, artifacts, crashes>>

\* An exception of the engine: nothing is written.
EngineFails ==
    /\ pc = "running" /\ \A t \in Workers : emitting[t] = Idle
    /\ Ends("failed")
    /\ UNCHANGED <<run, buffer, emitting, clock, snapshot, written, artifacts, crashes>>

\* write_text empties the file and then writes it.
OpenResult ==
    /\ pc = "result"
    /\ resultFile' = [run |-> run, whole |-> FALSE] /\ pc' = "writing"
    /\ UNCHANGED <<run, status, buffer, emitting, clock, snapshot, written, logFile, crashes>>

WriteResult ==
    /\ pc = "writing"
    /\ resultFile' = [resultFile EXCEPT !.whole = TRUE] /\ pc' = "flush"
    /\ UNCHANGED <<run, status, buffer, emitting, clock, snapshot, written, logFile, crashes>>

\* flush_to_path: the temporary file is open and the buffer is copied.
TakeSnapshot ==
    /\ pc = "flush"
    /\ snapshot' = buffer[run] /\ written' = 0 /\ pc' = "lines"
    /\ UNCHANGED <<run, status, buffer, emitting, clock, artifacts, crashes>>

\* Mutant of WriteLine: the lines go to the log file itself.
WriteLineInPlace ==
    /\ pc = "lines" /\ written < Len(snapshot)
    /\ written' = written + 1
    /\ logFile' = [run |-> run, events |-> SubSeq(snapshot, 1, written + 1)]
    /\ UNCHANGED <<run, status, pc, buffer, emitting, clock, snapshot, resultFile, crashes>>

WriteLine ==
    /\ pc = "lines" /\ written < Len(snapshot)
    /\ written' = written + 1
    /\ UNCHANGED <<run, status, pc, buffer, emitting, clock, snapshot, artifacts, crashes>>

Replace ==
    /\ pc = "lines" /\ written = Len(snapshot)
    /\ logFile' = [run |-> run, events |-> snapshot] /\ pc' = "mark"
    /\ UNCHANGED <<run, status, buffer, emitting, clock, snapshot, written, resultFile, crashes>>

\* Mutant of DiskFails: a log that could not be written is not the run's problem.
DiskFailsLogIgnored ==
    /\ pc \in {"result", "writing", "flush", "lines"}
    /\ IF pc \in {"flush", "lines"} THEN pc' = "mark" /\ UNCHANGED status ELSE Ends("failed")
    /\ UNCHANGED <<run, buffer, emitting, clock, snapshot, written, artifacts, crashes>>

\* Any of these calls raises OSError.
DiskFails ==
    /\ pc \in {"result", "writing", "flush", "lines"}
    /\ Ends("failed")
    /\ UNCHANGED <<run, buffer, emitting, clock, snapshot, written, artifacts, crashes>>

MarkCompleted ==
    /\ pc = "mark"
    /\ Ends("completed")
    /\ UNCHANGED <<run, buffer, emitting, clock, snapshot, written, artifacts, crashes>>

\* The process is killed and started again: records, buffers and threads are gone.
Crash ==
    /\ crashes < MaxCrashes /\ run > 0
    /\ crashes' = crashes + 1
    /\ status' = [r \in Runs |-> IF status[r] = "none" THEN "none" ELSE "lost"]
    /\ pc' = "idle" /\ emitting' = [t \in Threads |-> Idle]
    /\ UNCHANGED <<run, buffer, clock, snapshot, written, artifacts>>

Next ==
    \/ StartRun \/ EngineDone \/ EngineFails
    \/ OpenResult \/ WriteResult \/ TakeSnapshot \/ WriteLine \/ Replace \/ DiskFails \/ MarkCompleted
    \/ \E t \in Workers : Emit(t)
    \/ \E t \in Threads : Append_(t)
    \/ Capture \/ EmitCallback
    \/ Crash

Spec == Init /\ [][Next]_vars

-----------------------------------------------------------------------------
(* Properties.                                                             *)

Events == [by : Threads, stamp : Nat]

\* Every variable has its type.
TypeOK ==
    /\ run \in 0..MaxRuns
    /\ status \in [Runs -> {"none", "running", "completed", "failed", "lost"}]
    /\ pc \in {"idle", "running", "result", "writing", "flush", "lines", "mark"}
    /\ pc # "idle" => run > 0
    /\ buffer \in [Runs -> Seq(Events)]
    /\ emitting \in [Threads -> [run : 0..MaxRuns, stage : {"idle", "captured", "stamped"}, stamp : Nat]]
    /\ clock \in Nat
    /\ snapshot \in Seq(Events)
    /\ resultFile \in [run : 0..MaxRuns, whole : BOOLEAN]
    /\ logFile \in [run : 0..MaxRuns, events : Seq(Events)]

Begins(s, t) == Len(s) <= Len(t) /\ \A i \in DOMAIN s : s[i] = t[i]

\* flush_to_path: whoever reads the log file, whenever, also after a kill, sees
\* the events of one run from the first one on, and of the engine's events all:
\* the log that get_run_log serves goes on after the file with events of a
\* callback or a registration only, which came too late.
LogFileIsWhole == logFile.run > 0 =>
    /\ Begins(logFile.events, buffer[logFile.run])
    /\ \A i \in DOMAIN buffer[logFile.run] : buffer[logFile.run][i].by \in Workers => i <= Len(logFile.events)

\* _persist_configured_artifacts: a completed run has left both of its files;
\* files of two different runs, or a result file that is cut off, belong to a
\* newer run that is still at it, has failed or was killed.
ArtifactsAgree ==
    /\ run > 0 /\ status[run] = "completed" => resultFile = [run |-> run, whole |-> TRUE] /\ logFile.run = run
    /\ logFile.run <= resultFile.run
    /\ resultFile.run > logFile.run \/ ~resultFile.whole => status[resultFile.run] # "completed"
=============================================================================
