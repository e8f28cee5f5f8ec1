----------------------------- MODULE CommandLine -----------------------------
(***************************************************************************)
(* The command line (cli.py) and the model-bank smoke check that it runs   *)
(* for a configuration file (runner.py, ozone_client.py): two requests,    *)
(* the events that go with them, the artifacts and the exit code.  A run   *)
(* of a test plan is one step here (Executor, DcrAdapter).                 *)
(*                                                                         *)
(* A file holds the number of the invocation that wrote it; the files stay *)
(* from one invocation to the next.                                        *)
(***************************************************************************)
EXTENDS Naturals, Sequences

CONSTANTS MaxInvocations   \* how often the command is called

VARIABLES pc,       \* where the invocation is
          call,     \* its number
          args,     \* its arguments and what is at their paths
          log,      \* buffered events [type, step, status]
          steps,    \* StepResults [name, status]
          status,   \* of the result
          client,   \* the HTTP client: none, open, closed
          files,    \* [result, log]: who wrote them; the result is torn or whole, and says passed or not
          exit      \* exit status of the process; 9: none yet

vars == <<pc, call, args, log, steps, status, client, files, exit>>

\* A file may be one the program refuses ("bad") or not be UTF-8 ("garbled").
Arguments == [help : BOOLEAN, config : {"none", "bad", "garbled", "smoke"}, plan : {"none", "bad", "garbled", "good"},
              discovery_url : BOOLEAN, discovery_only : BOOLEAN]

NoExit == 9

Event(type, step, what) == [type |-> type, step |-> step, status |-> what]

Init ==
    /\ pc = "parse" /\ call = 1
    /\ args \in Arguments
    /\ log = <<>> /\ steps = <<>> /\ status = "none" /\ client = "none"
    /\ files = [result |-> 0, log |-> 0, torn |-> FALSE, passed |-> FALSE]
    /\ exit = NoExit

Exit(code) == pc' = "end" /\ exit' = code

\* An exception leaves the program: the interpreter ends with the status that
\* run returns for failed checks.
Uncaught == Exit(1)

\* argparse: --help prints the usage and ends; otherwise one of the two
\* arguments and not both.
Parse ==
    /\ pc = "parse"
    /\ \/ args.help /\ Exit(0)
       \/ ~args.help /\ (args.config = "none") = (args.plan = "none") /\ Exit(2)
       \/ ~args.help /\ (args.config = "none") # (args.plan = "none") /\ pc' = "load" /\ UNCHANGED exit
    /\ UNCHANGED <<call, args, log, steps, status, client, files>>

\* prepare_test_plan_for_run or load_model_bank_config.  A file that cannot
\* be decoded raises what neither handler names.
Load ==
    /\ pc = "load"
    /\ CASE "bad" \in {args.config, args.plan} -> Exit(2)
         [] "garbled" \in {args.config, args.plan} -> Uncaught
         [] OTHER -> pc' = (IF args.plan = "good" THEN "plan" ELSE "smoke") /\ UNCHANGED exit
    /\ UNCHANGED <<call, args, log, steps, status, client, files>>

\* _run_cli_compiled_plan: a result, or an exception; the client is closed.
RunPlan ==
    /\ pc = "plan"
    /\ \/ \E s \in {"passed", "failed"} : status' = s /\ pc' = "write" /\ UNCHANGED exit
       \/ Uncaught /\ UNCHANGED status
    /\ client' = "closed"
    /\ UNCHANGED <<call, args, log, steps, files>>

\* What the outer handler of run_model_bank_smoke_check does, after the inner
\* finally.
Raise(events) ==
    /\ log' = log \o events \o <<Event("application-error", "none", "none")>>
    /\ client' = IF client = "open" THEN "closed" ELSE client
    /\ Uncaught
    /\ UNCHANGED <<steps, status>>

Complete(events, name, what) ==
    /\ log' = log \o events \o <<Event("step-completed", name, what)>>
    /\ steps' = Append(steps, [name |-> name, status |-> what])

\* The configuration may lack discoveryUrl: the first step fails.
StartSmoke ==
    /\ pc = "smoke"
    /\ LET started == <<Event("run-started", "none", "none")>>
       IN \/ /\ ~args.discovery_url
             /\ Complete(started \o <<Event("application-error", "openid-discovery", "none")>>, "openid-discovery", "failed")
             /\ pc' = "finalise"
             /\ UNCHANGED <<client, status, exit>>
          \/ /\ args.discovery_url
             /\ log' = log \o started
             /\ client' = "open"
             /\ pc' = "discovery"
             /\ UNCHANGED <<steps, status, exit>>
          \/ args.discovery_url /\ Raise(started)
    /\ UNCHANGED <<call, args, files>>

Asked(name) == <<Event("step-started", name, "none"), Event("request-sent", name, "none")>>

Error(name) == Asked(name) \o <<Event("application-error", name, "none")>>

Answer(name) == Asked(name) \o <<Event("response-received", name, "none")>>

\* fetch_discovery_document fails without a JSON document that has an https
\* issuer and jwks_uri; anything but OzoneClientError ends the run.
FetchDiscovery ==
    /\ pc = "discovery"
    /\ \/ /\ Complete(Error("openid-discovery"), "openid-discovery", "failed")
          /\ pc' = "finalise"
          /\ UNCHANGED <<status, client, exit>>
       \/ /\ Complete(Answer("openid-discovery"), "openid-discovery", "passed")
          /\ pc' = IF args.discovery_only THEN "finalise" ELSE "jwks"
          /\ UNCHANGED <<status, client, exit>>
       \/ Raise(Asked("openid-discovery"))
    /\ UNCHANGED <<call, args, files>>

\* fetch_jwks fails without a list of keys.
FetchJwks ==
    /\ pc = "jwks"
    /\ \/ Complete(Error("jwks"), "jwks", "failed") /\ pc' = "finalise" /\ UNCHANGED <<status, client, exit>>
       \/ Complete(Answer("jwks"), "jwks", "passed") /\ pc' = "finalise" /\ UNCHANGED <<status, client, exit>>
       \/ Raise(Asked("jwks"))
    /\ UNCHANGED <<call, args, files>>

RunStatus == IF \A i \in DOMAIN steps : steps[i].status = "passed" THEN "passed" ELSE "failed"

\* _finalise, and the finally that closes the client.
Finalise ==
    /\ pc = "finalise"
    /\ status' = RunStatus
    /\ log' = Append(log, Event("run-completed", "none", RunStatus))
    /\ client' = IF client = "open" THEN "closed" ELSE client
    /\ pc' = "write"
    /\ UNCHANGED <<call, args, steps, files, exit>>

Written(torn, passed) == [result |-> call, log |-> files.log, torn |-> torn, passed |-> passed]

\* write_text: an error leaves the old file or a part of the new one.
WriteResult ==
    /\ pc = "write"
    /\ \/ /\ files' = Written(FALSE, status = "passed")
          /\ pc' = "flush"
          /\ UNCHANGED exit
       \/ Exit(3) /\ UNCHANGED files
       \/ Exit(3) /\ files' = Written(TRUE, FALSE)
    /\ UNCHANGED <<call, args, log, steps, status, client>>

\* Mutant of FlushLog: a log that cannot be written is passed over.
FlushLogIgnored ==
    /\ pc = "flush"
    /\ \/ files' = [files EXCEPT !.log = call]
       \/ UNCHANGED files
    /\ Exit(IF status = "passed" THEN 0 ELSE 1)
    /\ UNCHANGED <<call, args, log, steps, status, client>>

\* flush_to_path replaces the file in one step (ExecutionLog).
FlushLog ==
    /\ pc = "flush"
    /\ \/ files' = [files EXCEPT !.log = call] /\ Exit(IF status = "passed" THEN 0 ELSE 1)
       \/ Exit(3) /\ UNCHANGED files
    /\ UNCHANGED <<call, args, log, steps, status, client>>

\* The program is called again, with the files of the last time there.
CallAgain ==
    /\ pc = "end" /\ call < MaxInvocations
    /\ call' = call + 1
    /\ args' \in Arguments
    /\ pc' = "parse" /\ log' = <<>> /\ steps' = <<>> /\ status' = "none" /\ client' = "none" /\ exit' = NoExit
    /\ UNCHANGED files

Next ==
    \/ Parse \/ Load \/ RunPlan \/ StartSmoke \/ FetchDiscovery \/ FetchJwks \/ Finalise
    \/ WriteResult \/ FlushLog \/ CallAgain

Spec == Init /\ [][Next]_vars

-----------------------------------------------------------------------------
(* Properties                                                              *)

BothWritten == files.result = call /\ ~files.torn /\ files.log = call

NoneWritten == files.result < call /\ files.log < call

\* What the exit status tells of the files (run): zero, that both are of this
\* call and the result says passed, unless only the usage was asked for; one,
\* that both are of this call and the result says failed, or that an exception
\* came before either was touched; two, that neither was touched; three, that
\* the log is not of this call.  So no call that writes a passing result, or
\* half of the files, ends with one, and a result of this call beside zero or
\* one is never torn and never without its log.
ExitTellsTheFiles ==
    pc = "end" =>
        /\ exit = 0 => (BothWritten /\ files.passed) \/ (NoneWritten /\ args.help)
        /\ exit = 1 => (BothWritten /\ ~files.passed) \/ NoneWritten
        /\ exit = 2 => NoneWritten
        /\ exit = 3 => files.log < call

=============================================================================
