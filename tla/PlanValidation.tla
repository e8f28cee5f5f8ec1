--------------------------- MODULE PlanValidation ---------------------------
(***************************************************************************)
(* conformance/test_plan_validation.py with the documents of               *)
(* conformance/catalogue.py: a plan is loaded (or a legacy one parsed),    *)
(* exported as a canonical document, and that document is prepared for a   *)
(* run.  This is the way of a plan through the browser: import, review,    *)
(* launch; launching exports the reviewed document and prepares the        *)
(* export.  Files may disappear in between.                                *)
(*                                                                         *)
(* Compilation is PlanCompiler; here it is one of its possible outcomes.   *)
(***************************************************************************)
EXTENDS CanonicalPlan

CONSTANTS
    CheckedDocuments, \* the raw documents a run starts from
    Files             \* the files that exist at first

VARIABLES
    raw,       \* the document as it is written
    files,
    pc,
    document,  \* the parsed document
    exported,  \* its export
    prepared,  \* what the export was prepared into
    issue      \* the layer of the issue that refused a document

vars == <<raw, files, pc, document, exported, prepared, issue>>

-----------------------------------------------------------------------------
(* The way of a plan to a run.                                             *)

Refuse(layer) ==
    /\ pc' = "refused"
    /\ issue' = layer
    /\ UNCHANGED <<document, exported, prepared>>

\* validate_test_plan_for_load, and the parse that follows in the browser
Load ==
    /\ pc = "raw" /\ raw.schemaVersion = "1.0"
    /\ IF SchemaRefuses(raw) \/ BadCanonical(raw) THEN Refuse("schema")
       ELSE IF BadConfiguration(ParsedCanonical(raw), AnyFile) THEN Refuse("security")
       ELSE /\ document' = ParsedCanonical(raw)
            /\ pc' = "loaded"
            /\ UNCHANGED <<exported, prepared, issue>>
    /\ UNCHANGED <<raw, files>>

\* parse_test_plan_document of a legacy document
ParseLegacy ==
    /\ pc = "raw" /\ raw.schemaVersion = "v2"
    /\ IF BadLegacy(raw) THEN Refuse("schema")
       ELSE /\ document' = ParsedLegacy(raw)
            /\ pc' = "loaded"
            /\ UNCHANGED <<exported, prepared, issue>>
    /\ UNCHANGED <<raw, files>>

Export ==
    /\ pc = "loaded"
    /\ exported' = ExportedDocument(document)
    /\ pc' = "exported"
    /\ UNCHANGED <<raw, files, document, prepared, issue>>

\* External: a file a plan refers to disappears before the run.
FileIsLost ==
    /\ pc \in {"loaded", "exported"}
    /\ \E f \in files : files' = files \ {f}
    /\ UNCHANGED <<raw, pc, document, exported, prepared, issue>>

\* prepare_test_plan_for_run on the exported document
Prepare(c) ==
    /\ pc = "exported"
    /\ LET d == ParsedCanonical(exported) IN
       IF SchemaRefuses(exported) \/ BadCanonical(exported) THEN Refuse("schema")
       ELSE IF BadConfiguration(d, files) \/ BadRunnerConfig(d.config, files) THEN Refuse("security")
       ELSE IF c.refused THEN Refuse("compile")
       ELSE IF BlockingIssues(d, c) # {} THEN Refuse("plan")
       ELSE /\ prepared' = [document |-> d, compiled |-> c, warnings |-> Warnings(d, c),
                            runtime_inputs |-> d.runtime_inputs, dcr_inputs |-> DcrInputs(d)]
            /\ pc' = "prepared"
            /\ UNCHANGED <<document, exported, issue>>
    /\ UNCHANGED <<raw, files>>

Init ==
    /\ raw \in CheckedDocuments
    /\ files = Files
    /\ pc = "raw"
    /\ document = Nothing /\ exported = Nothing /\ prepared = Nothing
    /\ issue = "none"

Returned == pc \in {"prepared", "refused"} /\ UNCHANGED vars

Next ==
    \/ Load \/ ParseLegacy \/ Export \/ FileIsLost
    \/ \E c \in Compilations : Prepare(c)
    \/ Returned

Spec == Init /\ [][Next]_vars

-----------------------------------------------------------------------------
(* What a plan keeps on its way to a run.                                  *)

Reparsed == ParsedCanonical(exported)

FromCanonical == pc \in {"exported", "prepared"} /\ document.schema_version = "1.0"

FromLegacy == pc = "exported" /\ document.schema_version = "v2"

\* What a run is prepared from is the plan that was reviewed: the same scope,
\* profile, mode, runner config and registration settings, and every runtime
\* input that does not come from the legacy inputs object, although the
\* security environment is rebuilt from the config when it has no discovery
\* URL (_security_environment_for_export).
LaunchRunsTheReviewedPlan ==
    FromCanonical =>
        /\ \A f \in {"family", "version", "profile", "mode", "groups", "endpoints", "registration", "metadata"} :
               Reparsed[f] = document[f]
        /\ [Reparsed.config EXCEPT !.inputs = document.config.inputs] = document.config
        /\ Reparsed.runtime_inputs = RuntimeInputs(DeclaredInputs(document.config))

\* The canonical form of a legacy plan says what the plan did: when it loads, it
\* has the same specification and groups with the same endpoints and
\* capabilities, and each of its runtime inputs and each field of its security
\* sections has the legacy plan's value.  One thing is added: a group without
\* endpoints selects nothing in a legacy plan (catalogue.py,
\* _parse_plan_document_v2_resource_group) and is read back as the whole group.
MigrationInventsNothing ==
    FromLegacy /\ ~BadCanonical(exported) =>
        /\ \A f \in {"family", "version", "profile", "mode"} : Reparsed[f] = document[f]
        /\ DOMAIN Reparsed.groups = DOMAIN document.groups
        /\ \A i \in DOMAIN document.groups :
               LET old == document.groups[i]
                   new == Reparsed.groups[i]
               IN  /\ ApiOfGroup(new.id) = ApiOfGroup(old.id)
                   /\ new.endpoints = old.endpoints
                   /\ new.select_all <=> old.endpoints = <<>>
        /\ \A id \in DOMAIN Reparsed.runtime_inputs :
               /\ id \in DOMAIN document.runtime_inputs
               /\ Reparsed.runtime_inputs[id] = document.runtime_inputs[id]
        /\ \A s \in {"oauth", "fapiSigning", "tls"} : \A k \in DOMAIN Reparsed.config[s] :
               /\ k \in DOMAIN document.config[s] \union {"resourceBaseUrl"}
               /\ k \in DOMAIN document.config[s] => Reparsed.config[s][k] = document.config[s][k]

\* The run rebuilds, from the flat runtime inputs it is given, the
\* configuration the plan was validated with; only the reporting metadata
\* stays behind, and every file it names existed at preparation.  A run from the
\* safe export would be the same: _restore_dcr_file_references undoes what
\* _safe_json_object empties, up to metadata that no run reads, because none of
\* the inputs that the catalogues mark sensitive is called like a field of a
\* registration plan.
RunRebuildsTheConfiguration ==
    pc = "prepared" /\ prepared.document.family = "OBL_DCR" =>
        LET d == prepared.document
            config == DcrConfiguration(d.environment, d.mtls, d.registration, d.metadata) IN
        /\ ~BadExecutionInputs(prepared.dcr_inputs)
        /\ RebuiltConfiguration(prepared.dcr_inputs) = [config EXCEPT !.metadata = EmptyObject]
        /\ ReferencedFiles(config) \subseteq files
        /\ LET safe == SafeDocument(document, SensitiveInputs) IN
           /\ [safe EXCEPT !.metadata = exported.metadata] = exported
           /\ \A k \in MetadataFields \intersect DOMAIN exported.metadata : safe.metadata[k] = exported.metadata[k]

=============================================================================
