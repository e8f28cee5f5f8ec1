----------------------------- MODULE CaseOrder -----------------------------
(***************************************************************************)
(* conformance/catalogue.py, _ordered_case_ids: the depth-first walk that  *)
(* puts the selected test cases of a catalogue, and everything they depend *)
(* on, into the order in which they are compiled.                          *)
(*                                                                         *)
(* The recursive function visit is a stack of frames, each a case and the  *)
(* position of the dependency it visits next.  The outer loop over         *)
(* cases_by_id is the counter root.  A raised CatalogueError is an outcome *)
(* that stops the walk.                                                    *)
(***************************************************************************)
EXTENDS Naturals, Sequences, FiniteSets

CONSTANT CaseIds  \* test case ids, and ids a dependency may name by mistake

VARIABLES
    call,      \* the arguments: cases_by_id, direct_ids and who the profile admits
    root,      \* cases of the outer loop already looked at
    stack,     \* the visits in progress
    ordered, edges, visiting, visited,
    outcome    \* "running", "ordered" or the error raised

orderVars == <<call, root, stack, ordered, edges, visiting, visited, outcome>>

\* order is the insertion order of the dictionary cases_by_id.
Calls ==
    [order : Seq(CaseIds), dependencies : [CaseIds -> Seq(CaseIds)],
     direct : SUBSET CaseIds, admitted : SUBSET CaseIds]

Errors == {"unknown", "cycle", "profile"}

Elements(s) == {s[i] : i \in DOMAIN s}

Known == Elements(call.order)

Frames == [case : CaseIds, next : Nat \ {0}]

StartWalk(c) ==
    /\ call' = c
    /\ root' = 0
    /\ stack' = <<>>
    /\ ordered' = <<>>
    /\ edges' = [d \in CaseIds |-> {}]
    /\ visiting' = {}
    /\ visited' = {}
    /\ outcome' = "running"

Raise(error) ==
    /\ outcome' = error
    /\ UNCHANGED <<ordered, visiting, visited>>

\* Mutant of Enter: the case is listed when its visit starts.
EnterFirst(c, below) ==
    /\ visiting' = visiting \union {c}
    /\ stack' = Append(below, [case |-> c, next |-> 1])
    /\ ordered' = Append(ordered, c)
    /\ UNCHANGED <<visited, outcome>>

Enter(c, below) ==
    /\ visiting' = visiting \union {c}
    /\ stack' = Append(below, [case |-> c, next |-> 1])
    /\ UNCHANGED <<ordered, visited, outcome>>

\* visit(c, dependent_id): dependents is the dependent or empty, below the
\* stack the visit returns to.
visit(c, dependents, below) ==
    \/ /\ c \notin Known
       /\ Raise("unknown")
       /\ stack' = below
       /\ UNCHANGED edges
    \/ /\ c \in Known
       /\ edges' = [edges EXCEPT ![c] = @ \union dependents]
       /\ \/ /\ c \in visited
             /\ stack' = below
             /\ UNCHANGED <<ordered, visiting, visited, outcome>>
          \/ /\ c \in visiting
             /\ c \notin visited
             /\ Raise("cycle")
             /\ stack' = below
          \/ /\ c \notin visited \union visiting
             /\ c \notin call.admitted
             /\ Raise("profile")
             /\ stack' = below
          \/ /\ c \notin visited \union visiting
             /\ c \in call.admitted
             /\ Enter(c, below)

\* The outer loop: the next case of the catalogue, visited when it is direct.
VisitRoot ==
    /\ outcome = "running"
    /\ stack = <<>>
    /\ root < Len(call.order)
    /\ root' = root + 1
    /\ LET c == call.order[root + 1] IN
       \/ c \in call.direct /\ visit(c, {}, stack)
       \/ c \notin call.direct /\ UNCHANGED <<stack, ordered, edges, visiting, visited, outcome>>
    /\ UNCHANGED call

Top == stack[Len(stack)]

\* The loop over the dependencies of the case on top of the stack.
VisitDependency ==
    /\ outcome = "running"
    /\ stack # <<>>
    /\ Top.next <= Len(call.dependencies[Top.case])
    /\ visit(call.dependencies[Top.case][Top.next], {Top.case},
             [stack EXCEPT ![Len(stack)].next = @ + 1])
    /\ UNCHANGED <<call, root>>

\* The end of a visit.
Leave ==
    /\ outcome = "running"
    /\ stack # <<>>
    /\ Top.next > Len(call.dependencies[Top.case])
    /\ visiting' = visiting \ {Top.case}
    /\ visited' = visited \union {Top.case}
    /\ ordered' = Append(ordered, Top.case)
    /\ stack' = SubSeq(stack, 1, Len(stack) - 1)
    /\ UNCHANGED <<call, root, edges, outcome>>

ReturnOrder ==
    /\ outcome = "running"
    /\ stack = <<>>
    /\ root = Len(call.order)
    /\ outcome' = "ordered"
    /\ UNCHANGED <<call, root, stack, ordered, edges, visiting, visited>>

WalkStep == VisitRoot \/ VisitDependency \/ Leave \/ ReturnOrder

-----------------------------------------------------------------------------

\* The walk's state is well typed, and the cases being visited are exactly the
\* ones on the stack, each once.
OrderTypeOK ==
    /\ call \in Calls
    /\ root \in 0 .. Len(call.order)
    /\ stack \in Seq(Frames)
    /\ ordered \in Seq(CaseIds)
    /\ edges \in [CaseIds -> SUBSET CaseIds]
    /\ visiting \in SUBSET Known
    /\ visited \in SUBSET Known
    /\ outcome \in {"running", "ordered"} \union Errors

\* visit lists a case after everything it depends on: whatever the catalogue,
\* each compiled case finds its dependencies before it.
DependenciesFirst ==
    \A i \in DOMAIN ordered : \A k \in DOMAIN call.dependencies[ordered[i]] :
        \E j \in 1 .. i - 1 : ordered[j] = call.dependencies[ordered[i]][k]

\* The visited set keeps a case that several others depend on from being
\* compiled twice.
CompiledOnce ==
    \A i, j \in DOMAIN ordered : ordered[i] = ordered[j] => i = j

\* The least set that holds "from" and, for each of its cases, the cases it
\* depends on.
LeastClosed(from, dependencies) ==
    {c \in CaseIds :
        \A S \in SUBSET CaseIds :
            (from \subseteq S /\ \A x \in S : Elements(dependencies[x]) \subseteq S) => c \in S}

\* When _ordered_case_ids returns, it has listed every selected case of the
\* catalogue with everything it depends on, and nothing else.
OrderIsExact ==
    outcome = "ordered" =>
        Elements(ordered) = LeastClosed(call.direct \intersect Known, call.dependencies)

=============================================================================
