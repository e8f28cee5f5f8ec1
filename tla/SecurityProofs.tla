--------------------------- MODULE SecurityProofs ---------------------------
(***************************************************************************)
(* Proofs about the two jobs of the security workflow, for any reports,    *)
(* exceptions, days, targets and keys.                                     *)
(***************************************************************************)
EXTENDS SecurityMC, FiniteSetTheorems, SequenceTheorems, WellFoundedInduction, TLAPS

-----------------------------------------------------------------------------
(* VulnerabilityGate: ratings.                                             *)

Severities == {"critical", "high", "medium", "low", "unknown"}

\* s is the highest rating of S, where "unknown" is none.
IsHighest(s, S) ==
    LET rated == S \ {"unknown"}
    IN  IF rated = {} THEN s = "unknown"
        ELSE s \in rated /\ \A t \in rated : SEVERITY_ORDER[t] <= SEVERITY_ORDER[s]

\* Every rating has a number.
LEMMA Ranks ==
    /\ SEVERITY_ORDER["critical"] = 4 /\ SEVERITY_ORDER["high"] = 3 /\ SEVERITY_ORDER["unknown"] = 3
    /\ SEVERITY_ORDER["medium"] = 2 /\ SEVERITY_ORDER["low"] = 1
BY SMT DEF SEVERITY_ORDER

\* What max_severity gives back its first argument for.
LEMMA FirstIsMax ==
    ASSUME NEW s \in Severities, NEW t \in Severities
    PROVE  max_severity(s, t) = s <=> \/ t = "unknown"
                                      \/ s # "unknown" /\ t # "unknown" /\ SEVERITY_ORDER[t] <= SEVERITY_ORDER[s]
BY Ranks, SMTT(60) DEF max_severity, Severities

\* A set of ratings has a highest one, and highest_severity finds it.
LEMMA HighestSeverity ==
    ASSUME NEW S \in SUBSET Severities, S # {}
    PROVE  highest_severity(S) \in S /\ IsHighest(highest_severity(S), S)
<1>1. \E s \in S : \A t \in S : max_severity(s, t) = s
  <2>1. CASE "critical" \in S
    BY <2>1, FirstIsMax, Ranks, SMTT(60) DEF Severities
  <2>2. CASE "critical" \notin S /\ "high" \in S
    BY <2>2, FirstIsMax, Ranks, SMTT(60) DEF Severities
  <2>3. CASE "critical" \notin S /\ "high" \notin S /\ "medium" \in S
    BY <2>3, FirstIsMax, Ranks, SMTT(60) DEF Severities
  <2>4. CASE "critical" \notin S /\ "high" \notin S /\ "medium" \notin S /\ "low" \in S
    BY <2>4, FirstIsMax, Ranks, SMTT(60) DEF Severities
  <2>5. CASE S = {"unknown"}
    <3>1. "unknown" \in Severities /\ "unknown" \in S
      BY <2>5, Zenon DEF Severities
    <3>2. max_severity("unknown", "unknown") = "unknown"
      BY <3>1, FirstIsMax, Zenon
    <3> QED
      BY <2>5, <3>1, <3>2, Zenon
  <2> QED
    BY <2>1, <2>2, <2>3, <2>4, <2>5, Zenon DEF Severities
<1> DEFINE s == highest_severity(S)
<1>2. s \in S /\ \A t \in S : max_severity(s, t) = s
  BY <1>1, Zenon DEF highest_severity
<1>3. s \in Severities /\ \A t \in S : t \in Severities
  BY <1>2, Zenon
<1>4. \A t \in S : t = "unknown" \/ (s # "unknown" /\ SEVERITY_ORDER[t] <= SEVERITY_ORDER[s])
  BY <1>2, <1>3, FirstIsMax, Zenon
<1> QED
  BY <1>2, <1>4, Zenon DEF IsHighest

-----------------------------------------------------------------------------
(* VulnerabilityGate: merging.                                             *)

\* What an observation and a finding are.
IsRaw(r) == r.ids # {} /\ r.severity \in Severities

IsFinding(f) ==
    /\ f = [ids |-> f.ids, package |-> f.package, version |-> f.version, severity |-> f.severity,
            fixed |-> f.fixed, application |-> f.application, status |-> f.status]
    /\ f.severity \in Severities

Group(f, D) == {r \in D : Same(f, r)}

\* What a finding says of a set of observations: they are connected and it
\* has all that they say.
Describes(f, G) ==
    /\ IsFinding(f) /\ f.status = "open"
    /\ G # {}
    /\ f.ids = UNION {r.ids : r \in G}
    /\ \A part \in SUBSET G : part # {} /\ part # G => \E a \in part, b \in G \ part : Same(a, b)
    /\ f.fixed = \E r \in G : r.fixed
    /\ f.application = \E r \in G : r.application
    /\ IsHighest(f.severity, {r.severity : r \in G})

\* The findings F are the groups of the observations D.
Described(F, D) ==
    /\ \A r \in D : \E f \in F : Same(f, r)
    /\ \A f, g \in F : Same(f, g) => f = g
    /\ \A f \in F : Describes(f, Group(f, D))

\* Sharing an identifier is symmetric.
LEMMA SameIsSymmetric == ASSUME NEW a, NEW b PROVE Same(a, b) <=> Same(b, a)
BY SMT DEF Same

\* An observation of a group brings all its identifiers.
LEMMA GroupIds ==
    ASSUME NEW f, NEW D, Describes(f, Group(f, D)), NEW r \in Group(f, D)
    PROVE  r.ids \subseteq f.ids /\ r.package = f.package /\ r.version = f.version
<1>1. f.ids = UNION {q.ids : q \in Group(f, D)}
  BY Zenon DEF Describes
<1>2. Same(f, r)
  BY Zenon DEF Group
<1> QED
  BY <1>1, <1>2, Zenon DEF Same

\* A finding with an identifier has it from an observation.
LEMMA IdFromGroup ==
    ASSUME NEW f, NEW D, Describes(f, Group(f, D)), NEW i \in f.ids
    PROVE  \E r \in Group(f, D) : i \in r.ids
<1>1. f.ids = UNION {q.ids : q \in Group(f, D)}
  BY Zenon DEF Describes
<1> QED
  BY <1>1, Zenon

\* What the finding n that replaces the matching ones consists of.
IsCombined(n, M, r, ids) ==
    /\ IsFinding(n) /\ n.ids = ids /\ n.package = r.package /\ n.version = r.version
    /\ n.fixed = \E f \in M \union {r} : f.fixed
    /\ n.application = \E f \in M \union {r} : f.application
    /\ IsHighest(n.severity, {f.severity : f \in M \union {r}})
    /\ n.status = "open"

LEMMA CombinedIs ==
    ASSUME NEW M, NEW r, NEW ids, IsRaw(r), \A f \in M : Same(f, r) /\ f.severity \in Severities
    PROVE  IsCombined(Combined(M \union {r}, ids), M, r, ids)
<1> DEFINE fs == M \union {r}
           one == CHOOSE f \in fs : TRUE
           S == {f.severity : f \in fs}
           n == Combined(fs, ids)
<1>1. one \in fs
  BY Zenon
<1>2. one.package = r.package /\ one.version = r.version
  BY <1>1, Zenon DEF Same
<1>3. S \in SUBSET Severities /\ S # {}
  BY Zenon DEF IsRaw
<1>4. highest_severity(S) \in S /\ IsHighest(highest_severity(S), S)
  BY <1>3, HighestSeverity, Zenon
<1>5. n = [ids |-> ids, package |-> one.package, version |-> one.version, severity |-> highest_severity(S),
           fixed |-> \E f \in fs : f.fixed, application |-> \E f \in fs : f.application, status |-> "open"]
  BY Zenon DEF Combined
<1> HIDE DEF one, n, S
<1>6. n.ids = ids /\ n.package = one.package /\ n.version = one.version /\ n.severity = highest_severity(S)
  BY <1>5, Zenon
<1>7. n.fixed = (\E f \in fs : f.fixed) /\ n.application = (\E f \in fs : f.application) /\ n.status = "open"
  BY <1>5, Zenon
<1>8. IsFinding(n)
  BY <1>3, <1>4, <1>5, <1>6, <1>7, Zenon DEF IsFinding
<1> QED
  BY <1>2, <1>4, <1>6, <1>7, <1>8, Zenon DEF n, S, IsCombined

\* The highest of the highest is the highest.
LEMMA HighestOfHighest ==
    ASSUME NEW M, NEW r, NEW s, NEW G, NEW D,
           \A f \in M : IsHighest(f.severity, {q.severity : q \in Group(f, D)}) /\ f.severity \in Severities,
           r.severity \in Severities, \A q \in D : q.severity \in Severities,
           \A q : q \in G <=> q = r \/ \E f \in M : q \in Group(f, D),
           IsHighest(s, {f.severity : f \in M \union {r}})
    PROVE  IsHighest(s, {q.severity : q \in G})
<1> DEFINE S == {f.severity : f \in M \union {r}}
           T == {q.severity : q \in G}
\* What the finding of a group says of each of its observations.
<1>1. ASSUME NEW f \in M, NEW q \in Group(f, D), q.severity # "unknown"
      PROVE  f.severity # "unknown" /\ SEVERITY_ORDER[q.severity] <= SEVERITY_ORDER[f.severity]
  <2> DEFINE U == {p.severity : p \in Group(f, D)}
  <2>1. q.severity \in U \ {"unknown"} /\ IsHighest(f.severity, U)
    BY <1>1, Zenon
  <2> HIDE DEF U
  <2> QED
    BY <2>1, Zenon DEF IsHighest
<1>2. ASSUME NEW f \in M, f.severity # "unknown" PROVE \E q \in Group(f, D) : q.severity = f.severity
  <2> DEFINE U == {p.severity : p \in Group(f, D)}
  <2>1. IsHighest(f.severity, U)
    BY Zenon
  <2>2. f.severity \in U
    BY <1>2, <2>1, Zenon DEF IsHighest
  <2> QED
    BY <2>2, Zenon
<1>3. S \subseteq Severities
  BY Zenon
<1>4. CASE s = "unknown"
  <2>1. \A t \in S : t = "unknown"
    BY <1>4, Zenon DEF IsHighest
  <2>2. ASSUME NEW q \in G PROVE q.severity = "unknown"
    <3>1. r.severity = "unknown" /\ \A f \in M : f.severity = "unknown"
      BY <2>1, Zenon
    <3> QED
      BY <1>1, <3>1, Zenon
  <2>3. T \ {"unknown"} = {}
    BY <2>2, Zenon
  <2> QED
    BY <1>4, <2>3, Zenon DEF IsHighest
<1>5. CASE s # "unknown"
  <2>1. s \in S /\ \A t \in S \ {"unknown"} : SEVERITY_ORDER[t] <= SEVERITY_ORDER[s]
    BY <1>5, Zenon DEF IsHighest
  <2>2. s \in T
    <3>1. CASE s = r.severity
      BY <3>1, Zenon
    <3>2. ASSUME NEW f \in M, s = f.severity PROVE s \in T
      BY <1>2, <1>5, <3>2, Zenon
    <3> QED
      BY <2>1, <3>1, <3>2, Zenon
  <2>3. ASSUME NEW q \in G, q.severity # "unknown" PROVE SEVERITY_ORDER[q.severity] <= SEVERITY_ORDER[s]
    <3>1. CASE q = r
      BY <2>1, <2>3, <3>1, Zenon
    <3>2. ASSUME NEW f \in M, q \in Group(f, D) PROVE SEVERITY_ORDER[q.severity] <= SEVERITY_ORDER[s]
      <4>1. f.severity # "unknown" /\ SEVERITY_ORDER[q.severity] <= SEVERITY_ORDER[f.severity]
        BY <1>1, <2>3, <3>2, Zenon
      <4>2. SEVERITY_ORDER[f.severity] <= SEVERITY_ORDER[s]
        BY <2>1, <4>1, Zenon
      <4>3. f.severity \in Severities /\ s \in Severities
        BY <1>3, <2>1, Zenon
      <4>4. q.severity \in Severities
        BY <3>2, Zenon DEF Group
      <4>5. \A a, b, c \in Severities : SEVERITY_ORDER[a] <= SEVERITY_ORDER[b] /\ SEVERITY_ORDER[b] <= SEVERITY_ORDER[c]
                => SEVERITY_ORDER[a] <= SEVERITY_ORDER[c]
        BY Ranks, SMTT(60) DEF Severities
      <4> QED
        BY <4>1, <4>2, <4>3, <4>4, <4>5, Zenon
    <3> QED
      BY <3>1, <3>2, Zenon
  <2>4. s \in T \ {"unknown"} /\ \A t \in T \ {"unknown"} : SEVERITY_ORDER[t] <= SEVERITY_ORDER[s]
    <3>1. ASSUME NEW t \in T \ {"unknown"} PROVE SEVERITY_ORDER[t] <= SEVERITY_ORDER[s]
      <4>1. PICK q \in G : t = q.severity
        BY Zenon
      <4> QED
        BY <2>3, <4>1, Zenon
    <3> QED
      BY <1>5, <2>2, <3>1, Zenon
  <2> HIDE DEF T
  <2>5. IsHighest(s, T)
    BY <2>4, Zenon DEF IsHighest
  <2> QED
    BY <2>5, Zenon DEF T
<1> QED
  BY <1>4, <1>5, Zenon

\* Merging one more observation describes one more.
LEMMA MergeDescribes ==
    ASSUME NEW F, NEW D, Described(F, D), \A q \in D : IsRaw(q), NEW r, IsRaw(r)
    PROVE  LET M == {f \in F : Same(f, r)}
               n == Combined(M \union {r}, r.ids \union UNION {f.ids : f \in M})
           IN  Described((F \ M) \union {n}, D \union {r})
<1> DEFINE M == {f \in F : Same(f, r)}
           ids == r.ids \union UNION {f.ids : f \in M}
           n == Combined(M \union {r}, ids)
           E == D \union {r}
<1>1. \A f \in F : Describes(f, Group(f, D)) /\ IsFinding(f)
  BY Zenon DEF Described, Describes
<1>0. \A f : f \in M <=> f \in F /\ Same(f, r)
  BY Zenon
<1> HIDE DEF M
<1> HIDE DEF ids
<1>2. IsCombined(n, M, r, ids)
  <2>1. \A f \in M : Same(f, r) /\ f.severity \in Severities
    BY <1>0, <1>1, Zenon DEF IsFinding
  <2> QED
    BY <2>1, CombinedIs, Zenon
<1> HIDE DEF n
<1>22. n.ids = ids /\ n.package = r.package /\ n.version = r.version
  BY <1>2, Zenon DEF IsCombined
<1>20. \A i : i \in n.ids <=> i \in r.ids \/ \E f \in M : i \in f.ids
  BY <1>22, Zenon DEF ids
<1>3. Same(n, r)
  <2>1. PICK i : i \in r.ids
    BY Zenon DEF IsRaw
  <2>2. i \in n.ids \intersect r.ids
    BY <1>20, <2>1, Zenon
  <2> QED
    BY <1>22, <2>2, Zenon DEF Same
<1>4. \A f \in M : f.package = r.package /\ f.version = r.version /\ f.ids \subseteq n.ids
  BY <1>0, <1>20, Zenon DEF Same
<1>5. ASSUME NEW f \in F \ M PROVE ~Same(f, n)
  <2> SUFFICES ASSUME Same(f, n) PROVE FALSE
    BY Zenon
  <2>1. PICK i \in f.ids : i \in n.ids
    BY Zenon DEF Same
  <2>2. f.package = r.package /\ f.version = r.version
    BY <1>22, Zenon DEF Same
  <2>3. CASE i \in r.ids
    <3>1. i \in f.ids \intersect r.ids
      BY <2>3, Zenon
    <3>2. Same(f, r)
      BY <2>2, <3>1, Zenon DEF Same
    <3> QED
      BY <1>0, <3>2, Zenon
  <2>4. ASSUME NEW g \in M, i \in g.ids PROVE FALSE
    <3>1. i \in f.ids \intersect g.ids
      BY <2>4, Zenon
    <3>2. Same(f, g)
      BY <1>4, <2>2, <3>1, Zenon DEF Same
    <3> QED
      BY <1>0, <3>2, Zenon DEF Described
  <2> QED
    BY <1>20, <2>1, <2>3, <2>4, Zenon
\* The members of the new group.
<1>6. ASSUME NEW q \in D PROVE Same(n, q) <=> \E f \in M : Same(f, q)
  <2>1. ASSUME NEW f \in M, Same(f, q) PROVE Same(n, q)
    <3>1. PICK i : i \in f.ids \intersect q.ids
      BY <2>1, Zenon DEF Same
    <3>2. i \in n.ids \intersect q.ids
      BY <1>4, <3>1, Zenon
    <3>3. n.package = q.package /\ n.version = q.version
      BY <1>22, <1>4, <2>1, Zenon DEF Same
    <3> QED
      BY <3>2, <3>3, Zenon DEF Same
  <2>2. ASSUME Same(n, q) PROVE \E f \in M : Same(f, q)
    <3>1. PICK g \in F : Same(g, q)
      BY Zenon DEF Described
    <3>2. q.ids \subseteq g.ids /\ q.package = g.package /\ q.version = g.version
      <4>1. q \in Group(g, D)
        BY <3>1, Zenon DEF Group
      <4> QED
        BY <1>1, <4>1, GroupIds, Zenon
    <3>5. PICK i : i \in n.ids \intersect q.ids
      BY <2>2, Zenon DEF Same
    <3>6. i \in g.ids \intersect n.ids
      BY <3>2, <3>5, Zenon
    <3>3. Same(g, n)
      BY <2>2, <3>2, <3>6, Zenon DEF Same
    <3>4. g \in M
      BY <1>5, <3>3, Zenon
    <3> QED
      BY <3>1, <3>4, Zenon
  <2> QED
    BY <2>1, <2>2, Zenon
<1>7. \A q : q \in Group(n, E) <=> q = r \/ \E f \in M : q \in Group(f, D)
  <2>1. \A q, f : (q \in Group(f, D) <=> q \in D /\ Same(f, q)) /\ (q \in Group(f, E) <=> (q \in D \/ q = r) /\ Same(f, q))
    BY Zenon DEF Group
  <2>2. ASSUME NEW q, q \in D PROVE q \in Group(n, E) <=> q = r \/ \E f \in M : q \in Group(f, D)
    BY <1>3, <1>6, <2>1, <2>2, Zenon
  <2>3. ASSUME NEW q, q \notin D PROVE q \in Group(n, E) <=> q = r \/ \E f \in M : q \in Group(f, D)
    BY <1>3, <2>1, <2>3, Zenon
  <2> QED
    BY <2>2, <2>3, Zenon
<1>8. ASSUME NEW f \in F \ M PROVE Group(f, E) = Group(f, D)
  BY <1>0, Zenon DEF Group
<1> HIDE DEF E
<1>9. \A f \in F \ M : Describes(f, Group(f, E))
  BY <1>1, <1>8, Zenon
\* The new observation links every old group to the others.
<1>10. ASSUME NEW f \in M PROVE \E q \in Group(f, D) : Same(r, q) /\ Same(q, r)
  <2>0. f \in F /\ Same(f, r)
    BY <1>0, Zenon
  <2>1. PICK i \in f.ids : i \in r.ids
    BY <2>0, Zenon DEF Same
  <2>2. PICK q \in Group(f, D) : i \in q.ids
    BY <1>1, <2>0, <2>1, IdFromGroup, Zenon
  <2>5. q.package = f.package /\ q.version = f.version
    BY <1>1, <2>0, <2>2, GroupIds, Zenon
  <2>3. q.package = r.package /\ q.version = r.version
    BY <2>0, <2>5, Zenon DEF Same
  <2>4. i \in q.ids \intersect r.ids /\ i \in r.ids \intersect q.ids
    BY <2>1, <2>2, Zenon
  <2> QED
    BY <2>2, <2>3, <2>4, Zenon DEF Same
<1>11. ASSUME NEW f \in M, NEW part, \E q \in Group(f, D) : q \in part, \E q \in Group(f, D) : q \notin part
       PROVE  \E a \in Group(f, D), b \in Group(f, D) : a \in part /\ b \notin part /\ Same(a, b)
  <2> DEFINE G == Group(f, D)
             P1 == part \intersect G
  <2>1. \A p \in SUBSET G : p # {} /\ p # G => \E a \in p, b \in G \ p : Same(a, b)
    BY <1>0, <1>1, Zenon DEF Describes
  <2>2. P1 \in SUBSET G /\ P1 # {} /\ P1 # G
    BY <1>11, Zenon
  <2>3. \E a \in P1, b \in G \ P1 : Same(a, b)
    BY <2>1, <2>2, Zenon
  <2> QED
    BY <2>3, Zenon
<1>12. ASSUME NEW part \in SUBSET Group(n, E), part # {}, part # Group(n, E)
       PROVE  \E a \in part, b \in Group(n, E) \ part : Same(a, b)
  <2>1. PICK p : p \in part
    BY <1>12, Zenon
  <2>2. PICK o : o \in Group(n, E) /\ o \notin part
    BY <1>12, Zenon
  <2>3. r \in Group(n, E) /\ \A f \in M : Group(f, D) \subseteq Group(n, E)
    BY <1>7, Zenon
  <2>4. CASE r \in part
    <3>1. PICK f \in M : o \in Group(f, D)
      BY <1>7, <2>2, <2>4, Zenon
    <3>2. PICK q \in Group(f, D) : Same(r, q)
      BY <1>10, Zenon
    <3>3. CASE q \in part
      BY <1>11, <2>2, <2>3, <3>1, <3>3, ZenonT(60)
    <3>4. CASE q \notin part
      BY <2>3, <2>4, <3>2, <3>4, ZenonT(60)
    <3> QED
      BY <3>3, <3>4, ZenonT(60)
  <2>5. CASE r \notin part
    <3>1. PICK f \in M : p \in Group(f, D)
      BY <1>7, <1>12, <2>1, <2>5, Zenon
    <3>2. PICK q \in Group(f, D) : Same(q, r)
      BY <1>10, Zenon
    <3>3. CASE q \in part
      BY <2>3, <2>5, <3>2, <3>3, Zenon
    <3>4. CASE q \notin part
      BY <1>11, <2>1, <2>3, <3>1, <3>4, Zenon
    <3> QED
      BY <3>3, <3>4, Zenon
  <2> QED
    BY <2>4, <2>5, Zenon
<1>13. n.ids = UNION {q.ids : q \in Group(n, E)}
  <2>2. ASSUME NEW i \in n.ids PROVE \E q \in Group(n, E) : i \in q.ids
    BY <1>0, <1>1, <1>20, <1>7, IdFromGroup, Zenon
  <2>3. ASSUME NEW q \in Group(n, E), NEW i \in q.ids PROVE i \in n.ids
    <3>1. ASSUME NEW f \in M, q \in Group(f, D) PROVE i \in n.ids
      <4>1. q.ids \subseteq f.ids
        BY <1>0, <1>1, <3>1, GroupIds, Zenon
      <4> QED
        BY <1>4, <4>1, Zenon
    <3> QED
      BY <1>20, <1>7, <3>1, Zenon
  <2> QED
    BY <2>2, <2>3, Zenon
<1>14. n.fixed = \E q \in Group(n, E) : q.fixed
  <2>1. \A f \in M : f.fixed <=> \E q \in Group(f, D) : q.fixed
    BY <1>0, <1>1, Zenon DEF Describes
  <2>2. (\E f \in M \union {r} : f.fixed) <=> \E q \in Group(n, E) : q.fixed
    BY <1>7, <2>1, Zenon
  <2> QED
    BY <1>2, <2>2, Zenon DEF IsCombined
<1>15. n.application = \E q \in Group(n, E) : q.application
  <2>1. \A f \in M : f.application <=> \E q \in Group(f, D) : q.application
    BY <1>0, <1>1, Zenon DEF Describes
  <2>2. (\E f \in M \union {r} : f.application) <=> \E q \in Group(n, E) : q.application
    BY <1>7, <2>1, Zenon
  <2> QED
    BY <1>2, <2>2, Zenon DEF IsCombined
<1>16. IsHighest(n.severity, {q.severity : q \in Group(n, E)})
  <2>1. \A f \in M : IsHighest(f.severity, {q.severity : q \in Group(f, D)}) /\ f.severity \in Severities
    BY <1>0, <1>1, Zenon DEF Describes, IsFinding
  <2>2. IsHighest(n.severity, {f.severity : f \in M \union {r}})
    BY <1>2, Zenon DEF IsCombined
  <2>3. r.severity \in Severities /\ \A q \in D : q.severity \in Severities
    BY Zenon DEF IsRaw
  <2> QED
    BY <1>7, <2>1, <2>2, <2>3, HighestOfHighest, Zenon
<1>17. Describes(n, Group(n, E))
  BY <1>2, <1>3, <1>7, <1>12, <1>13, <1>14, <1>15, <1>16, ZenonT(60) DEF Describes, IsCombined
<1>18. \A q \in E : \E f \in (F \ M) \union {n} : Same(f, q)
  <2>1. ASSUME NEW q \in D PROVE \E f \in (F \ M) \union {n} : Same(f, q)
    <3>1. PICK f \in F : Same(f, q)
      BY Zenon DEF Described
    <3> QED
      BY <1>6, <3>1, Zenon
  <2> QED
    BY <1>3, <2>1, Zenon DEF E
<1>19. \A f, g \in (F \ M) \union {n} : Same(f, g) => f = g
  <2>1. \A f, g \in F \ M : Same(f, g) => f = g
    BY Zenon DEF Described
  <2>2. \A f \in F \ M : ~Same(f, n) /\ ~Same(n, f)
    BY <1>5, SameIsSymmetric, Zenon
  <2> QED
    BY <2>1, <2>2, Zenon
<1>21. Described((F \ M) \union {n}, E)
  BY <1>9, <1>17, <1>18, <1>19, ZenonT(60) DEF Described
<1> QED
  BY <1>21, Zenon DEF n, ids, M, E

-----------------------------------------------------------------------------
(* VulnerabilityGate: the steps.                                           *)

\* Every observation has an identifier and a rating.
LEMMA RawFindingsAreRaw == ASSUME input \in Inputs, NEW r \in RawFindings PROVE IsRaw(r)
<1>1. \A value : normalise_severity(value) \in Severities
  BY Zenon DEF normalise_severity, Severities
<1>2. ASSUME NEW source, NEW ids, ids # {}, NEW name, NEW version, NEW severity, NEW fixed, NEW application
      PROVE  IsRaw(RawFinding(source, ids, name, version, severity, fixed, application))
  BY <1>1, <1>2, Zenon DEF RawFinding, IsRaw
<1>3. CASE r \in parse_scout_sarif(input.scout)
  <2>1. PICK i \in DOMAIN input.scout :
           r \in {RawFinding("docker-scout", {input.scout[i].id}, input.scout[i].name, v, input.scout[i].severity,
                             input.scout[i].fixed, input.scout[i].application) : v \in input.scout[i].versions}
    BY <1>3, Zenon DEF parse_scout_sarif
  <2>2. PICK v : r = RawFinding("docker-scout", {input.scout[i].id}, input.scout[i].name, v, input.scout[i].severity,
                                input.scout[i].fixed, input.scout[i].application)
    BY <2>1, Zenon
  <2>3. {input.scout[i].id} # {}
    BY Zenon
  <2> QED
    BY <1>2, <2>2, <2>3, Zenon
<1>4. CASE r \in parse_snyk_json(input.snyk)
  <2>1. PICK i \in DOMAIN input.snyk :
           r = RawFinding("snyk", input.snyk[i].ids, input.snyk[i].name, input.snyk[i].version, input.snyk[i].severity,
                          input.snyk[i].fixed, input.snyk[i].application)
    BY <1>4, Zenon DEF parse_snyk_json
  <2>2. input.snyk[i].ids # {}
    BY InputAssumption, Zenon
  <2> QED
    BY <1>2, <2>1, <2>2, Zenon
<1>5. CASE r \in parse_pip_audit_json(input.pip)
  <2>1. PICK i \in DOMAIN input.pip :
           r = RawFinding("pip-audit", input.pip[i].ids, input.pip[i].name, input.pip[i].version, "",
                          input.pip[i].fixed, TRUE)
    BY <1>5, Zenon DEF parse_pip_audit_json
  <2>2. input.pip[i].ids # {}
    BY InputAssumption, Zenon
  <2> QED
    BY <1>2, <2>1, <2>2, Zenon
<1> QED
  BY <1>3, <1>4, <1>5, Zenon DEF RawFindings

\* While the observations are merged, the findings are the groups of those
\* that were.
MergeInv ==
    /\ input \in Inputs
    /\ pc = "parse" => findings = {}
    /\ pc \in {"merge", "vex"} => raw \subseteq RawFindings /\ Described(findings, RawFindings \ raw)
    /\ pc = "vex" => raw = {}

\* Nothing describes nothing.
LEMMA NothingDescribed == Described({}, {})
BY Zenon DEF Described

\* Every step of the gate keeps it.
LEMMA MergeStep == MergeInv /\ [Next]_vars => MergeInv'
<1> SUFFICES ASSUME MergeInv, [Next]_vars PROVE MergeInv'
  BY Zenon
<1>1. input' = input /\ (RawFindings' = RawFindings)
  <2>1. input' = input
    BY Zenon DEF Next, vars, Parse, merge_findings, apply_vex, apply_exceptions, decide, NextDay
  <2> QED
    BY <2>1, Zenon DEF RawFindings
<1>2. CASE Parse
  <2>1. findings = {} /\ findings' = findings /\ pc' \in {"merge", "end"} /\ (pc' = "merge" => raw' = RawFindings)
    BY <1>2, Zenon DEF Parse, MergeInv
  <2>2. RawFindings \ RawFindings = {}
    BY Zenon
  <2> QED
    BY <1>1, <2>1, <2>2, NothingDescribed, Zenon DEF MergeInv
<1>3. CASE merge_findings
  <2>1. pc = "merge" /\ raw \subseteq RawFindings /\ Described(findings, RawFindings \ raw)
    BY <1>3, Zenon DEF merge_findings, MergeInv
  <2>2. CASE raw = {} /\ pc' = "vex" /\ raw' = raw /\ findings' = findings
    BY <1>1, <2>1, <2>2, Zenon DEF MergeInv
  <2>3. ASSUME NEW r \in raw, findings' = MergeRaw(r), raw' = raw \ {r}, pc' = pc PROVE MergeInv'
    <3>1. IsRaw(r) /\ \A q \in RawFindings \ raw : IsRaw(q)
      BY <2>1, RawFindingsAreRaw, Zenon DEF MergeInv
    <3>2. RawFindings \ raw' = (RawFindings \ raw) \union {r}
      BY <2>1, <2>3, Zenon
    <3>3. Described(MergeRaw(r), (RawFindings \ raw) \union {r})
      BY <2>1, <3>1, MergeDescribes, Zenon DEF MergeRaw
    <3> QED
      BY <1>1, <2>1, <2>3, <3>2, <3>3, Zenon DEF MergeInv
  <2> QED
    BY <1>3, <2>2, <2>3, Zenon DEF merge_findings
<1>4. CASE apply_vex \/ apply_exceptions \/ decide
  BY <1>1, <1>4, Zenon DEF apply_vex, apply_exceptions, decide, MergeInv
<1>5. CASE NextDay
  BY <1>1, <1>5, Zenon DEF NextDay, MergeInv
<1>6. CASE UNCHANGED vars
  BY <1>1, <1>6, Zenon DEF vars, MergeInv
<1> QED
  BY <1>2, <1>3, <1>4, <1>5, <1>6, ZenonT(60) DEF Next

\* Whatever order the reports list their observations in, the findings that
\* the rest of the gate judges are the connected groups of the observations,
\* each with all that they say (merge_findings).
THEOREM FindingsGroup == Spec => []FindingsAreTheGroups
<1>1. Init => MergeInv
  BY Zenon DEF Init, MergeInv
<1>2. ASSUME MergeInv, pc = "vex" PROVE FindingsAreTheGroups
  <2>1. Described(findings, RawFindings)
    BY <1>2, Zenon DEF MergeInv
  <2>2. ASSUME NEW f \in findings, NEW r \in RawFindings, Same(f, r) PROVE {g \in findings : Same(g, r)} = {f}
    <3>1. ASSUME NEW g \in findings, Same(g, r) PROVE g = f
      <4>1. Describes(f, Group(f, RawFindings)) /\ r \in Group(f, RawFindings)
        BY <2>1, <2>2, Zenon DEF Described, Group
      <4>2. r.ids \subseteq f.ids /\ r.package = f.package /\ r.version = f.version
        BY <4>1, GroupIds, Zenon
      <4>3. PICK i : i \in g.ids /\ i \in r.ids
        BY <3>1, Zenon DEF Same
      <4>4. i \in g.ids \intersect f.ids
        BY <4>2, <4>3, Zenon
      <4>5. g.package = f.package /\ g.version = f.version
        BY <3>1, <4>2, Zenon DEF Same
      <4>6. Same(g, f)
        BY <4>4, <4>5, Zenon DEF Same
      <4> QED
        BY <2>1, <4>6, Zenon DEF Described
    <3> QED
      BY <2>2, <3>1, Zenon
  <2>3. ASSUME NEW r \in RawFindings PROVE Cardinality({g \in findings : Same(g, r)}) = 1
    <3>1. PICK f \in findings : Same(f, r)
      BY <2>1, Zenon DEF Described
    <3>2. {g \in findings : Same(g, r)} = {f}
      BY <2>2, <3>1, Zenon
    <3> QED
      BY <3>2, FS_Singleton, Zenon
  <2>4. ASSUME NEW f \in findings
        PROVE  LET G == {r \in RawFindings : Same(f, r)}
                   rated == {r.severity : r \in G} \ {"unknown"}
               IN  /\ G # {} /\ f.ids = UNION {r.ids : r \in G}
                   /\ \A part \in (SUBSET G) \ {{}, G} : \E a \in part, b \in G \ part : Same(a, b)
                   /\ f.fixed = \E r \in G : r.fixed
                   /\ f.application = \E r \in G : r.application
                   /\ IF rated = {} THEN f.severity = "unknown"
                      ELSE /\ f.severity \in rated
                           /\ \A s \in rated : SEVERITY_ORDER[s] <= SEVERITY_ORDER[f.severity]
    <3> DEFINE G == {r \in RawFindings : Same(f, r)}
    <3>1. Describes(f, G)
      BY <2>1, Zenon DEF Described, Group
    <3>2. IsHighest(f.severity, {r.severity : r \in G})
      BY <3>1, Zenon DEF Describes
    <3>3. G # {} /\ f.ids = UNION {r.ids : r \in G}
      BY <3>1, Zenon DEF Describes
    <3>4. \A part \in (SUBSET G) \ {{}, G} : \E a \in part, b \in G \ part : Same(a, b)
      BY <3>1, Zenon DEF Describes
    <3>5. f.fixed = (\E r \in G : r.fixed) /\ f.application = (\E r \in G : r.application)
      BY <3>1, Zenon DEF Describes
    <3> HIDE DEF G
    <3> DEFINE rated == {r.severity : r \in G} \ {"unknown"}
    <3>6. IF rated = {} THEN f.severity = "unknown"
          ELSE f.severity \in rated /\ \A s \in rated : SEVERITY_ORDER[s] <= SEVERITY_ORDER[f.severity]
      BY <3>2, Zenon DEF IsHighest
    <3> HIDE DEF rated
    <3> QED
      BY <3>3, <3>4, <3>5, <3>6, Zenon DEF G, rated
  <2> QED
    BY <2>3, <2>4, Zenon DEF FindingsAreTheGroups
<1>3. MergeInv => FindingsAreTheGroups
  BY <1>2, Zenon DEF FindingsAreTheGroups
<1> QED
  BY <1>1, <1>3, MergeStep, PTL DEF Spec

\* An exception of the file, reviewed and in force, that names the finding.
Excepted(f) ==
    \E i \in DOMAIN input.exceptions :
        LET x == input.exceptions[i]
        IN  /\ normalise_package(x.name) = f.package /\ x.id \in f.ids
            /\ x.reviewed /\ x.created <= today /\ today <= x.expires

\* f says no less than the observation r.
Says(f, r) ==
    /\ Same(f, r)
    /\ r.fixed => f.fixed
    /\ r.application => f.application
    /\ r.severity \in {"critical", "high"} => f.severity \in {"critical", "high"}

\* Nothing but OpenVEX and the exceptions takes a finding away, each what it
\* may.
Judged ==
    /\ \A r \in RawFindings : \E f \in findings : Says(f, r)
    /\ \A f \in findings :
           /\ IsFinding(f) /\ f.status \in {"open", "vex", "accepted"}
           /\ f.status = "vex" => ~f.application
           /\ f.status = "accepted" => ~f.fixed /\ Excepted(f)

AllReadable == Readable(input.scout) /\ Readable(input.snyk) /\ Readable(input.pip)

GateInv ==
    /\ today \in Int
    /\ pc # "end" => exit = NoExit
    /\ pc \in {"merge", "vex", "except", "decide"} \/ exit = 0 => AllReadable
    /\ pc \in {"except", "decide"} \/ exit = 0 => Judged
    /\ pc = "except" =>
           /\ waiting \in Seq({input.exceptions[i] : i \in DOMAIN input.exceptions})
    /\ exit = 0 => \A f \in findings : ~Blocking(f)

\* A finding that changes its status keeps the rest.
LEMMA WithStatus ==
    ASSUME NEW f, IsFinding(f), NEW s, NEW g, g = [f EXCEPT !.status = s]
    PROVE  /\ IsFinding(g) /\ g.ids = f.ids /\ g.package = f.package /\ g.version = f.version
           /\ g.severity = f.severity /\ g.fixed = f.fixed /\ g.application = f.application /\ g.status = s
<1>1. f = [ids |-> f.ids, package |-> f.package, version |-> f.version, severity |-> f.severity,
           fixed |-> f.fixed, application |-> f.application, status |-> f.status]
  BY Zenon DEF IsFinding
<1>2. g = [ids |-> f.ids, package |-> f.package, version |-> f.version, severity |-> f.severity,
           fixed |-> f.fixed, application |-> f.application, status |-> s]
  BY <1>1, SMTT(60)
<1>3. /\ g.ids = f.ids /\ g.package = f.package /\ g.version = f.version /\ g.severity = f.severity
      /\ g.fixed = f.fixed /\ g.application = f.application /\ g.status = s
  BY <1>2, Zenon
<1>4. IsFinding(g)
  BY <1>2, <1>3, Zenon DEF IsFinding
<1> QED
  BY <1>3, <1>4, Zenon

\* A finding says no less than each observation of its group.
LEMMA FindingSays ==
    ASSUME NEW f, NEW D, Describes(f, Group(f, D)), NEW r \in D, Same(f, r)
    PROVE  Says(f, r)
<1> DEFINE G == Group(f, D)
<1>1. r \in G
  BY Zenon DEF Group
<1> HIDE DEF G
<1>2. /\ f.fixed = \E q \in G : q.fixed
      /\ f.application = \E q \in G : q.application
      /\ IsHighest(f.severity, {q.severity : q \in G})
      /\ f.severity \in Severities
  BY Zenon DEF Describes, IsFinding, G
<1>3. (r.fixed => f.fixed) /\ (r.application => f.application)
  BY <1>1, <1>2, Zenon
<1>4. ASSUME r.severity \in {"critical", "high"} PROVE f.severity \in {"critical", "high"}
  <2> DEFINE S == {q.severity : q \in G}
  <2>1. r.severity \in S \ {"unknown"}
    BY <1>1, <1>4
  <2> HIDE DEF S
  <2>2. f.severity # "unknown" /\ SEVERITY_ORDER[r.severity] <= SEVERITY_ORDER[f.severity]
    BY <1>2, <2>1, Zenon DEF IsHighest, S
  <2> QED
    BY <1>2, <1>4, <2>2, Ranks, SMTT(60) DEF Severities
<1> QED
  BY <1>3, <1>4, ZenonT(60) DEF Says

\* Giving the findings of A a status that they may have.
LEMMA Rejudged ==
    ASSUME Judged, UNCHANGED <<input, today>>, NEW A, NEW t \in {"vex", "accepted"},
           findings' = {[f EXCEPT !.status = IF f \in A THEN t ELSE @] : f \in findings},
           \A f \in findings : f \in A =>
               (t = "vex" => ~f.application) /\ (t = "accepted" => ~f.fixed /\ Excepted(f))
    PROVE  Judged'
<1> DEFINE New(f) == [f EXCEPT !.status = IF f \in A THEN t ELSE @]
<1>1. ASSUME NEW f \in findings
      PROVE  /\ IsFinding(New(f)) /\ New(f).ids = f.ids /\ New(f).package = f.package /\ New(f).version = f.version
             /\ New(f).severity = f.severity /\ New(f).fixed = f.fixed /\ New(f).application = f.application
             /\ New(f).status = IF f \in A THEN t ELSE f.status
  <2>1. IsFinding(f)
    BY Zenon DEF Judged
  <2>2. PICK s : s = IF f \in A THEN t ELSE f.status
    BY Zenon
  <2>3. New(f) = [f EXCEPT !.status = s]
    BY <2>2, Zenon
  <2> HIDE DEF New
  <2>4. PICK g : g = New(f)
    BY Zenon
  <2>5. g = [f EXCEPT !.status = s]
    BY <2>3, <2>4, Zenon
  <2>6. /\ IsFinding(g) /\ g.ids = f.ids /\ g.package = f.package /\ g.version = f.version
        /\ g.severity = f.severity /\ g.fixed = f.fixed /\ g.application = f.application /\ g.status = s
    BY <2>1, <2>5, WithStatus, SMTT(60)
  <2> QED
    BY <2>2, <2>4, <2>6
<1>2. findings' = {New(f) : f \in findings}
  BY Zenon
<1> HIDE DEF New
<1>3. RawFindings' = RawFindings
  BY Zenon DEF RawFindings
<1>4. ASSUME NEW r \in RawFindings PROVE \E g \in findings' : Says(g, r)
  <2>1. PICK f \in findings : Says(f, r)
    BY Zenon DEF Judged
  <2>2. Same(New(f), r)
    BY <1>1, <2>1, Zenon DEF Says, Same
  <2>3. Says(New(f), r)
    BY <1>1, <2>1, <2>2, Zenon DEF Says
  <2> QED
    BY <1>2, <2>3, Zenon
<1>5. ASSUME NEW g \in findings'
      PROVE  /\ IsFinding(g) /\ g.status \in {"open", "vex", "accepted"}
             /\ g.status = "vex" => ~g.application
             /\ g.status = "accepted" => ~g.fixed /\ Excepted(g)
  <2>1. PICK f \in findings : g = New(f)
    BY <1>2, Zenon
  <2>2. /\ f.status \in {"open", "vex", "accepted"}
        /\ f.status = "vex" => ~f.application
        /\ f.status = "accepted" => ~f.fixed /\ Excepted(f)
    BY Zenon DEF Judged
  <2>3. Excepted(f) => Excepted(New(f))
    BY <1>1, Zenon DEF Excepted
  <2>4. CASE f \in A
    <3>1. New(f).status = t /\ (t = "vex" => ~f.application) /\ (t = "accepted" => ~f.fixed /\ Excepted(f))
      BY <1>1, <2>4, Zenon
    <3> QED
      BY <1>1, <2>1, <2>3, <3>1, Zenon
  <2>5. CASE f \notin A
    <3>1. New(f).status = f.status
      BY <1>1, <2>5, Zenon
    <3> QED
      BY <1>1, <2>1, <2>2, <2>3, <3>1, ZenonT(60)
  <2> QED
    BY <2>4, <2>5, ZenonT(60)
<1>6. \A g : Excepted(g)' <=> Excepted(g)
  BY Zenon DEF Excepted
<1> QED
  BY <1>3, <1>4, <1>5, <1>6, Zenon DEF Judged

\* Every step of the gate keeps what has been judged true to the reports.
LEMMA GateStep == MergeInv /\ GateInv /\ [Next]_vars => GateInv'
<1> SUFFICES ASSUME MergeInv, GateInv, [Next]_vars PROVE GateInv'
  BY Zenon
<1> DEFINE X == {input.exceptions[i] : i \in DOMAIN input.exceptions}
<1>1. input' = input /\ RawFindings' = RawFindings /\ input \in Inputs
  <2>1. input' = input
    BY Zenon DEF Next, vars, Parse, merge_findings, apply_vex, apply_exceptions, decide, NextDay
  <2> QED
    BY <2>1, Zenon DEF RawFindings, MergeInv
<1>2. AllReadable => AllReadable'
  BY <1>1, Zenon DEF AllReadable, Readable
<1>3. ASSUME UNCHANGED <<today, findings>>, Judged PROVE Judged'
  <2>1. \A g : Excepted(g)' <=> Excepted(g)
    BY <1>1, <1>3, Zenon DEF Excepted
  <2> QED
    BY <1>1, <1>3, <2>1, Zenon DEF Judged
<1>4. CASE Parse
  <2>1. /\ pc = "parse" /\ exit = NoExit /\ today' = today
        /\ \/ pc' = "merge" /\ exit' = exit /\ AllReadable
           \/ pc' = "end" /\ exit' = 2
    BY <1>4, Zenon DEF Parse, GateInv, AllReadable
  <2>2. exit' # 0
    BY <2>1 DEF NoExit
  <2> QED
    BY <1>2, <2>1, <2>2, Zenon DEF GateInv
<1>5. CASE merge_findings
  <2>1. pc = "merge" /\ pc' \in {"merge", "vex"} /\ exit' = exit /\ today' = today /\ exit = NoExit /\ AllReadable
    BY <1>5, Zenon DEF merge_findings, GateInv
  <2>2. exit' # 0
    BY <2>1 DEF NoExit
  <2> QED
    BY <1>2, <2>1, <2>2, Zenon DEF GateInv
<1>6. CASE apply_vex
  <2>1. /\ pc = "vex" /\ pc' = "except" /\ exit' = exit /\ today' = today /\ exit = NoExit /\ AllReadable
        /\ waiting' = input.exceptions
    BY <1>6, Zenon DEF apply_vex, GateInv
  <2>2. exit' # 0
    BY <2>1 DEF NoExit
  <2>3. Described(findings, RawFindings)
    BY <2>1, Zenon DEF MergeInv
  <2>4. Judged
    <3>1. \A f \in findings : Describes(f, Group(f, RawFindings))
      BY <2>3, Zenon DEF Described
    <3>2. \A f \in findings : IsFinding(f) /\ f.status = "open"
      BY <3>1, Zenon DEF Describes
    <3>3. \A r \in RawFindings : \E f \in findings : Says(f, r)
      BY <2>3, <3>1, FindingSays, Zenon DEF Described
    <3> QED
      BY <3>2, <3>3, Zenon DEF Judged
  <2>5. Judged'
    <3>1. CASE ~input.vex.present
      BY <1>3, <1>6, <2>1, <2>4, <3>1, Zenon DEF apply_vex
    <3>2. CASE input.vex.present
      <4> DEFINE A == {f \in findings : Covered(f, parse_openvex(input.vex))}
      <4>1. findings' = {[f EXCEPT !.status = IF Covered(f, parse_openvex(input.vex)) THEN "vex" ELSE @] : f \in findings}
        BY <1>6, <3>2, Zenon DEF apply_vex
      <4>2. \A f \in findings : f \in A <=> Covered(f, parse_openvex(input.vex))
        BY Zenon
      <4>3. \A f \in findings : f \in A => ~f.application
        BY Zenon DEF Covered
      <4> HIDE DEF A
      <4>4. findings' = {[f EXCEPT !.status = IF f \in A THEN "vex" ELSE @] : f \in findings}
        BY <4>1, <4>2, SMTT(60)
      <4> QED
        BY <1>1, <2>1, <2>4, <4>3, <4>4, Rejudged, ZenonT(60)
    <3> QED
      BY <3>1, <3>2, ZenonT(60)
  <2>6. waiting' \in Seq(X)
    BY <1>1, <2>1, InputAssumption, Zenon
  <2> QED
    BY <1>1, <1>2, <2>1, <2>2, <2>5, <2>6, Zenon DEF GateInv
<1>7. CASE apply_exceptions
  <2>1. /\ pc = "except" /\ exit' = exit /\ today' = today /\ exit = NoExit /\ AllReadable /\ Judged
        /\ waiting \in Seq(X)
    BY <1>7, Zenon DEF apply_exceptions, GateInv
  <2>2. exit' # 0
    BY <2>1 DEF NoExit
  <2>3. CASE waiting = <<>>
    <3>1. pc' = "decide" /\ findings' = findings
      BY <1>7, <2>3, Zenon DEF apply_exceptions
    <3> QED
      BY <1>2, <1>3, <2>1, <2>2, <3>1, Zenon DEF GateInv
  <2>4. CASE waiting # <<>>
    <3> DEFINE x == Head(waiting)
    <3>1. x \in X /\ Tail(waiting) \in Seq(X)
      <4> HIDE DEF X
      <4> QED
        BY <2>1, <2>4, SMTT(60)
    <3>2. pc' = pc /\ waiting' = Tail(waiting)
      BY <1>7, <2>4, Zenon DEF apply_exceptions
    <3>3. CASE findings' = findings
      BY <1>1, <1>2, <1>3, <2>1, <2>2, <3>1, <3>2, <3>3, ZenonT(60) DEF GateInv
    <3>4. CASE findings' = {[f EXCEPT !.status = IF f \in Accepted(x) THEN "accepted" ELSE @] : f \in findings}
      <4>1. PICK i \in DOMAIN input.exceptions : x = input.exceptions[i]
        BY <3>1, Zenon
      <4>2. x.created \in Int /\ x.expires \in Int
        BY <1>1, <4>1, InputAssumption, Zenon
      <4>3. ASSUME NEW f \in findings, f \in Accepted(x) PROVE ~f.fixed /\ Excepted(f)
        <5>1. /\ f \in Matches(x) /\ f.status = "open" /\ Valid(x)
              /\ \A g \in Matches(x) : g.status = "open" => ~g.fixed
          BY <4>3, Zenon DEF Accepted
        <5>2. x.id \in f.ids /\ normalise_package(x.name) = f.package
          BY <5>1, Zenon DEF Matches
        <5>3. x.reviewed /\ x.created <= today /\ x.expires >= today
          BY <5>1, Zenon DEF Valid
        <5>4. today <= x.expires
          <6> HIDE DEF x
          <6> QED
            BY <4>2, <5>3 DEF GateInv
        <5> QED
          BY <4>1, <5>1, <5>2, <5>3, <5>4, ZenonT(60) DEF Excepted
      <4> HIDE DEF x
      <4>4. Judged'
        BY <1>1, <2>1, <3>4, <4>3, Rejudged, ZenonT(60)
      <4> QED
        BY <1>1, <1>2, <2>1, <2>2, <3>1, <3>2, <4>4, ZenonT(60) DEF GateInv
    <3> QED
      BY <1>7, <2>4, <3>3, <3>4, ZenonT(60) DEF apply_exceptions
  <2> QED
    BY <2>3, <2>4, Zenon
<1>8. CASE decide
  <2>1. pc = "decide" /\ pc' = "end" /\ today' = today /\ findings' = findings /\ AllReadable /\ Judged
    BY <1>8, Zenon DEF decide, GateInv
  <2>2. exit' = 0 => \A f \in findings : ~Blocking(f)
    BY <1>8 DEF decide
  <2> QED
    BY <1>2, <1>3, <2>1, <2>2, ZenonT(60) DEF GateInv
<1>9. CASE NextDay
  <2>1. pc' = "parse" /\ exit' = NoExit /\ today' = today + 1
    BY <1>9, Zenon DEF NextDay
  <2>2. exit' # 0 /\ today' \in Int
    BY <2>1 DEF NoExit, GateInv
  <2> QED
    BY <2>1, <2>2, Zenon DEF GateInv
<1>10. CASE UNCHANGED vars
  <2>1. UNCHANGED <<pc, today, findings, waiting, exit>>
    BY <1>10, Zenon DEF vars
  <2> QED
    BY <1>1, <1>2, <1>3, <2>1, Zenon DEF GateInv
<1> QED
  BY <1>4, <1>5, <1>6, <1>7, <1>8, <1>9, <1>10, ZenonT(60) DEF Next

\* When the gate passes, every report was read, nothing of the application
\* that has a fix is left, and nothing of it that is rated high without a
\* reviewed exception in force on that day (decide).
THEOREM PassesAreExplained == Spec => []PassedIsExplained
<1>1. Init => MergeInv /\ GateInv
  <2> SUFFICES ASSUME Init PROVE MergeInv /\ GateInv
    BY Zenon
  <2>1. MergeInv
    BY Zenon DEF Init, MergeInv
  <2>2. today \in Int /\ exit # 0
    BY DEF Init, NoExit
  <2> QED
    BY <2>1, <2>2, Zenon DEF Init, GateInv
<1>2. ASSUME GateInv, exit = 0 PROVE PassedIsExplained
  <2>1. AllReadable /\ Judged /\ \A f \in findings : ~Blocking(f)
    BY <1>2, Zenon DEF GateInv
  <2>2. ASSUME NEW r \in RawFindings, r.application
        PROVE  /\ ~r.fixed
               /\ r.severity \in {"critical", "high"} =>
                      \E i \in DOMAIN input.exceptions :
                          LET x == input.exceptions[i]
                          IN  /\ normalise_package(x.name) = r.package
                              /\ x.reviewed /\ x.created <= today /\ today <= x.expires
                              /\ \E f \in findings : Same(f, r) /\ x.id \in f.ids
    <3>1. PICK f \in findings : Says(f, r)
      BY <2>1, Zenon DEF Judged
    <3>2. /\ f.status \in {"open", "accepted"} /\ ~Blocking(f)
          /\ f.status = "accepted" => ~f.fixed /\ Excepted(f)
      BY <2>1, <2>2, <3>1, Zenon DEF Judged, Says
    <3>3. ~f.fixed
      BY <3>2, Zenon DEF Blocking
    <3>4. f.severity \in {"critical", "high"} => Excepted(f)
      BY <3>2, Zenon DEF Blocking, BLOCKING_UNFIXED
    <3>5. f.package = r.package
      BY <3>1, Zenon DEF Says, Same
    <3> QED
      BY <3>1, <3>3, <3>4, <3>5, Zenon DEF Says, Excepted
  <2> QED
    BY <2>1, <2>2, Zenon DEF PassedIsExplained, AllReadable
<1>3. GateInv => PassedIsExplained
  BY <1>2, Zenon DEF PassedIsExplained
<1> QED
  BY <1>1, <1>3, MergeStep, GateStep, PTL DEF Spec

-----------------------------------------------------------------------------
(* VulnerabilityIssues: the synchronisation of issues, however many scans  *)
(* and calls fail and whatever people do with the issues.                  *)

Issues == [key : Keys, open : BOOLEAN, rows : SUBSET Targets]

Actions == [kind : I!Kinds, key : Keys, number : Nat, rows : SUBSET Targets]

\* While the plan is worked off, what is to be created has no issue (as far as
\* issues can be read), what is to be changed is an issue of its key, and what is
\* to be closed was in none of the reports of all targets.
TodoInv ==
    /\ pc # "apply" => todo = {}
    /\ \A a \in todo : a.kind = "create" =>
          /\ I!AllRead /\ a.key \notin Spaced => \A n \in I!Numbers : issues[n].key # a.key
          /\ \A b \in todo : b.kind = "create" /\ b.key = a.key => b = a
    /\ \A a \in todo : a.kind # "create" => a.number \in I!Numbers /\ issues[a.number].key = a.key
    /\ \A a \in todo : a.kind = "close" => \A t \in Targets : t \in DOMAIN reports /\ a.key \notin reports[t]

IssueInv == I!TypeOK /\ I!OneIssuePerProblem /\ TodoInv

LEMMA NumbersAreNumbers ==
    ASSUME I!TypeOK
    PROVE  I!Numbers = 1..Len(issues) /\ Len(issues) \in Nat /\ \A n \in I!Numbers : issues[n] \in Issues
<1>1. issues \in Seq(Issues)
  BY Zenon DEF I!TypeOK, Issues
<1> HIDE DEF Issues
<1>2. Len(issues) \in Nat /\ DOMAIN issues = 1..Len(issues)
  BY <1>1
<1>3. \A n \in 1..Len(issues) : issues[n] \in Issues
  BY <1>1
<1> QED
  BY <1>2, <1>3, Zenon DEF I!Numbers

\* A set of numbers that is not empty has a least one, and one that is bounded
\* has a greatest one.
LEMMA LeastNumber ==
    ASSUME NEW S, S \subseteq Nat, S # {}
    PROVE  \E x \in S : \A y \in S : x <= y
<1>1. \E x \in S : \A y \in S : ~(<<y, x>> \in OpToRel(<, Nat))
  BY WFMin, NatLessThanWellFounded, Zenon
<1>2. PICK x \in S : \A y \in S : ~(<<y, x>> \in OpToRel(<, Nat))
  BY <1>1, Zenon
<1>3. ASSUME NEW y \in S
      PROVE  x <= y
  <2>1. x \in Nat /\ y \in Nat
    BY Zenon
  <2>2. y < x => <<y, x>> \in OpToRel(<, Nat)
    BY <2>1 DEF OpToRel
  <2>3. ~(y < x)
    BY <1>2, <2>2, Zenon
  <2> QED
    BY <2>1, <2>3
<1> QED
  BY <1>3, Zenon

LEMMA GreatestNumber ==
    ASSUME NEW S, NEW top \in Nat, S \subseteq 0..top, S # {}
    PROVE  \E x \in S : \A y \in S : y <= x
<1> DEFINE gaps == {top - x : x \in S}
<1>1. gaps \subseteq Nat /\ gaps # {}
  <2>1. \A x \in S : top - x \in Nat
    OBVIOUS
  <2> QED
    BY <2>1, Zenon
<1>2. PICK g \in gaps : \A h \in gaps : g <= h
  BY <1>1, LeastNumber, Zenon
<1>3. PICK x \in S : g = top - x
  BY <1>2, Zenon
<1>4. ASSUME NEW y \in S
      PROVE  y <= x
  <2>1. top - y \in gaps
    BY Zenon
  <2>2. top - x <= top - y
    BY <1>2, <1>3, <2>1, Zenon
  <2> QED
    BY <2>2, SMT
<1> QED
  BY <1>3, <1>4, Zenon

\* The issue of a key is one of those with that key.
LEMMA ByKeyHasTheKey ==
    ASSUME I!TypeOK, NEW k \in I!Known
    PROVE  I!ByKey(k) \in I!Numbers /\ issues[I!ByKey(k)].key = k
<1> DEFINE all == {m \in I!Listed : issues[m].key = k}
           open == {m \in all : issues[m].open}
<1>1. all # {} /\ all \subseteq I!Numbers /\ open \subseteq all
  BY Zenon DEF I!Known, I!Listed
<1>2. Len(issues) \in Nat /\ all \subseteq Nat /\ all \subseteq 0..Len(issues)
  BY <1>1, NumbersAreNumbers
<1>3. I!ByKey(k) = IF open # {} THEN CHOOSE m \in open : \A l \in open : l <= m
                 ELSE CHOOSE m \in all : \A l \in all : m <= l
  BY Zenon DEF I!ByKey
<1>4. open # {} => \E m \in open : \A l \in open : l <= m
  <2>1. open \subseteq 0..Len(issues)
    BY <1>1, <1>2, Zenon
  <2> QED
    BY <1>2, <2>1, GreatestNumber, Zenon
<1>5. \E m \in all : \A l \in all : m <= l
  BY <1>1, <1>2, LeastNumber, Zenon
<1>6. I!ByKey(k) \in all
  <2>1. CASE open # {}
    <3>1. I!ByKey(k) = CHOOSE m \in open : \A l \in open : l <= m
      BY <1>3, <2>1, Zenon
    <3> HIDE DEF open
    <3>2. I!ByKey(k) \in open
      BY <1>4, <2>1, <3>1, Zenon
    <3> QED
      BY <1>1, <3>2, Zenon
  <2>2. CASE open = {}
    <3>1. I!ByKey(k) = CHOOSE m \in all : \A l \in all : m <= l
      BY <1>3, <2>2, Zenon
    <3> HIDE DEF all
    <3> QED
      BY <1>5, <3>1, Zenon
  <2> QED
    BY <2>1, <2>2, Zenon
<1> QED
  BY <1>1, <1>6, Zenon

\* As long as all issues are read, a key without a space is known if it is in
\* one of them.
LEMMA AllAreRead ==
    ASSUME I!TypeOK, I!AllRead, NEW n \in I!Numbers, issues[n].key \notin Spaced
    PROVE  issues[n].key \in I!Known
<1>1. n \in I!Listed
  BY NumbersAreNumbers, ListLimitIsANumber DEF I!Listed, I!AllRead
<1> QED
  BY <1>1, Zenon DEF I!Known

\* What the plan says.
LEMMA PlanIsSound ==
    ASSUME I!TypeOK, NEW a \in I!plan_actions(I!collect_problems)
    PROVE  /\ a \in Actions
           /\ a.kind = "create" => a.key \notin I!Known /\ a = I!Action("create", a.key, 0, I!collect_problems[a.key])
           /\ a.kind # "create" => a.number \in I!Numbers /\ issues[a.number].key = a.key
           /\ a.kind = "close" => \A t \in Targets : t \in DOMAIN reports /\ a.key \notin reports[t]
<1>0. /\ DOMAIN I!collect_problems = UNION {reports[t] : t \in DOMAIN reports}
      /\ DOMAIN I!collect_problems \subseteq Keys
      /\ \A k \in DOMAIN I!collect_problems : I!collect_problems[k] \subseteq Targets
  BY Zenon DEF I!collect_problems, I!TypeOK
<1>1. I!Known \subseteq Keys /\ I!Numbers \subseteq Nat
  BY NumbersAreNumbers DEF I!Known, I!Listed, Issues
<1>2. CASE a \in I!Creates(I!collect_problems, I!Known)
  <2>1. PICK k \in DOMAIN I!collect_problems \ I!Known : a = I!Action("create", k, 0, I!collect_problems[k])
    BY <1>2, Zenon DEF I!Creates
  <2>2. a.kind = "create" /\ a.key = k /\ a.number = 0 /\ a.rows = I!collect_problems[k]
    BY <2>1, Zenon DEF I!Action
  <2>3. a \in Actions
    BY <1>0, <2>1, Zenon DEF I!Action, Actions, I!Kinds
  <2> QED
    BY <2>1, <2>2, <2>3, Zenon
<1>3. CASE a \in I!Updates(I!collect_problems)
  <2>1. PICK k \in DOMAIN I!collect_problems \intersect I!Known :
          \/ a = I!Action("reopen", k, I!ByKey(k), {})
          \/ a = I!Action("edit", k, I!ByKey(k), I!collect_problems[k])
    BY <1>3, Zenon DEF I!Updates
  <2>2. I!ByKey(k) \in I!Numbers /\ issues[I!ByKey(k)].key = k
    BY <2>1, ByKeyHasTheKey, Zenon
  <2>3. a.kind \in {"reopen", "edit"} /\ a.key = k /\ a.number = I!ByKey(k)
    BY <2>1 DEF I!Action
  <2>4. a \in Actions
    <3>1. ASSUME NEW kind \in {"reopen", "edit"}, NEW rows \in SUBSET Targets
          PROVE  I!Action(kind, k, I!ByKey(k), rows) \in Actions
      BY <1>0, <1>1, <2>2, Zenon DEF I!Action, Actions, I!Kinds
    <3>2. I!collect_problems[k] \in SUBSET Targets /\ {} \in SUBSET Targets
      BY <1>0, Zenon
    <3> QED
      BY <2>1, <3>1, <3>2, Zenon
  <2> QED
    BY <2>2, <2>3, <2>4, Zenon
<1>4. CASE I!complete /\ a \in I!Closes(I!collect_problems)
  <2>1. PICK k \in I!Known \ DOMAIN I!collect_problems : a = I!Action("close", k, I!ByKey(k), {})
    BY <1>4, Zenon DEF I!Closes
  <2>2. I!ByKey(k) \in I!Numbers /\ issues[I!ByKey(k)].key = k
    BY <2>1, ByKeyHasTheKey, Zenon
  <2>3. a.kind = "close" /\ a.key = k /\ a.number = I!ByKey(k)
    BY <2>1, Zenon DEF I!Action
  <2>4. a \in Actions
    BY <1>1, <2>1, <2>2, Zenon DEF I!Action, Actions, I!Kinds
  <2>5. \A t \in Targets : t \in DOMAIN reports /\ k \notin reports[t]
    BY <1>0, <1>4, <2>1, Zenon DEF I!complete
  <2> QED
    BY <2>2, <2>3, <2>4, <2>5, ZenonT(60)
<1> QED
  BY <1>2, <1>3, <1>4, ZenonT(60) DEF I!plan_actions

\* One planned call, made in its turn.
LEMMA CallIsSound ==
    ASSUME IssueInv, NEW a \in todo
    PROVE  /\ I!After(a) \in Seq(Issues)
           /\ \A n \in I!Numbers : n \in DOMAIN I!After(a) /\ I!After(a)[n].key = issues[n].key
           /\ Len(I!After(a)) <= ListLimit => I!AllRead
           /\ Len(I!After(a)) <= ListLimit =>
                 \A m, n \in DOMAIN I!After(a) :
                     I!After(a)[m].key = I!After(a)[n].key /\ I!After(a)[m].key \notin Spaced => m = n
           /\ \A n \in DOMAIN I!After(a) \ I!Numbers : a.kind = "create" /\ I!After(a)[n].key = a.key
           /\ \A n \in I!Numbers : issues[n].open /\ ~I!After(a)[n].open => a.kind = "close" /\ n = a.number
<1>0. a \in Actions /\ issues \in Seq(Issues)
  BY Zenon DEF IssueInv, I!TypeOK, Actions, Issues
<1>1. I!Numbers = 1..Len(issues) /\ Len(issues) \in Nat /\ \A n \in I!Numbers : issues[n] \in Issues
  BY NumbersAreNumbers, Zenon DEF IssueInv
<1>2. CASE a.kind = "create"
  <2> DEFINE new == [key |-> a.key, open |-> TRUE, rows |-> a.rows]
  <2>1. new \in Issues /\ new.key = a.key
    BY <1>0, Zenon DEF Actions, Issues
  <2>2. I!After(a) = Append(issues, new)
    BY <1>2, Zenon DEF I!After
  <2> HIDE DEF new
  <2>3. /\ I!After(a) \in Seq(Issues)
        /\ Len(I!After(a)) = Len(issues) + 1
        /\ \A i \in 1..Len(issues) : I!After(a)[i] = issues[i]
        /\ I!After(a)[Len(issues) + 1] = new
    BY <1>0, <2>1, <2>2, AppendProperties
  <2>4. DOMAIN I!After(a) = 1..(Len(issues) + 1)
    BY <2>3
  <2>5. \A n \in I!Numbers : n \in DOMAIN I!After(a) /\ I!After(a)[n] = issues[n]
    BY <1>1, <2>3, <2>4
  <2>6. \A n \in DOMAIN I!After(a) \ I!Numbers : n = Len(issues) + 1 /\ I!After(a)[n].key = a.key
    BY <1>1, <2>1, <2>3, <2>4
  <2>7. I!AllRead /\ a.key \notin Spaced => \A n \in I!Numbers : issues[n].key # a.key
    BY <1>2, Zenon DEF IssueInv, TodoInv
  <2>8. Len(I!After(a)) <= ListLimit => I!AllRead
    BY <1>1, <2>3, ListLimitIsANumber DEF I!AllRead
  <2>9. ASSUME I!AllRead, NEW m \in DOMAIN I!After(a), NEW n \in DOMAIN I!After(a),
               I!After(a)[m].key = I!After(a)[n].key, I!After(a)[m].key \notin Spaced
        PROVE  m = n
    <3>1. CASE m \in I!Numbers /\ n \in I!Numbers
      BY <2>5, <2>9, <3>1, Zenon DEF IssueInv, I!OneIssuePerProblem
    <3>2. CASE m \in I!Numbers /\ n \notin I!Numbers
      BY <2>5, <2>6, <2>7, <2>9, <3>2, ZenonT(60)
    <3>3. CASE m \notin I!Numbers /\ n \in I!Numbers
      BY <2>5, <2>6, <2>7, <2>9, <3>3, ZenonT(60)
    <3>4. CASE m \notin I!Numbers /\ n \notin I!Numbers
      BY <2>6, <3>4
    <3> QED
      BY <3>1, <3>2, <3>3, <3>4, Zenon
  <2> QED
    BY <1>2, <2>3, <2>5, <2>6, <2>8, <2>9, Zenon
<1>3. CASE a.kind # "create"
  <2>1. a.number \in I!Numbers
    BY <1>3, Zenon DEF IssueInv, TodoInv
  <2>2. /\ DOMAIN I!After(a) = I!Numbers
        /\ \A n \in I!Numbers : I!After(a)[n] \in Issues /\ I!After(a)[n].key = issues[n].key
        /\ \A n \in I!Numbers : issues[n].open /\ ~I!After(a)[n].open => a.kind = "close" /\ n = a.number
    <3>1. CASE a.kind = "reopen"
      <4>1. I!After(a) = [issues EXCEPT ![a.number].open = TRUE]
        BY <3>1, Zenon DEF I!After
      <4>2. DOMAIN I!After(a) = I!Numbers
        BY <4>1, Zenon DEF I!Numbers
      <4>3. ASSUME NEW n \in I!Numbers
            PROVE  /\ I!After(a)[n].key = issues[n].key
                   /\ I!After(a)[n] \in Issues
                   /\ n # a.number => I!After(a)[n] = issues[n]
        <5>1. CASE n = a.number
          <6>1. I!After(a)[n] = [issues[n] EXCEPT !.open = TRUE]
            BY <4>1, <5>1, Zenon DEF I!Numbers
          <6>2. issues[n] \in Issues
            BY <1>1, Zenon
          <6> QED
            BY <5>1, <6>1, <6>2, Zenon DEF Issues
        <5>2. CASE n # a.number
          BY <1>1, <4>1, <5>2, Zenon DEF I!Numbers
        <5> QED
          BY <5>1, <5>2, Zenon
      <4>4. I!After(a)[a.number].open
        <5>1. I!After(a)[a.number] = [issues[a.number] EXCEPT !.open = TRUE]
          BY <2>1, <4>1, Zenon DEF I!Numbers
        <5>2. issues[a.number] \in Issues
          BY <1>1, <2>1, Zenon
        <5> QED
          BY <5>1, <5>2, Zenon DEF Issues
      <4> QED
        BY <4>2, <4>3, <4>4, ZenonT(60)
    <3>2. CASE a.kind = "edit"
      <4>1. I!After(a) = [issues EXCEPT ![a.number].rows = a.rows]
        BY <3>2, Zenon DEF I!After
      <4>2. a.rows \in SUBSET Targets
        BY <1>0, Zenon DEF Actions
      <4> QED
        BY <1>1, <2>1, <4>1, <4>2 DEF I!Numbers, Issues
    <3>3. CASE a.kind = "close"
      <4>1. I!After(a) = [issues EXCEPT ![a.number].open = FALSE]
        BY <3>3, Zenon DEF I!After
      <4>2. DOMAIN I!After(a) = I!Numbers
        BY <4>1, ZenonT(60) DEF I!Numbers
      <4>3. ASSUME NEW n \in I!Numbers
            PROVE  /\ I!After(a)[n].key = issues[n].key
                   /\ I!After(a)[n] \in Issues
                   /\ n # a.number => I!After(a)[n] = issues[n]
        <5>1. CASE n = a.number
          <6>1. I!After(a)[n] = [issues[n] EXCEPT !.open = FALSE]
            BY <4>1, <5>1, ZenonT(60) DEF I!Numbers
          <6>2. issues[n] \in Issues
            BY <1>1, ZenonT(60)
          <6> QED
            BY <5>1, <6>1, <6>2, Zenon DEF Issues
        <5>2. CASE n # a.number
          BY <1>1, <4>1, <5>2, Zenon DEF I!Numbers
        <5> QED
          BY <5>1, <5>2, Zenon
      <4> QED
        BY <4>2, <4>3, <3>3, Zenon
    <3> QED
      BY <1>0, <1>3, <3>1, <3>2, <3>3, ZenonT(60) DEF Actions, I!Kinds
  <2>3. I!After(a) \in Seq(Issues)
    <3>1. I!After(a) \in [1..Len(issues) -> Issues]
      <4>1. I!After(a) = [n \in DOMAIN I!After(a) |-> I!After(a)[n]]
        BY <1>0, <1>3, Zenon DEF I!After, Actions, I!Kinds
      <4> QED
        BY <1>1, <2>2, <4>1, Zenon
    <3> QED
      BY <1>1, <3>1
  <2>4. Len(I!After(a)) = Len(issues)
    BY <1>1, <2>2, <2>3
  <2>5. Len(I!After(a)) <= ListLimit => I!AllRead
    BY <2>4, Zenon DEF I!AllRead
  <2> QED
    BY <1>3, <2>2, <2>3, <2>5, Zenon DEF IssueInv, I!OneIssuePerProblem
<1> QED
  BY <1>2, <1>3, Zenon

-----------------------------------------------------------------------------
(* The invariant.                                                          *)

LEMMA InitIssueInv == I!Init => IssueInv
<1> SUFFICES ASSUME I!Init
             PROVE  IssueInv
  BY Zenon
<1>1. DOMAIN issues = {} /\ DOMAIN reports = {} /\ todo = {}
  BY DEF I!Init
<1>2. I!TypeOK
  BY <1>1 DEF I!Init, I!TypeOK
<1> QED
  BY <1>1, <1>2, Zenon DEF IssueInv, I!OneIssuePerProblem, TodoInv, I!Numbers, I!AllRead

\* One call, that arrives: what remains to be done stays right.
LEMMA CallKeepsIssueInv ==
    ASSUME IssueInv, NEW a \in todo, issues' = I!After(a), todo' \in {todo \ {a}, {}},
           pc' \in {"idle", "apply"}, pc' = "idle" => todo' = {},
           UNCHANGED <<suffers, reports, left, by_hand>>
    PROVE  IssueInv'
<1>1. I!TypeOK'
  <2>1. issues' \in Seq([key : Keys, open : BOOLEAN, rows : SUBSET Targets])
    BY CallIsSound, Zenon DEF Issues
  <2> QED
    BY <2>1, Zenon DEF IssueInv, I!TypeOK
<1>2. I!OneIssuePerProblem' /\ (I!AllRead' => I!AllRead)
  BY CallIsSound, Zenon DEF I!OneIssuePerProblem, I!Numbers, I!AllRead
<1>3. todo' \subseteq todo \ {a}
  BY Zenon
<1>4. ASSUME NEW b \in todo', b.kind = "create"
      PROVE  I!AllRead' /\ b.key \notin Spaced => \A n \in I!Numbers' : issues'[n].key # b.key
  <2>0. b \in todo /\ b # a
    BY <1>3, <1>4, Zenon
  <2>1. I!AllRead' /\ b.key \notin Spaced => \A n \in I!Numbers : issues[n].key # b.key
    BY <1>2, <1>4, <2>0, Zenon DEF IssueInv, TodoInv
  <2>2. a.kind = "create" => a.key # b.key
    BY <1>4, <2>0, Zenon DEF IssueInv, TodoInv
  <2> QED
    BY <2>1, <2>2, CallIsSound, ZenonT(60) DEF I!Numbers
<1>5. ASSUME NEW b \in todo', b.kind # "create"
      PROVE  b.number \in I!Numbers' /\ issues'[b.number].key = b.key
  <2>1. b.number \in I!Numbers /\ issues[b.number].key = b.key
    BY <1>3, <1>5, Zenon DEF IssueInv, TodoInv
  <2> QED
    BY <2>1, CallIsSound, Zenon DEF I!Numbers
<1>6. TodoInv'
  BY <1>3, <1>4, <1>5, ZenonT(60) DEF IssueInv, TodoInv
<1> QED
  BY <1>1, <1>2, <1>6, ZenonT(60) DEF IssueInv

LEMMA HandKeepsIssueInv ==
    ASSUME IssueInv, NEW n \in I!Numbers, I!ClosedOrReopenedByHand(n)
    PROVE  IssueInv'
<1>0. /\ issues' = [issues EXCEPT ![n].open = ~@]
      /\ by_hand' = by_hand + 1
      /\ UNCHANGED <<suffers, pc, reports, left, todo>>
  BY Zenon DEF I!ClosedOrReopenedByHand
<1>1. I!Numbers = 1..Len(issues) /\ Len(issues) \in Nat /\ \A m \in I!Numbers : issues[m] \in Issues
  BY NumbersAreNumbers, Zenon DEF IssueInv
<1>2. I!Numbers' = I!Numbers
  BY <1>0, Zenon DEF I!Numbers
<1>3. ASSUME NEW m \in I!Numbers
      PROVE  issues'[m] \in Issues /\ issues'[m].key = issues[m].key
  <2>1. CASE m = n
    <3>1. issues'[m] = [issues[m] EXCEPT !.open = ~issues[m].open]
      BY <1>0, <2>1, Zenon DEF I!Numbers
    <3>2. issues[m] \in Issues
      BY <1>1, Zenon
    <3> QED
      BY <3>1, <3>2, Zenon DEF Issues
  <2>2. CASE m # n
    BY <1>0, <1>1, <2>2, Zenon DEF I!Numbers
  <2> QED
    BY <2>1, <2>2, Zenon
<1>4. issues' \in Seq(Issues)
  <2>1. issues' \in [1..Len(issues) -> Issues]
    <3>1. issues' = [m \in I!Numbers |-> issues'[m]]
      BY <1>0, Zenon DEF I!Numbers
    <3> QED
      BY <1>1, <1>3, <3>1, Zenon
  <2> QED
    BY <1>1, <2>1
<1>5. I!TypeOK'
  <2>1. issues' \in Seq([key : Keys, open : BOOLEAN, rows : SUBSET Targets])
    BY <1>4, Zenon DEF Issues
  <2>2. I!TypeOK
    BY Zenon DEF IssueInv
  <2>3. by_hand' \in Nat
    BY <1>0, <2>2 DEF I!TypeOK
  <2>4. UNCHANGED suffers /\ UNCHANGED pc /\ UNCHANGED reports /\ UNCHANGED left /\ UNCHANGED todo
    BY <1>0, Zenon
  <2> QED
    BY <2>1, <2>2, <2>3, <2>4, Zenon DEF I!TypeOK
<1>8. I!AllRead' = I!AllRead
  BY <1>1, <1>2, <1>4 DEF I!AllRead, I!Numbers
<1>6. I!OneIssuePerProblem'
  BY <1>2, <1>3, <1>8 DEF IssueInv, I!OneIssuePerProblem
<1>7. TodoInv'
  BY <1>0, <1>2, <1>3, <1>8 DEF IssueInv, TodoInv
<1> QED
  BY <1>5, <1>6, <1>7, Zenon DEF IssueInv

LEMMA PlanKeepsIssueInv ==
    ASSUME IssueInv, I!Plan
    PROVE  IssueInv'
<1>0. /\ todo' = I!plan_actions(I!collect_problems) /\ pc' = "apply"
      /\ UNCHANGED <<suffers, issues, reports, left, by_hand>>
  BY Zenon DEF I!Plan
<1>1. I!TypeOK /\ I!OneIssuePerProblem
  BY Zenon DEF IssueInv
<1>2. I!TypeOK'
  <2>1. todo' \subseteq [kind : I!Kinds, key : Keys, number : Nat, rows : SUBSET Targets]
    BY <1>0, <1>1, PlanIsSound, Zenon DEF Actions
  <2> QED
    BY <1>0, <1>1, <2>1, Zenon DEF I!TypeOK
<1>3. I!OneIssuePerProblem' /\ I!Numbers' = I!Numbers /\ I!AllRead' = I!AllRead
  BY <1>0, <1>1, Zenon DEF I!OneIssuePerProblem, I!Numbers, I!AllRead
<1>4. ASSUME NEW a \in todo', a.kind = "create"
      PROVE  /\ I!AllRead /\ a.key \notin Spaced => \A n \in I!Numbers : issues[n].key # a.key
             /\ \A b \in todo' : b.kind = "create" /\ b.key = a.key => b = a
  <2>1. a.key \notin I!Known
    BY <1>0, <1>1, <1>4, PlanIsSound, ZenonT(60)
  <2>2. \A b \in todo' : b.kind = "create" => b = I!Action("create", b.key, 0, I!collect_problems[b.key])
    BY <1>0, <1>1, PlanIsSound, ZenonT(60)
  <2> QED
    BY <1>1, <1>4, <2>1, <2>2, AllAreRead, Zenon
<1>5. ASSUME NEW a \in todo'
      PROVE  /\ a.kind # "create" => a.number \in I!Numbers /\ issues[a.number].key = a.key
             /\ a.kind = "close" => \A t \in Targets : t \in DOMAIN reports /\ a.key \notin reports[t]
  BY <1>0, <1>1, PlanIsSound, Zenon
<1>6. TodoInv'
  BY <1>0, <1>3, <1>4, <1>5, Zenon DEF TodoInv
<1> QED
  BY <1>2, <1>3, <1>6, Zenon DEF IssueInv

\* No other step changes an issue or the plan.
LEMMA ScansKeepIssueInv ==
    ASSUME IssueInv, UNCHANGED <<issues, todo, by_hand>>,
           \/ pc = "apply" /\ UNCHANGED reports /\ pc' \in {"apply", "idle"} /\ (pc' = "idle" => todo = {})
           \/ pc # "apply" /\ pc' \in {"idle", "scan", "plan"},
           suffers' \in [Targets -> SUBSET Keys], left' \subseteq Targets,
           DOMAIN reports' \subseteq Targets, \A t \in DOMAIN reports' : reports'[t] \subseteq Keys
    PROVE  IssueInv'
<1>1. I!TypeOK' /\ I!OneIssuePerProblem' /\ I!Numbers' = I!Numbers /\ I!AllRead' = I!AllRead
  BY Zenon DEF IssueInv, I!TypeOK, I!OneIssuePerProblem, I!Numbers, I!AllRead
<1>2. CASE pc = "apply" /\ UNCHANGED reports /\ pc' \in {"apply", "idle"} /\ (pc' = "idle" => todo = {})
  <2>1. TodoInv'
    BY <1>1, <1>2, Zenon DEF IssueInv, TodoInv
  <2> QED
    BY <1>1, <2>1, Zenon DEF IssueInv
<1>3. CASE pc # "apply"
  <2>1. todo' = {}
    BY <1>3, Zenon DEF IssueInv, TodoInv
  <2> QED
    BY <1>1, <2>1, Zenon DEF IssueInv, TodoInv
<1> QED
  BY <1>2, <1>3, Zenon

LEMMA StepKeepsIssueInv == IssueInv /\ [I!Next]_(I!vars) => IssueInv'
<1> SUFFICES ASSUME IssueInv, [I!Next]_(I!vars)
             PROVE  IssueInv'
  BY Zenon
<1>0. I!TypeOK /\ TodoInv
  BY Zenon DEF IssueInv
<1>1. ASSUME NEW t \in Targets, NEW k \in Keys, I!Changed(t, k)
      PROVE  IssueInv'
  <2>1. suffers' \in [Targets -> SUBSET Keys]
    BY <1>0, <1>1, Zenon DEF I!Changed, I!TypeOK
  <2> QED
    BY <1>0, <1>1, <2>1, ScansKeepIssueInv, ZenonT(60) DEF I!Changed, I!TypeOK, TodoInv
<1>2. ASSUME NEW n \in I!Numbers, I!ClosedOrReopenedByHand(n)
      PROVE  IssueInv'
  BY <1>2, HandKeepsIssueInv, Zenon
<1>3. CASE I!Start
  <2>1. DOMAIN reports' = {}
    BY <1>3 DEF I!Start
  <2>2. /\ pc # "apply" /\ pc' = "scan" /\ left' = Targets
        /\ UNCHANGED <<suffers, issues, todo, by_hand>>
    BY <1>3, Zenon DEF I!Start
  <2>3. suffers' \in [Targets -> SUBSET Keys]
    BY <1>0, <2>2, Zenon DEF I!TypeOK
  <2> QED
    BY <2>1, <2>2, <2>3, ScansKeepIssueInv, ZenonT(60)
<1>4. ASSUME NEW t \in Targets, I!Scanned(t)
      PROVE  IssueInv'
  <2>1. /\ DOMAIN reports' \subseteq Targets
        /\ \A u \in DOMAIN reports' : reports'[u] \subseteq Keys
    BY <1>0, <1>4, Zenon DEF I!Scanned, I!TypeOK
  <2> QED
    BY <1>0, <1>4, <2>1, ScansKeepIssueInv, ZenonT(60) DEF I!Scanned, I!TypeOK
<1>5. ASSUME NEW t \in Targets, I!ScanFailed(t)
      PROVE  IssueInv'
  BY <1>0, <1>5, ScansKeepIssueInv, ZenonT(60) DEF I!ScanFailed, I!TypeOK
<1>6. CASE I!ScansDone
  BY <1>0, <1>6, ScansKeepIssueInv, ZenonT(60) DEF I!ScansDone, I!TypeOK
<1>7. CASE I!Plan
  BY <1>7, PlanKeepsIssueInv, ZenonT(60)
<1>8. ASSUME NEW a \in todo, I!Apply(a)
      PROVE  IssueInv'
  BY <1>8, CallKeepsIssueInv, Zenon DEF I!Apply
<1>9. ASSUME NEW a \in todo, NEW arrived \in BOOLEAN, I!ApplyFails(a, arrived)
      PROVE  IssueInv'
  <2>1. CASE arrived
    BY <1>9, <2>1, CallKeepsIssueInv, Zenon DEF I!ApplyFails
  <2>2. CASE ~arrived
    <3>1. /\ todo' = {} /\ pc' = "idle"
          /\ UNCHANGED <<suffers, issues, reports, left, by_hand>>
      BY <1>9, <2>2, Zenon DEF I!ApplyFails
    <3> QED
      BY <1>0, <3>1, Zenon DEF IssueInv, I!TypeOK, I!OneIssuePerProblem, TodoInv, I!Numbers, I!AllRead
  <2> QED
    BY <2>1, <2>2, Zenon
<1>10. CASE I!Done
  BY <1>0, <1>10, ScansKeepIssueInv, Zenon DEF I!Done, I!TypeOK
<1>11. CASE UNCHANGED I!vars
  BY <1>11, ZenonT(60) DEF I!vars, IssueInv, I!TypeOK, I!OneIssuePerProblem, TodoInv, I!Numbers, I!AllRead
<1> QED
  BY <1>1, <1>2, <1>3, <1>4, <1>5, <1>6, <1>7, <1>8, <1>9, <1>10, <1>11, ZenonT(60) DEF I!Next, I!Work

\* The plan stays true to the issues while it is worked off.
THEOREM IssuesInvariant == I!Spec => []IssueInv
BY InitIssueInv, StepKeepsIssueInv, PTL DEF I!Spec

\* "keeps exactly one issue per actionable problem" (the docstring of
\* scripts/vulnerability_issues.py): whatever calls fail or are lost half-way, a
\* key without a space has at most one issue as long as there are no more issues
\* than list_issues reads.
THEOREM OneIssueEach == I!Spec => []I!OneIssuePerProblem
<1>1. IssueInv => I!OneIssuePerProblem
  BY Zenon DEF IssueInv
<1> QED
  BY <1>1, IssuesInvariant, PTL

\* The tool's own steps close an issue only when its problem is in no report of
\* a run that has one for every target.
LEMMA ClosesAreFull ==
    ASSUME IssueInv, [I!Next]_(I!vars), NEW n \in I!Numbers, by_hand' = by_hand, issues[n].open, ~issues'[n].open
    PROVE  \A t \in Targets : t \in DOMAIN reports /\ issues[n].key \notin reports[t]
<1>1. ASSUME NEW a \in todo, issues' = I!After(a)
      PROVE  \A t \in Targets : t \in DOMAIN reports /\ issues[n].key \notin reports[t]
  <2>1. a.kind = "close" /\ n = a.number
    BY <1>1, CallIsSound, ZenonT(60)
  <2>2. issues[a.number].key = a.key
    BY <2>1, Zenon DEF IssueInv, TodoInv
  <2> QED
    BY <2>1, <2>2, Zenon DEF IssueInv, TodoInv
<1>2. issues' # issues
  BY Zenon
<1>3. \A m \in I!Numbers : ~I!ClosedOrReopenedByHand(m)
  BY DEF I!ClosedOrReopenedByHand, IssueInv, I!TypeOK
<1>4. \E a \in todo : issues' = I!After(a)
  <2>1. \/ \E a \in todo : I!Apply(a)
        \/ \E a \in todo, arrived \in BOOLEAN : I!ApplyFails(a, arrived)
    BY <1>2, <1>3, ZenonT(60) DEF I!Next, I!Work, I!vars, I!Changed, I!Start, I!Scanned, I!ScanFailed, I!ScansDone, I!Plan, I!Done
  <2> QED
    BY <1>2, <2>1, ZenonT(60) DEF I!Apply, I!ApplyFails
<1> QED
  BY <1>1, <1>4, ZenonT(60)

\* "a partial run can never close a live issue" (the same docstring): the tool
\* closes an issue only after a scan of all targets without its problem.
THEOREM PartialScansDoNotClose == I!Spec => I!OnlyAFullScanCloses
<1>1. IssueInv /\ [I!Next]_(I!vars) =>
        [\A n \in I!Numbers :
            (by_hand' = by_hand /\ issues[n].open /\ ~issues'[n].open) =>
                \A t \in Targets : t \in DOMAIN reports /\ issues[n].key \notin reports[t]]_(I!vars)
  BY ClosesAreFull, Zenon
<1> QED
  BY <1>1, IssuesInvariant, PTL DEF I!Spec, I!OnlyAFullScanCloses
=============================================================================
