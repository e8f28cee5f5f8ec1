------------------------- MODULE PlanCompilerProofs -------------------------
(***************************************************************************)
(* What a compiled plan holds, for every catalogue and every plan.         *)
(***************************************************************************)
EXTENDS PlanCompiler, Integers, TLAPS

LEMMA SeqMonotonic ==
  ASSUME NEW S, NEW T, NEW seq \in Seq(S), S \subseteq T
  PROVE  seq \in Seq(T)
OBVIOUS
LEMMA EmptySeq ==
   ASSUME NEW S
   PROVE /\ << >> \in Seq(S)
         /\ Len(<< >>) = 0
         /\ \A seq \in Seq(S) : (seq # << >>) => (Len(seq) \in Nat \ {0})
OBVIOUS
LEMMA LenProperties == 
  ASSUME NEW S, NEW seq \in Seq(S)
  PROVE  /\ Len(seq) \in Nat
         /\ seq \in [1..Len(seq) -> S]
         /\ DOMAIN seq = 1 .. Len(seq) 
OBVIOUS
LEMMA ExceptSeq ==
  ASSUME NEW S, NEW seq \in Seq(S), NEW i \in 1 .. Len(seq), NEW e \in S
  PROVE  /\ [seq EXCEPT ![i] = e] \in Seq(S)
         /\ Len([seq EXCEPT ![i] = e]) = Len(seq)
         /\ \A j \in 1 .. Len(seq) : [seq EXCEPT ![i] = e][j] = IF j=i THEN e ELSE seq[j]
OBVIOUS
LEMMA SubSeqProperties ==
  ASSUME NEW S, NEW s, NEW m \in Int, NEW n \in Int,
         \A i \in m .. n : s[i] \in S
   PROVE /\ SubSeq(s,m,n) \in Seq(S)
         /\ Len(SubSeq(s,m,n)) = IF m<=n THEN n-m+1 ELSE 0
         /\ \A i \in 1 .. n-m+1 : SubSeq(s,m,n)[i] = s[m+i-1]
OBVIOUS
LEMMA AppendProperties ==
  ASSUME NEW S, NEW seq \in Seq(S), NEW elt \in S
  PROVE  /\ Append(seq, elt) \in Seq(S)
         /\ Append(seq, elt) # << >>
         /\ Len(Append(seq, elt)) = Len(seq)+1
         /\ \A i \in 1.. Len(seq) : Append(seq, elt)[i] = seq[i]
         /\ Append(seq, elt)[Len(seq)+1] = elt
OBVIOUS


Needed(c) == c \in LeastClosed(call.direct \intersect Known, call.dependencies)

\* The visits in progress: each of a case not listed yet, and of no case twice.
Waits(st) ==
    /\ \A k \in 1 .. Len(st) :
          st[k].case \in visiting /\ st[k].case \notin visited /\ Needed(st[k].case)
    /\ \A k, l \in 1 .. Len(st) : st[k].case = st[l].case => k = l

\* The dependencies a visit has passed are listed, or being visited, or in now.
Served(st, now) ==
    \A k \in 1 .. Len(st) : \A j \in 1 .. Len(call.dependencies[st[k].case]) :
        j < st[k].next =>
            \/ call.dependencies[st[k].case][j] \in visited
            \/ k < Len(st) /\ call.dependencies[st[k].case][j] = st[k + 1].case
            \/ k = Len(st) /\ call.dependencies[st[k].case][j] \in now

\* So are the selected cases that the outer loop has passed.
Rooted(st, upto, now) ==
    \A i \in 1 .. upto : call.order[i] \in call.direct =>
        \/ call.order[i] \in visited
        \/ st # <<>> /\ st[1].case = call.order[i]
        \/ st = <<>> /\ call.order[i] \in now

WalkInv ==
    /\ OrderTypeOK
    /\ visited = Elements(ordered)
    /\ DependenciesFirst
    /\ CompiledOnce
    /\ \A c \in visited : Needed(c)
    /\ outcome \in {"running", "ordered"} =>
          Waits(stack) /\ Served(stack, {}) /\ Rooted(stack, root, {})
    /\ outcome = "ordered" => stack = <<>> /\ root = Len(call.order)

-----------------------------------------------------------------------------

LEMMA AppendFacts ==
    ASSUME NEW T, NEW s \in Seq(T), NEW x \in T
    PROVE  /\ Append(s, x) \in Seq(T)
           /\ Append(s, x) # <<>>
           /\ Len(Append(s, x)) = Len(s) + 1
           /\ \A i \in 1 .. Len(s) : Append(s, x)[i] = s[i]
           /\ Append(s, x)[Len(s) + 1] = x
           /\ DOMAIN s = 1 .. Len(s)
           /\ DOMAIN Append(s, x) = 1 .. Len(s) + 1
OBVIOUS

LEMMA ButLast ==
    ASSUME NEW T, NEW s \in Seq(T), s # <<>>
    PROVE  /\ SubSeq(s, 1, Len(s) - 1) \in Seq(T)
           /\ Len(s) \in Nat \ {0}
           /\ Len(SubSeq(s, 1, Len(s) - 1)) = Len(s) - 1
           /\ \A i \in 1 .. Len(s) - 1 : SubSeq(s, 1, Len(s) - 1)[i] = s[i]
           /\ s[Len(s)] \in T
<1>1. Len(s) \in Nat \ {0} /\ \A i \in 1 .. Len(s) : s[i] \in T
  BY EmptySeq, LenProperties, Zenon
<1>2. 1 \in Int /\ Len(s) - 1 \in Int /\ \A i \in 1 .. Len(s) - 1 : s[i] \in T
  BY <1>1
<1> DEFINE t == SubSeq(s, 1, Len(s) - 1)
<1>3. /\ t \in Seq(T)
      /\ Len(t) = IF 1 <= Len(s) - 1 THEN Len(s) - 1 - 1 + 1 ELSE 0
      /\ \A i \in 1 .. Len(s) - 1 - 1 + 1 : t[i] = s[1 + i - 1]
  BY <1>2, SubSeqProperties
<1>. HIDE DEF t
<1>4. Len(t) = Len(s) - 1
  <2>1. ASSUME NEW n \in Nat \ {0}, NEW m, m = IF 1 <= n - 1 THEN n - 1 - 1 + 1 ELSE 0
        PROVE  m = n - 1
    BY <2>1
  <2>. QED
    BY <1>1, <1>3, <2>1, Zenon
<1>5. ASSUME NEW i \in 1 .. Len(s) - 1 PROVE t[i] = s[i]
  <2>1. i \in 1 .. Len(s) - 1 - 1 + 1 /\ 1 + i - 1 = i
    BY <1>1
  <2>. QED
    BY <1>3, <2>1, Zenon
<1>. QED
  BY <1>1, <1>3, <1>4, <1>5 DEF t

\* The listed cases after one more.
LEMMA ElementsAppend ==
    ASSUME NEW T, NEW s \in Seq(T), NEW x \in T
    PROVE  Elements(Append(s, x)) = Elements(s) \union {x}
BY AppendFacts DEF Elements

\* The frame on top moves to its next dependency.
LEMMA Advanced ==
    ASSUME stack \in Seq(Frames), stack # <<>>, NEW below,
           below = [stack EXCEPT ![Len(stack)].next = @ + 1]
    PROVE  /\ below \in Seq(Frames)
           /\ below # <<>>
           /\ Len(below) = Len(stack)
           /\ \A k \in 1 .. Len(stack) : below[k].case = stack[k].case
           /\ \A k \in 1 .. Len(stack) - 1 : below[k].next = stack[k].next
           /\ below[Len(stack)].next = Top.next + 1
<1>1. Len(stack) \in Nat \ {0} /\ Top \in Frames
  BY EmptySeq, LenProperties DEF Top
<1> DEFINE frame == [case |-> Top.case, next |-> Top.next + 1]
<1>2. Top.case \in CaseIds /\ Top.next \in Nat \ {0} /\ Top = [case |-> Top.case, next |-> Top.next]
  BY <1>1, Zenon DEF Frames
<1>6. frame \in Frames /\ frame.case = Top.case /\ frame.next = Top.next + 1
  BY <1>2 DEF Frames
<1>7. [Top EXCEPT !.next = @ + 1] = frame
  BY <1>2
<1>3. below = [stack EXCEPT ![Len(stack)] = frame]
  BY <1>7, Zenon DEF Top
<1>. HIDE DEF frame
<1>4. /\ below \in Seq(Frames)
      /\ Len(below) = Len(stack)
      /\ \A k \in 1 .. Len(stack) : below[k] = IF k = Len(stack) THEN frame ELSE stack[k]
  BY <1>1, <1>6, <1>3, ExceptSeq, SMTT(60)
<1>5. below # <<>>
  BY <1>1, <1>4, EmptySeq, Zenon
<1>. QED
  BY <1>1, <1>6, <1>4, <1>5 DEF Top

\* A case that a needed case depends on is needed.
LEMMA NeedsItsDependencies ==
    ASSUME call \in Calls, NEW c \in CaseIds, Needed(c),
           NEW j \in 1 .. Len(call.dependencies[c])
    PROVE  Needed(call.dependencies[c][j])
<1>1. call.dependencies[c] \in Seq(CaseIds)
  BY Zenon DEF Calls
<1>2. call.dependencies[c][j] \in CaseIds /\ call.dependencies[c][j] \in Elements(call.dependencies[c])
  BY <1>1 DEF Elements
<1>. QED
  BY <1>2, Zenon DEF Needed, LeastClosed

LEMMA SelectedIsNeeded ==
    ASSUME call \in Calls, NEW c \in call.direct \intersect Known
    PROVE  Needed(c)
BY Zenon DEF Needed, LeastClosed, Calls, Known, Elements

-----------------------------------------------------------------------------
(* One step of the walk.                                                   *)

\* A new walk starts from nothing.
LEMMA StartStep ==
    ASSUME NEW c \in Calls, StartWalk(c)
    PROVE  WalkInv'
<1>1. OrderTypeOK'
  BY DEF StartWalk, OrderTypeOK, Calls, Known
<1>2. visited' = Elements(ordered') /\ DependenciesFirst' /\ CompiledOnce'
  BY DEF StartWalk, Elements, DependenciesFirst, CompiledOnce
<1>3. Waits(stack)' /\ Served(stack, {})' /\ Rooted(stack, root, {})'
  BY SMTT(60) DEF StartWalk, Waits, Served, Rooted
<1>. QED
  BY <1>1, <1>2, <1>3, Zenon DEF WalkInv, StartWalk

\* visit, from below, of a case that is now due.
LEMMA VisitStep ==
    ASSUME WalkInv, outcome = "running", NEW c, NEW dependents \in SUBSET CaseIds,
           NEW below \in Seq(Frames), call' = call, root' \in 0 .. Len(call.order),
           c \in Known => Needed(c),
           Waits(below), Served(below, {c}), Rooted(below, root', {c}),
           visit(c, dependents, below)
    PROVE  WalkInv'
<1>. USE DEF WalkInv, OrderTypeOK
<1>1. Known' = Known /\ \A d : Needed(d)' <=> Needed(d)
  BY Zenon DEF Known, Needed
<1>2. visited' = visited /\ ordered' = ordered /\ edges' \in [CaseIds -> SUBSET CaseIds]
  BY SMTT(60) DEF visit, Raise, Enter
<1>3. visited' = Elements(ordered') /\ DependenciesFirst' /\ CompiledOnce'
  BY <1>2 DEF DependenciesFirst, CompiledOnce
<1>4. Known \subseteq CaseIds
  BY DEF Known, Elements, Calls
<1>5. CASE c \in visited /\ c \in Known /\ stack' = below /\ UNCHANGED <<visiting, outcome>>
  <2>1. Waits(stack)'
    BY <1>1, <1>2, <1>5, Zenon DEF Waits
  <2>2. Served(stack, {})'
    BY <1>2, <1>5, ZenonT(60) DEF Served
  <2>3. Rooted(stack, root, {})'
    BY <1>2, <1>5, Zenon DEF Rooted
  <2>. QED
    BY <1>1, <1>2, <1>3, <1>5, <2>1, <2>2, <2>3, Zenon
<1>6. CASE outcome' \in Errors /\ stack' = below /\ UNCHANGED visiting
  BY <1>1, <1>2, <1>3, <1>6, Zenon DEF Errors
<1>7. CASE c \in Known /\ c \notin visited \union visiting /\ Enter(c, below)
  <2> DEFINE frame == [case |-> c, next |-> 1]
  <2>1. frame \in Frames /\ frame.case = c /\ frame.next = 1
    BY <1>4, <1>7 DEF Frames
  <2>2. stack' = Append(below, frame) /\ visiting' = visiting \union {c} /\ outcome' = outcome
    BY <1>7, Zenon DEF Enter
  <2>. HIDE DEF frame
  <2>3. /\ stack' \in Seq(Frames) /\ stack' # <<>>
        /\ Len(stack') = Len(below) + 1
        /\ Len(below) \in Nat
        /\ \A k \in 1 .. Len(below) : stack'[k] = below[k]
        /\ stack'[Len(below) + 1] = frame
    BY <2>1, <2>2, AppendFacts, SMTT(60)
  <2>4. Waits(stack)'
    BY <1>1, <1>2, <1>7, <2>1, <2>2, <2>3, SMTT(60) DEF Waits
  <2>5. Served(stack, {})'
    <3>. SUFFICES ASSUME NEW k \in 1 .. Len(stack'),
                         NEW j \in 1 .. Len(call.dependencies[stack'[k].case]),
                         j < stack'[k].next
                  PROVE  \/ call.dependencies[stack'[k].case][j] \in visited
                         \/ k < Len(stack') /\ call.dependencies[stack'[k].case][j] = stack'[k + 1].case
      BY <1>2, Zenon DEF Served
    <3>1. j \in Nat \ {0}
      BY SMTT(60) DEF Calls
    <3>2. CASE k = Len(below) + 1
      BY <2>1, <2>3, <3>1, <3>2
    <3>3. CASE k \in 1 .. Len(below)
      <4>1. stack'[k] = below[k]
        BY <2>3, <3>3, Zenon
      <4>2. \/ call.dependencies[below[k].case][j] \in visited
            \/ k < Len(below) /\ call.dependencies[below[k].case][j] = below[k + 1].case
            \/ k = Len(below) /\ call.dependencies[below[k].case][j] = c
        BY <3>3, <4>1, Zenon DEF Served
      <4>3. k < Len(stack')
        BY <2>3, <3>3
      <4>6. k < Len(below) => k + 1 \in 1 .. Len(below)
        BY <2>3, <3>3
      <4>4. k < Len(below) => stack'[k + 1] = below[k + 1]
        BY <2>3, <4>6, Zenon
      <4>5. k = Len(below) => stack'[k + 1].case = c
        BY <2>1, <2>3, <3>3, Zenon
      <4>. QED
        BY <4>1, <4>2, <4>3, <4>4, <4>5, Zenon
    <3>. QED
      BY <2>3, <3>2, <3>3, SMTT(60)
  <2>6. Rooted(stack, root, {})'
    <3>1. below = <<>> => stack'[1].case = c
      <4>1. below = <<>> => Len(below) + 1 = 1
        BY EmptySeq
      <4>. QED
        BY <2>1, <2>3, <4>1, Zenon
    <3>2. below # <<>> => stack'[1] = below[1]
      <4>1. below # <<>> => 1 \in 1 .. Len(below)
        BY EmptySeq
      <4>. QED
        BY <2>3, <4>1, Zenon
    <3>. QED
      BY <1>2, <2>3, <3>1, <3>2, Zenon DEF Rooted
  <2>. QED
    BY <1>1, <1>2, <1>3, <1>7, <2>2, <2>3, <2>4, <2>5, <2>6, Zenon
<1>. QED
  BY <1>5, <1>6, <1>7, Zenon DEF visit, Raise, Errors

\* The outer loop.
LEMMA RootStep ==
    ASSUME WalkInv, VisitRoot
    PROVE  WalkInv'
<1>. USE DEF WalkInv, OrderTypeOK
<1> DEFINE c == call.order[root + 1]
<1>1. /\ outcome = "running" /\ stack = <<>> /\ call' = call
      /\ root' = root + 1 /\ root + 1 \in 1 .. Len(call.order)
  BY SMTT(60) DEF VisitRoot, Calls
<1>2. c \in Known
  BY <1>1 DEF Known, Elements, Calls
<1>3. Waits(stack) /\ Served(stack, {}) /\ Rooted(stack, root, {})
  BY <1>1, Zenon
<1>4. CASE c \in call.direct /\ visit(c, {}, stack)
  <2>1. Needed(c)
    BY <1>2, <1>4, SelectedIsNeeded, Zenon
  <2>2. Served(stack, {c})
    BY <1>3, Zenon DEF Served
  <2>3. Rooted(stack, root', {c}) /\ root' \in 0 .. Len(call.order)
    BY <1>1, <1>3, SMTT(60) DEF Rooted
  <2>4. stack \in Seq(Frames) /\ {} \in SUBSET CaseIds
    BY Zenon
  <2>. HIDE DEF c
  <2>. QED
    BY <1>1, <1>3, <1>4, <2>1, <2>2, <2>3, <2>4, VisitStep, Zenon
<1>5. CASE c \notin call.direct /\ UNCHANGED <<stack, ordered, edges, visiting, visited, outcome>>
  <2>1. Known' = Known /\ \A d : Needed(d)' <=> Needed(d)
    BY <1>1, Zenon DEF Known, Needed
  <2>2. Waits(stack)' /\ Served(stack, {})'
    BY <1>1, <1>3, <1>5, <2>1, ZenonT(60) DEF Waits, Served
  <2>3. Rooted(stack, root, {})'
    BY <1>1, <1>3, <1>5, SMTT(60) DEF Rooted
  <2>4. DependenciesFirst' /\ CompiledOnce'
    BY <1>1, <1>5, SMTT(60) DEF DependenciesFirst, CompiledOnce
  <2>. QED
    BY <1>1, <1>5, <2>1, <2>2, <2>3, <2>4, SMTT(60)
<1>. QED
  BY <1>4, <1>5, Zenon DEF VisitRoot

\* The loop over the dependencies.
LEMMA DependencyStep ==
    ASSUME WalkInv, VisitDependency
    PROVE  WalkInv'
<1>. USE DEF WalkInv, OrderTypeOK
<1> DEFINE below == [stack EXCEPT ![Len(stack)].next = @ + 1]
           c == call.dependencies[Top.case][Top.next]
<1>1. /\ outcome = "running" /\ stack # <<>> /\ call' = call /\ root' = root
      /\ Top.next <= Len(call.dependencies[Top.case])
      /\ visit(c, {Top.case}, below)
  BY Zenon DEF VisitDependency
<1>2. /\ below \in Seq(Frames)
      /\ below # <<>>
      /\ Len(below) = Len(stack)
      /\ \A k \in 1 .. Len(stack) : below[k].case = stack[k].case
      /\ \A k \in 1 .. Len(stack) - 1 : below[k].next = stack[k].next
      /\ below[Len(stack)].next = Top.next + 1
  BY <1>1, Advanced, Zenon
<1>3. /\ Len(stack) \in Nat \ {0} /\ Top \in Frames /\ Top.case \in CaseIds /\ Top.next \in Nat \ {0}
      /\ call.dependencies[Top.case] \in Seq(CaseIds)
  <2>1. Len(stack) \in Nat \ {0} /\ Top \in Frames
    BY <1>1, EmptySeq, LenProperties DEF Top
  <2>. QED
    BY <2>1, Zenon DEF Frames, Calls
<1>4. Waits(stack) /\ Served(stack, {}) /\ Rooted(stack, root, {})
  BY <1>1, Zenon
<1>5. Top.next \in 1 .. Len(call.dependencies[Top.case])
  BY <1>1, <1>3
<1>6. Needed(c)
  <2>1. Needed(Top.case)
    BY <1>3, <1>4, SMTT(60) DEF Waits, Top
  <2>. QED
    BY <1>3, <1>5, <2>1, NeedsItsDependencies, Zenon
<1>. HIDE DEF below
<1>7. Waits(below)
  BY <1>2, <1>4, ZenonT(60) DEF Waits
<1>8. Served(below, {c})
  <2>. SUFFICES ASSUME NEW k \in 1 .. Len(below),
                       NEW j \in 1 .. Len(call.dependencies[below[k].case]),
                       j < below[k].next
                PROVE  \/ call.dependencies[below[k].case][j] \in visited
                       \/ k < Len(below) /\ call.dependencies[below[k].case][j] = below[k + 1].case
                       \/ k = Len(below) /\ call.dependencies[below[k].case][j] = c
    BY Zenon DEF Served
  <2>1. k \in 1 .. Len(stack) /\ below[k].case = stack[k].case
    BY <1>2, Zenon
  <2>2. j < stack[k].next \/ (k = Len(stack) /\ j = Top.next)
    <3>1. CASE k = Len(stack)
      <4>1. j < Top.next + 1
        BY <1>2, <3>1, Zenon
      <4>2. j \in Nat
        BY <1>3, SMTT(60)
      <4>. QED
        BY <1>3, <3>1, <4>1, <4>2, SMTT(60) DEF Top
    <3>2. CASE k # Len(stack)
      <4>1. k \in 1 .. Len(stack) - 1
        BY <1>3, <2>1, <3>2, SMTT(60)
      <4>. QED
        BY <1>2, <4>1, Zenon
    <3>. QED
      BY <3>1, <3>2, Zenon
  <2>3. CASE j < stack[k].next
    <3>1. k < Len(stack) => k + 1 \in 1 .. Len(stack)
      BY <1>3, <2>1, SMTT(60)
    <3>. QED
      BY <1>2, <1>4, <2>1, <2>3, <3>1, ZenonT(60) DEF Served
  <2>4. CASE k = Len(stack) /\ j = Top.next
    BY <1>2, <2>1, <2>4, Zenon DEF Top
  <2>. QED
    BY <2>2, <2>3, <2>4, Zenon
<1>9. Rooted(below, root, {c})
  <2>1. below[1].case = stack[1].case
    BY <1>2, <1>3
  <2>. QED
    BY <1>1, <1>2, <1>4, <2>1, Zenon DEF Rooted
<1>. HIDE DEF c
<1>. QED
  BY <1>1, <1>2, <1>3, <1>6, <1>7, <1>8, <1>9, VisitStep, Zenon

\* The end of a visit lists the case: everything it depends on is listed.
LEMMA LeaveStep ==
    ASSUME WalkInv, Leave
    PROVE  WalkInv'
<1>. USE DEF WalkInv, OrderTypeOK
<1>1. /\ outcome = "running" /\ outcome' = "running" /\ stack # <<>>
      /\ call' = call /\ root' = root /\ edges' = edges
      /\ Top.next > Len(call.dependencies[Top.case])
      /\ visiting' = visiting \ {Top.case}
      /\ visited' = visited \union {Top.case}
      /\ ordered' = Append(ordered, Top.case)
      /\ stack' = SubSeq(stack, 1, Len(stack) - 1)
  BY Zenon DEF Leave
<1>2. Waits(stack) /\ Served(stack, {}) /\ Rooted(stack, root, {})
  BY <1>1, Zenon
<1>3. /\ stack' \in Seq(Frames) /\ Len(stack) \in Nat \ {0}
      /\ Len(stack') = Len(stack) - 1
      /\ \A i \in 1 .. Len(stack) - 1 : stack'[i] = stack[i]
      /\ Top \in Frames
  BY <1>1, ButLast, Zenon DEF Top
<1>4. /\ Top.case \in CaseIds /\ Top.next \in Nat
      /\ call.dependencies[Top.case] \in Seq(CaseIds)
  BY <1>3, Zenon DEF Frames, Calls
<1>5. Top.case \in visiting /\ Top.case \notin visited /\ Needed(Top.case)
  BY <1>2, <1>3, SMTT(60) DEF Waits, Top
<1>6. Known' = Known /\ \A d : Needed(d)' <=> Needed(d)
  BY <1>1, Zenon DEF Known, Needed
<1>7. /\ ordered' \in Seq(CaseIds)
      /\ Len(ordered') = Len(ordered) + 1 /\ Len(ordered) \in Nat
      /\ DOMAIN ordered = 1 .. Len(ordered) /\ DOMAIN ordered' = 1 .. Len(ordered) + 1
      /\ \A i \in 1 .. Len(ordered) : ordered'[i] = ordered[i]
      /\ ordered'[Len(ordered) + 1] = Top.case
  BY <1>1, <1>4, AppendFacts, SMTT(60)
<1>8. visited' = Elements(ordered')
  BY <1>1, <1>4, ElementsAppend, SMTT(60)
<1>9. ASSUME NEW d \in visited PROVE \E i \in 1 .. Len(ordered) : ordered[i] = d
  BY <1>7, ZenonT(60) DEF Elements
<1>10. ASSUME NEW j \in 1 .. Len(call.dependencies[Top.case])
       PROVE  call.dependencies[Top.case][j] \in visited
  <2>1. j < Top.next
    BY <1>1, <1>4, SMTT(60)
  <2>. QED
    BY <1>2, <1>3, <2>1, SMTT(60) DEF Served, Top
<1>11. DependenciesFirst'
  <2>. SUFFICES ASSUME NEW i \in 1 .. Len(ordered) + 1,
                       NEW k \in DOMAIN call.dependencies[ordered'[i]]
                PROVE  \E j \in 1 .. i - 1 : ordered'[j] = call.dependencies[ordered'[i]][k]
    <3>1. DOMAIN ordered' = 1 .. Len(ordered) + 1 /\ call' = call
      BY <1>1, <1>7, Zenon
    <3>. QED
      BY <3>1, Zenon DEF DependenciesFirst
  <2>1. CASE i = Len(ordered) + 1
    <3>1. call.dependencies[Top.case][k] \in visited
      BY <1>4, <1>7, <1>10, <2>1, SMTT(60)
    <3>2. PICK j \in 1 .. Len(ordered) : ordered[j] = call.dependencies[Top.case][k]
      BY <1>9, <3>1, Zenon
    <3>. QED
      BY <1>7, <2>1, <3>2, SMTT(60)
  <2>2. CASE i \in 1 .. Len(ordered)
    <3>1. ordered'[i] = ordered[i]
      BY <1>7, <2>2, Zenon
    <3>2. PICK j \in 1 .. i - 1 : ordered[j] = call.dependencies[ordered[i]][k]
      BY <1>7, <2>2, <3>1, ZenonT(60) DEF DependenciesFirst
    <3>3. j \in 1 .. Len(ordered)
      BY <1>7, <2>2
    <3>. QED
      BY <1>7, <3>1, <3>2, <3>3, Zenon
  <2>. QED
    BY <1>7, <2>1, <2>2, SMTT(60)
<1>12. CompiledOnce'
  <2>1. \A i \in 1 .. Len(ordered) : ordered[i] # Top.case
    BY <1>5, <1>7, Zenon DEF Elements
  <2>. QED
    BY <1>7, <2>1, SMTT(60) DEF CompiledOnce
<1>13. Waits(stack)'
  <2>1. \A k \in 1 .. Len(stack') : k \in 1 .. Len(stack) /\ stack'[k] = stack[k] /\ k # Len(stack)
    BY <1>3
  <2>2. Len(stack) \in 1 .. Len(stack)
    BY <1>3
  <2>3. \A k \in 1 .. Len(stack') : stack[k].case # Top.case
    BY <1>2, <2>1, <2>2, Zenon DEF Waits, Top
  <2>. QED
    BY <1>1, <1>2, <1>6, <2>1, <2>3, ZenonT(60) DEF Waits
<1>14. Served(stack, {})'
  <2>. SUFFICES ASSUME NEW k \in 1 .. Len(stack'),
                       NEW j \in 1 .. Len(call.dependencies[stack'[k].case]),
                       j < stack'[k].next
                PROVE  \/ call.dependencies[stack'[k].case][j] \in visited'
                       \/ k < Len(stack') /\ call.dependencies[stack'[k].case][j] = stack'[k + 1].case
    BY <1>1, Zenon DEF Served
  <2>1. k \in 1 .. Len(stack) /\ stack'[k] = stack[k] /\ k # Len(stack)
    BY <1>3
  <2>2. \/ call.dependencies[stack[k].case][j] \in visited
        \/ call.dependencies[stack[k].case][j] = stack[k + 1].case
    BY <1>2, <2>1, Zenon DEF Served
  <2>3. CASE k + 1 = Len(stack)
    BY <1>1, <2>1, <2>2, <2>3, Zenon DEF Top
  <2>4. CASE k + 1 # Len(stack)
    <3>1. k < Len(stack') /\ k + 1 \in 1 .. Len(stack) - 1
      BY <1>3, <2>1, <2>4, SMTT(60)
    <3>. QED
      BY <1>1, <1>3, <2>1, <2>2, <3>1, Zenon
  <2>. QED
    BY <2>3, <2>4, Zenon
<1>15. Rooted(stack, root, {})'
  <2>1. CASE Len(stack) = 1
    BY <1>1, <1>2, <2>1, Zenon DEF Rooted, Top
  <2>2. CASE Len(stack) # 1
    <3>1. 1 \in 1 .. Len(stack) - 1 /\ Len(stack') # 0
      BY <1>3, <2>2
    <3>2. stack' # <<>> /\ stack'[1] = stack[1]
      BY <1>3, <3>1, EmptySeq, Zenon
    <3>. QED
      BY <1>1, <1>2, <3>2, Zenon DEF Rooted
  <2>. QED
    BY <2>1, <2>2, Zenon
<1>16. visiting' \in SUBSET Known' /\ visited' \in SUBSET Known'
  BY <1>1, <1>5, <1>6, Zenon
<1>17. \A d \in visited' : Needed(d)'
  BY <1>1, <1>5, <1>6, Zenon
<1>18. call' \in Calls /\ root' \in 0 .. Len(call'.order) /\ edges' \in [CaseIds -> SUBSET CaseIds]
  BY <1>1, Zenon
<1>. QED
  BY <1>1, <1>3, <1>7, <1>8, <1>11, <1>12, <1>13, <1>14, <1>15, <1>16, <1>17, <1>18, Zenon

LEMMA ReturnStep ==
    ASSUME WalkInv, ReturnOrder
    PROVE  WalkInv'
<1>1. /\ outcome = "running" /\ stack = <<>> /\ root = Len(call.order) /\ outcome' = "ordered"
      /\ UNCHANGED <<call, root, stack, ordered, edges, visiting, visited>>
  BY Zenon DEF ReturnOrder
<1>2. DependenciesFirst' /\ CompiledOnce'
  BY <1>1, SMTT(60) DEF WalkInv, DependenciesFirst, CompiledOnce
<1>3. OrderTypeOK' /\ \A d \in visited' : Needed(d)'
  BY <1>1, Zenon DEF WalkInv, OrderTypeOK, Needed, Known
<1>4. Waits(stack)' /\ Served(stack, {})' /\ Rooted(stack, root, {})'
  BY <1>1, ZenonT(60) DEF WalkInv, Waits, Served, Rooted, Needed, Known
<1>. QED
  BY <1>1, <1>2, <1>3, <1>4, Zenon DEF WalkInv

LEMMA WalkStepKeeps ==
    ASSUME WalkInv, WalkStep
    PROVE  WalkInv'
BY RootStep, DependencyStep, LeaveStep, ReturnStep, Zenon DEF WalkStep

LEMMA WalkStutters ==
    ASSUME WalkInv, UNCHANGED orderVars
    PROVE  WalkInv'
<1>1. /\ call' = call /\ root' = root /\ stack' = stack /\ ordered' = ordered /\ edges' = edges
      /\ visiting' = visiting /\ visited' = visited /\ outcome' = outcome
  BY Zenon DEF orderVars
<1>2. DependenciesFirst' /\ CompiledOnce'
  BY <1>1 DEF WalkInv, DependenciesFirst, CompiledOnce
<1>3. OrderTypeOK' /\ \A d \in visited' : Needed(d)'
  BY <1>1, Zenon DEF WalkInv, OrderTypeOK, Needed, Known
<1>4. outcome' \in {"running", "ordered"} =>
          Waits(stack)' /\ Served(stack, {})' /\ Rooted(stack, root, {})'
  BY <1>1, Zenon DEF WalkInv, Waits, Served, Rooted, Needed, Known
<1>. QED
  BY <1>1, <1>2, <1>3, <1>4, Zenon DEF WalkInv

\* What the walk returns.
LEMMA WalkIsExact ==
    ASSUME WalkInv
    PROVE  OrderIsExact
<1>. SUFFICES ASSUME outcome = "ordered"
              PROVE  visited = LeastClosed(call.direct \intersect Known, call.dependencies)
  BY Zenon DEF OrderIsExact, WalkInv
<1>. USE DEF WalkInv, OrderTypeOK
<1>1. stack = <<>> /\ root = Len(call.order) /\ Rooted(stack, root, {})
  BY Zenon
<1>2. call.direct \intersect Known \subseteq visited
  <2>1. call.order \in Seq(CaseIds) /\ DOMAIN call.order = 1 .. Len(call.order)
    BY SMTT(60) DEF Calls
  <2>. QED
    BY <1>1, <2>1, Zenon DEF Rooted, Known, Elements
<1>3. \A c \in visited : Elements(call.dependencies[c]) \subseteq visited
  BY SMTT(60) DEF DependenciesFirst, Elements
<1>4. visited \in SUBSET CaseIds
  BY SMTT(60) DEF Known, Elements, Calls
<1>. QED
  BY <1>2, <1>3, <1>4, Zenon DEF LeastClosed, Needed

-----------------------------------------------------------------------------
(* dependency_edges: who a case is compiled for.                           *)

Reason(d, e) == d \in call.direct \/ e[d] # {}

OnStack(st, d) == \E k \in 1 .. Len(st) : st[k].case = d

EdgeInv ==
    /\ \A d \in visited : Reason(d, edges)
    /\ outcome \in {"running", "ordered"} =>
          /\ \A k \in 1 .. Len(stack) : Reason(stack[k].case, edges)
          /\ \A d \in CaseIds : \A x \in edges[d] : x \in visited \/ OnStack(stack, x)

LEMMA EdgeVisit ==
    ASSUME WalkInv, EdgeInv, outcome = "running", NEW c, NEW dependents \in SUBSET CaseIds,
           NEW below \in Seq(Frames), call' = call,
           c \in call.direct \/ dependents # {},
           \A k \in 1 .. Len(below) : Reason(below[k].case, edges),
           \A d \in CaseIds : \A x \in edges[d] : x \in visited \/ OnStack(below, x),
           \A x \in dependents : OnStack(below, x),
           visit(c, dependents, below)
    PROVE  EdgeInv'
<1>1. edges \in [CaseIds -> SUBSET CaseIds] /\ visited' = visited /\ visited \subseteq CaseIds
  BY SMTT(60) DEF WalkInv, OrderTypeOK, visit, Raise, Enter, Known, Elements, Calls
<1>2. CASE c \notin Known /\ edges' = edges /\ outcome' = "unknown"
  BY <1>1, <1>2, Zenon DEF EdgeInv, Reason
<1>3. CASE /\ c \in Known
           /\ edges' = [edges EXCEPT ![c] = @ \union dependents]
           /\ \/ outcome' \in Errors
              \/ stack' = below
              \/ Enter(c, below)
  <2>1. c \in CaseIds
    BY <1>3, SMTT(60) DEF WalkInv, OrderTypeOK, Known, Elements, Calls
  <2>2. \A d \in CaseIds : edges'[d] = IF d = c THEN edges[d] \union dependents ELSE edges[d]
    BY <1>1, <1>3, <2>1, Zenon
  <2>3. Reason(c, edges') /\ \A d \in CaseIds : Reason(d, edges) => Reason(d, edges')
    BY <2>1, <2>2, Zenon DEF Reason
  <2>4. \A d \in visited' : Reason(d, edges')
    BY <1>1, <2>3, Zenon DEF EdgeInv
  <2>5. \A d \in CaseIds : \A x \in edges'[d] : x \in visited' \/ OnStack(below, x)
    BY <1>1, <2>2, Zenon
  <2>6. \A k \in 1 .. Len(below) : Reason(below[k].case, edges')
    <3>1. \A k \in 1 .. Len(below) : below[k] \in Frames
      BY LenProperties, Zenon
    <3>2. \A k \in 1 .. Len(below) : below[k].case \in CaseIds
      BY <3>1, Zenon DEF Frames
    <3>. QED
      BY <2>3, <3>2, Zenon
  <2>7. CASE outcome' \in Errors
    BY <2>4, <2>7, Zenon DEF EdgeInv, Errors, Reason
  <2>8. CASE stack' = below
    BY <2>4, <2>5, <2>6, <2>8, Zenon DEF EdgeInv, Reason
  <2>9. CASE Enter(c, below)
    <3> DEFINE frame == [case |-> c, next |-> 1]
    <3>1. frame \in Frames /\ frame.case = c
      BY <2>1, SMTT(60) DEF Frames
    <3>2. stack' = Append(below, frame)
      BY <2>9, Zenon DEF Enter
    <3>. HIDE DEF frame
    <3>3. /\ Len(stack') = Len(below) + 1 /\ Len(below) \in Nat
          /\ \A k \in 1 .. Len(below) : stack'[k] = below[k]
          /\ stack'[Len(below) + 1] = frame
      BY <3>1, <3>2, AppendFacts, SMTT(60)
    <3>4. \A k \in 1 .. Len(stack') : Reason(stack'[k].case, edges')
      <4>. TAKE k \in 1 .. Len(stack')
      <4>1. CASE k = Len(below) + 1
        BY <2>3, <3>1, <3>3, <4>1, Zenon
      <4>2. CASE k \in 1 .. Len(below)
        BY <2>6, <3>3, <4>2, Zenon
      <4>. QED
        BY <3>3, <4>1, <4>2
    <3>5. \A x : OnStack(below, x) => OnStack(stack', x)
      <4>1. 1 .. Len(below) \subseteq 1 .. Len(stack')
        BY <3>3
      <4>. QED
        BY <3>3, <4>1, Zenon DEF OnStack
    <3>. QED
      BY <2>4, <2>5, <3>4, <3>5, Zenon DEF EdgeInv, Reason
  <2>. QED
    BY <1>3, <2>7, <2>8, <2>9, Zenon
<1>. QED
  BY <1>2, <1>3, ZenonT(60) DEF visit, Raise, Errors

LEMMA EdgeStep ==
    ASSUME WalkInv, EdgeInv, WalkStep
    PROVE  EdgeInv'
<1>1. CASE VisitRoot
  <2> DEFINE c == call.order[root + 1]
  <2>1. outcome = "running" /\ stack = <<>> /\ call' = call /\ stack \in Seq(Frames)
    BY <1>1, Zenon DEF VisitRoot, WalkInv, OrderTypeOK
  <2>2. \A d \in CaseIds : \A x \in edges[d] : x \in visited \/ OnStack(stack, x)
    BY <2>1, Zenon DEF EdgeInv
  <2>3. \A k \in 1 .. Len(stack) : Reason(stack[k].case, edges)
    BY <2>1, Zenon DEF EdgeInv
  <2>6. {} \in SUBSET CaseIds /\ \A x \in {} : OnStack(stack, x)
    BY Zenon
  <2>4. CASE c \in call.direct /\ visit(c, {}, stack)
    <3>. HIDE DEF c
    <3>. QED
      BY <2>1, <2>2, <2>3, <2>4, <2>6, EdgeVisit, Zenon
  <2>5. CASE UNCHANGED <<stack, ordered, edges, visiting, visited, outcome>>
    BY <2>1, <2>5, Zenon DEF EdgeInv, Reason, OnStack
  <2>. QED
    BY <1>1, <2>4, <2>5, Zenon DEF VisitRoot
<1>2. CASE VisitDependency
  <2> DEFINE below == [stack EXCEPT ![Len(stack)].next = @ + 1]
             c == call.dependencies[Top.case][Top.next]
  <2>1. /\ outcome = "running" /\ stack # <<>> /\ call' = call /\ stack \in Seq(Frames)
        /\ visit(c, {Top.case}, below)
    BY <1>2, Zenon DEF VisitDependency, WalkInv, OrderTypeOK
  <2>2. /\ below \in Seq(Frames) /\ Len(below) = Len(stack)
        /\ \A k \in 1 .. Len(stack) : below[k].case = stack[k].case
    BY <2>1, Advanced, Zenon
  <2>3. Len(stack) \in 1 .. Len(stack) /\ Top.case \in CaseIds
    <3>1. Len(stack) \in Nat \ {0} /\ Top \in Frames
      BY <2>1, EmptySeq, LenProperties DEF Top
    <3>. QED
      BY <3>1, SMTT(60) DEF Frames
  <2>. HIDE DEF below, c
  <2>4. \A x : OnStack(below, x) <=> OnStack(stack, x)
    BY <2>2, Zenon DEF OnStack
  <2>5. OnStack(below, Top.case)
    BY <2>2, <2>3, Zenon DEF OnStack, Top
  <2>6. \A k \in 1 .. Len(below) : Reason(below[k].case, edges)
    BY <2>1, <2>2, Zenon DEF EdgeInv
  <2>7. \A d \in CaseIds : \A x \in edges[d] : x \in visited \/ OnStack(below, x)
    BY <2>1, <2>4, Zenon DEF EdgeInv
  <2>8. {Top.case} \in SUBSET CaseIds /\ {Top.case} # {} /\ \A x \in {Top.case} : OnStack(below, x)
    BY <2>3, <2>5, Zenon
  <2>. QED
    BY <2>1, <2>2, <2>6, <2>7, <2>8, EdgeVisit, Zenon
<1>3. CASE Leave
  <2>1. /\ outcome = "running" /\ stack # <<>> /\ stack \in Seq(Frames)
        /\ call' = call /\ edges' = edges /\ visited' = visited \union {Top.case}
        /\ stack' = SubSeq(stack, 1, Len(stack) - 1)
    BY <1>3, Zenon DEF Leave, WalkInv, OrderTypeOK
  <2>2. /\ Len(stack) \in Nat \ {0} /\ Len(stack') = Len(stack) - 1
        /\ \A i \in 1 .. Len(stack) - 1 : stack'[i] = stack[i]
    BY <2>1, ButLast, Zenon
  <2>3. \A k \in 1 .. Len(stack) : Reason(stack[k].case, edges')
    BY <2>1, Zenon DEF EdgeInv, Reason
  <2>4. \A d \in visited' : Reason(d, edges')
    BY <2>1, <2>2, <2>3 DEF EdgeInv, Reason, Top
  <2>5. \A k \in 1 .. Len(stack') : Reason(stack'[k].case, edges')
    BY <2>2, <2>3
  <2>6. \A x : OnStack(stack, x) => x = Top.case \/ OnStack(stack', x)
    <3>1. \A k \in 1 .. Len(stack) : k = Len(stack) \/ (k \in 1 .. Len(stack') /\ stack'[k] = stack[k])
      BY <2>2, SMTT(60)
    <3>. QED
      BY <3>1, Zenon DEF OnStack, Top
  <2>7. \A d \in CaseIds : \A x \in edges'[d] : x \in visited' \/ OnStack(stack', x)
    BY <2>1, <2>6, Zenon DEF EdgeInv
  <2>. QED
    BY <2>1, <2>4, <2>5, <2>7, Zenon DEF EdgeInv, Reason
<1>4. CASE ReturnOrder
  BY <1>4, Zenon DEF ReturnOrder, EdgeInv, Reason, OnStack
<1>. QED
  BY <1>1, <1>2, <1>3, <1>4, Zenon DEF WalkStep

-----------------------------------------------------------------------------
(* The compiler around the walk.                                           *)

IsExact(p) == Elements(p.cases) = WithDependencies(p.area, Wanted(p.area) \ Deselected)

\* While an area is walked, the walk's arguments are those of that area; what
\* is compiled already was compiled from the partition that still stands.
PlanInv ==
    /\ plan \in CheckedPlans
    /\ WalkInv
    /\ pc \in {"select", "walk"} => area \in Areas
    /\ pc \in {"scope", "place"} => compiled = <<>>
    /\ pc = "walk" =>
          /\ call.order = Catalogue.order
          /\ call.dependencies = [c \in CaseIds |-> Catalogue.cases[c].dependencies]
          /\ call.direct = Wanted(area) \ Deselected
    /\ compiled \in Seq(Elements(compiled))
    /\ \A p \in Elements(compiled) : IsExact(p)

LEMMA WantedIsStable ==
    ASSUME plan' = plan, parts' = parts
    PROVE  \A k : Wanted(k)' = Wanted(k)
BY SMTT(60) DEF Wanted, CasesOf, Catalogues, SeenIn, AppliesToProfile, AppliesToVersion

LEMMA ExactnessIsStable ==
    ASSUME plan' = plan, parts' = parts
    PROVE  \A p : IsExact(p)' <=> IsExact(p)
BY WantedIsStable, Zenon DEF IsExact, WithDependencies, Catalogues, Deselected

\* _directly_applicable_case_ids selects the cases the scope calls for.
LEMMA ApplicableIsWanted ==
    ASSUME NEW c \in CasesOf(area)
    PROVE  Decision(c) = "applicable" <=> c \in Wanted(area)
<1> DEFINE t == Catalogue.cases[c]
           Chosen(y, r) ==
               y.required \/ \E i \in DOMAIN parts[area] :
                                 /\ parts[area][i].ref = r /\ y.id \in parts[area][i].capabilities
                                 /\ \A j \in DOMAIN parts[area] : j > i => parts[area][j].ref # r
           Named(x) == \E y \in Elements(Catalogue.capabilities) :
                           y.id = x /\ \E r \in t.refs \intersect y.refs : Chosen(y, r)
<1>1. Decision(c) = "applicable" <=>
          /\ AppliesToProfile(t) /\ AppliesToVersion(t)
          /\ t.refs \subseteq ImplementedRefs
          /\ t.capabilities \subseteq UNION {SelectedAt(r) : r \in t.refs}
  BY ZenonT(60) DEF Decision
<1>2. c \in Wanted(area) <=>
          /\ AppliesToProfile(t) /\ AppliesToVersion(t)
          /\ t.refs \subseteq ImplementedRefs
          /\ \A x \in t.capabilities : Named(x)
  BY DEF Wanted, ImplementedRefs, Catalogue
<1>3. ASSUME t.refs \subseteq ImplementedRefs, NEW x
      PROVE  x \in UNION {SelectedAt(r) : r \in t.refs} <=> Named(x)
  <2>1. \A r \in t.refs : x \in SelectedAt(r) <=>
            \E y \in Elements(Catalogue.capabilities) : r \in y.refs /\ y.id = x /\ Chosen(y, r)
    BY <1>3, Zenon DEF SelectedAt, CapabilitiesOf
  <2>. HIDE DEF Chosen
  <2>. QED
    BY <2>1, Zenon
<1>. HIDE DEF Named, Chosen
<1>. QED
  BY <1>1, <1>2, <1>3, Zenon

LEMMA InitPlanInv == Init => PlanInv
<1>. SUFFICES ASSUME Init PROVE PlanInv
  BY Zenon
<1>1. OrderTypeOK
  BY SMTT(60) DEF Init, OrderTypeOK, Calls, Known, Elements
<1>2. visited = Elements(ordered) /\ DependenciesFirst /\ CompiledOnce
  BY SMTT(60) DEF Init, Elements, DependenciesFirst, CompiledOnce
<1>3. Waits(stack) /\ Served(stack, {}) /\ Rooted(stack, root, {})
  BY SMTT(60) DEF Init, Waits, Served, Rooted
<1>4. WalkInv
  BY <1>1, <1>2, <1>3, Zenon DEF WalkInv, Init
<1>. QED
  BY <1>4 DEF Init, PlanInv, Elements

\* A step outside the walk that compiles nothing.
LEMMA QuietStep ==
    ASSUME PlanInv, UNCHANGED <<plan, compiled, orderVars>>,
           parts' = parts \/ compiled = <<>>,
           pc' \in {"place", "select", "merge", "done", "error"},
           pc' = "place" => compiled = <<>>,
           pc' = "select" => area' \in Areas
    PROVE  PlanInv'
<1>1. WalkInv'
  BY WalkStutters, Zenon DEF PlanInv
<1>2. \A p \in Elements(compiled') : IsExact(p)'
  <2>1. CASE parts' = parts
    BY <2>1, ExactnessIsStable, Zenon DEF PlanInv
  <2>2. CASE compiled = <<>>
    BY <2>2 DEF Elements
  <2>. QED
    BY <2>1, <2>2, Zenon
<1>3. Areas' = Areas
  BY Zenon DEF Areas, Catalogues
<1>. QED
  BY <1>1, <1>2, <1>3, Zenon DEF PlanInv

LEMMA SelectStep ==
    ASSUME PlanInv, SelectCases
    PROVE  PlanInv'
<1>1. /\ pc = "select" /\ area \in Areas /\ plan \in CheckedPlans
      /\ plan' = plan /\ parts' = parts /\ area' = area /\ compiled' = compiled
      /\ base' = [c \in CasesOf(area) |-> Decision(c)]
  BY Zenon DEF SelectCases, PlanInv
<1>2. CASE pc' = "error" /\ UNCHANGED orderVars
  BY <1>1, <1>2, QuietStep, Zenon
<1>3. CASE /\ pc' = "walk"
           /\ StartWalk([order |-> Catalogue.order,
                         dependencies |-> [c \in CaseIds |-> Catalogue.cases[c].dependencies],
                         direct |-> {c \in CasesOf(area) : base'[c] = "applicable"} \ Deselected,
                         admitted |-> {c \in CasesOf(area) : AppliesToProfile(Catalogue.cases[c])}])
  <2> DEFINE dependencies == [c \in CaseIds |-> Catalogue.cases[c].dependencies]
             direct == {c \in CasesOf(area) : base'[c] = "applicable"} \ Deselected
             admitted == {c \in CasesOf(area) : AppliesToProfile(Catalogue.cases[c])}
             new == [order |-> Catalogue.order, dependencies |-> dependencies,
                     direct |-> direct, admitted |-> admitted]
  <2>1. Catalogue.order \in Seq(CaseIds) /\ dependencies \in [CaseIds -> Seq(CaseIds)]
    BY <1>1, CatalogueAssumption, Zenon DEF Catalogue, Catalogues, Areas
  <2>2. CasesOf(area) \subseteq CaseIds
    BY <2>1, SMTT(60) DEF CasesOf, Elements, Catalogue
  <2>3. direct \subseteq CaseIds /\ admitted \subseteq CaseIds
    BY <2>2, Zenon
  <2>4. direct = Wanted(area) \ Deselected
    <3>1. \A c \in CasesOf(area) : base'[c] = "applicable" <=> c \in Wanted(area)
      BY <1>1, ApplicableIsWanted, Zenon
    <3>2. Wanted(area) \subseteq CasesOf(area)
      BY Zenon DEF Wanted
    <3>. QED
      BY <3>1, <3>2, Zenon
  <2>. HIDE DEF dependencies, direct, admitted
  <2>5. new \in Calls
    BY <2>1, <2>3, Zenon DEF Calls
  <2>6. StartWalk(new)
    BY <1>3, Zenon DEF dependencies, direct, admitted
  <2>7. WalkInv' /\ call' = new
    BY <2>5, <2>6, StartStep, Zenon DEF StartWalk
  <2>8. call'.order = Catalogue.order /\ call'.dependencies = dependencies /\ call'.direct = direct
    BY <2>7, Zenon
  <2>9. \A p \in Elements(compiled') : IsExact(p)'
    BY <1>1, ExactnessIsStable, Zenon DEF PlanInv
  <2>10. /\ Areas' = Areas /\ Deselected' = Deselected /\ Wanted(area)' = Wanted(area)
         /\ Catalogue' = Catalogue
    BY <1>1, WantedIsStable, Zenon DEF Areas, Catalogues, Deselected, Catalogue
  <2>11. call'.dependencies = [c \in CaseIds |-> Catalogue'.cases[c].dependencies]
    BY <2>8, <2>10, Zenon DEF dependencies
  <2>. QED
    BY <1>1, <1>3, <2>4, <2>7, <2>8, <2>9, <2>10, <2>11, Zenon DEF PlanInv
<1>. QED
  BY <1>2, <1>3, Zenon DEF SelectCases, Fail

LEMMA OrderStep ==
    ASSUME PlanInv, OrderCases
    PROVE  PlanInv'
<1>1. WalkInv' /\ UNCHANGED compilerVars /\ pc = "walk" /\ call' = call
  BY WalkStepKeeps, Zenon DEF OrderCases, PlanInv, WalkStep, VisitRoot, VisitDependency, Leave, ReturnOrder
<1>2. plan' = plan /\ parts' = parts /\ area' = area /\ compiled' = compiled /\ pc' = pc
  BY <1>1, Zenon DEF compilerVars
<1>3. \A p \in Elements(compiled') : IsExact(p)'
  BY <1>2, ExactnessIsStable, Zenon DEF PlanInv
<1>4. /\ Areas' = Areas /\ Deselected' = Deselected /\ Wanted(area)' = Wanted(area)
      /\ Catalogue' = Catalogue
  BY <1>2, WantedIsStable, Zenon DEF Areas, Catalogues, Deselected, Catalogue
<1>. QED
  BY <1>1, <1>2, <1>3, <1>4, Zenon DEF PlanInv

\* The area compiled holds the least closed set of its wanted cases.
LEMMA CompileStep ==
    ASSUME PlanInv, CompileArea
    PROVE  PlanInv'
<1> DEFINE new == [area |-> area, cases |-> ordered, skipped |-> Skipped,
                   decisions |-> [c \in CasesOf(area) |-> FinalDecision(c)],
                   inputs |-> [id \in Needs |-> Trace(id)],
                   certifying |-> plan.overrides = <<>>]
<1>1. /\ pc = "walk" /\ outcome = "ordered" /\ area \in Areas
      /\ compiled' = Append(compiled, new)
      /\ plan' = plan /\ parts' = parts /\ UNCHANGED orderVars
      /\ pc' = "merge" \/ (pc' = "select" /\ area' \in Areas)
  BY Zenon DEF CompileArea, PlanInv, NextArea
<1>2. new.area = area /\ new.cases = ordered
  BY Zenon
<1>. HIDE DEF new
<1>3. call.direct \intersect Known = Wanted(area) \ Deselected
  <2>1. Wanted(area) \subseteq Known
    BY <1>1, Zenon DEF Wanted, CasesOf, Known, Catalogue, PlanInv
  <2>. QED
    BY <1>1, <2>1, Zenon DEF PlanInv
<1>4. IsExact(new)
  <2>1. Elements(ordered) = LeastClosed(call.direct \intersect Known, call.dependencies)
    BY <1>1, WalkIsExact, Zenon DEF PlanInv, OrderIsExact
  <2>2. call.dependencies = [c \in CaseIds |-> Catalogues[area].cases[c].dependencies]
    BY <1>1, Zenon DEF PlanInv, Catalogue
  <2>. QED
    BY <1>2, <1>3, <2>1, <2>2, Zenon DEF IsExact, WithDependencies
<1>5. compiled' \in Seq(Elements(compiled')) /\ Elements(compiled') = Elements(compiled) \union {new}
  <2> DEFINE T == Elements(compiled) \union {new}
  <2>1. compiled \in Seq(T) /\ new \in T
    BY SeqMonotonic, Zenon DEF PlanInv
  <2>. HIDE DEF T
  <2>2. compiled' \in Seq(T) /\ Elements(compiled') = Elements(compiled) \union {new}
    BY <1>1, <2>1, AppendFacts, ElementsAppend, SMTT(60)
  <2>. QED
    BY <2>2, Zenon DEF T
<1>6. \A p \in Elements(compiled') : IsExact(p)'
  BY <1>1, <1>4, <1>5, ExactnessIsStable, Zenon DEF PlanInv
<1>7. WalkInv' /\ Areas' = Areas
  BY <1>1, WalkStutters, Zenon DEF PlanInv, Areas, Catalogues
<1>. QED
  BY <1>1, <1>5, <1>6, <1>7, Zenon DEF PlanInv

LEMMA PlanStep == PlanInv /\ [Next]_vars => PlanInv'
<1>. SUFFICES ASSUME PlanInv, [Next]_vars PROVE PlanInv'
  BY Zenon
<1>1. CASE ListEndpoints
  BY <1>1, QuietStep, Zenon DEF ListEndpoints, Fail, PlanInv
<1>2. CASE ResolveCatalogue
  BY <1>2, QuietStep, Zenon DEF ResolveCatalogue, Fail, PlanInv, AreasOfApi
<1>3. CASE PlaceEndpoint
  <2>1. pc = "place" /\ compiled = <<>> /\ UNCHANGED <<plan, area, compiled, orderVars>>
    BY <1>3, Zenon DEF PlaceEndpoint, PlanInv
  <2>2. pc' \in {"place", "error"}
    BY <1>3, Zenon DEF PlaceEndpoint, Placement, Fail
  <2>. QED
    BY <2>1, <2>2, QuietStep, Zenon
<1>4. CASE PartitionDone
  BY <1>4, QuietStep, Zenon DEF PartitionDone, NextArea, PlanInv
<1>5. CASE SelectCases
  BY <1>5, SelectStep, Zenon
<1>6. CASE OrderCases
  BY <1>6, OrderStep, Zenon
<1>7. CASE OrderRefused
  BY <1>7, QuietStep, Zenon DEF OrderRefused, Fail, PlanInv
<1>8. CASE CompileArea
  BY <1>8, CompileStep, Zenon
<1>9. CASE CompileAreaRefused
  BY <1>9, QuietStep, Zenon DEF CompileAreaRefused, Fail, PlanInv
<1>10. CASE Merge
  BY <1>10, QuietStep, Zenon DEF Merge, Fail, PlanInv
<1>11. CASE UNCHANGED vars
  <2>1. UNCHANGED <<plan, parts, area, compiled, pc, orderVars>>
    BY <1>11, Zenon DEF vars, compilerVars
  <2>2. WalkInv' /\ call' = call
    BY <2>1, WalkStutters, Zenon DEF PlanInv, orderVars
  <2>3. \A p \in Elements(compiled') : IsExact(p)'
    BY <2>1, ExactnessIsStable, Zenon DEF PlanInv
  <2>4. /\ Areas' = Areas /\ Deselected' = Deselected /\ Wanted(area)' = Wanted(area)
        /\ Catalogue' = Catalogue
    BY <2>1, WantedIsStable, Zenon DEF Areas, Catalogues, Deselected, Catalogue
  <2>. QED
    BY <2>1, <2>2, <2>3, <2>4, Zenon DEF PlanInv
<1>. QED
  BY <1>1, <1>2, <1>3, <1>4, <1>5, <1>6, <1>7, <1>8, <1>9, <1>10, <1>11, Zenon DEF Next, Compile, Returned

-----------------------------------------------------------------------------
(* The report of a compiled plan: its decisions and its runtime inputs.    *)

MarksSensitive(p) ==
    \A c \in Elements(p.cases) : \A q \in Elements(Catalogues[p.area].cases[c].requirements) :
        q.input \in DOMAIN p.inputs /\ (q.sensitive => p.inputs[q.input].sensitive)

\* base agrees with what the scope calls for.
BaseInv ==
    \A c \in CasesOf(area) :
        /\ base[c] = "applicable" <=> c \in Wanted(area)
        /\ base[c] = "endpoint" => ~(Catalogue.cases[c].refs \subseteq SeenIn(area))

ReportInv ==
    /\ EdgeInv
    /\ pc = "walk" => BaseInv
    /\ \A p \in Elements(compiled) : Explained(p) /\ MarksSensitive(p)
    /\ pc = "done" => snapshot = [id \in MergedInputs |-> MergedValue(id)]

LEMMA ReportsAreStable ==
    ASSUME plan' = plan, parts' = parts
    PROVE  \A p : (Explained(p)' <=> Explained(p)) /\ (MarksSensitive(p)' <=> MarksSensitive(p))
BY WantedIsStable, ZenonT(60) DEF Explained, MarksSensitive, Catalogues, SeenIn

LEMMA EdgesStutter ==
    ASSUME EdgeInv, UNCHANGED orderVars
    PROVE  EdgeInv'
BY Zenon DEF EdgeInv, orderVars, Reason, OnStack

\* A step outside the walk that compiles nothing.
LEMMA QuietReport ==
    ASSUME ReportInv, UNCHANGED <<plan, compiled, orderVars>>,
           parts' = parts \/ compiled = <<>>,
           pc' \in {"scope", "place", "select", "merge", "error"}
    PROVE  ReportInv'
<1>1. EdgeInv'
  BY EdgesStutter, Zenon DEF ReportInv
<1>2. \A p \in Elements(compiled') : Explained(p)' /\ MarksSensitive(p)'
  <2>1. CASE parts' = parts
    BY <2>1, ReportsAreStable, Zenon DEF ReportInv
  <2>2. CASE compiled = <<>>
    BY <2>2, SMTT(60) DEF Elements
  <2>. QED
    BY <2>1, <2>2, Zenon
<1>. QED
  BY <1>1, <1>2, Zenon DEF ReportInv

LEMMA SelectReport ==
    ASSUME PlanInv, ReportInv, SelectCases
    PROVE  ReportInv'
<1>1. /\ pc = "select" /\ area \in Areas
      /\ plan' = plan /\ parts' = parts /\ area' = area /\ compiled' = compiled
      /\ base' = [c \in CasesOf(area) |-> Decision(c)]
  BY Zenon DEF SelectCases, PlanInv
<1>2. CASE pc' = "error" /\ UNCHANGED orderVars
  BY <1>1, <1>2, QuietReport, Zenon
<1>3. CASE pc' = "walk" /\ stack' = <<>> /\ visited' = {} /\ edges' = [d \in CaseIds |-> {}]
  <2>1. EdgeInv'
    BY <1>3, SMTT(60) DEF EdgeInv
  <2>2. ASSUME NEW c \in CasesOf(area)
        PROVE  /\ base'[c] = "applicable" <=> c \in Wanted(area)
               /\ base'[c] = "endpoint" => ~(Catalogue.cases[c].refs \subseteq SeenIn(area))
    <3>1. base'[c] = Decision(c)
      BY <1>1, Zenon
    <3>2. Decision(c) = "endpoint" => ~(Catalogue.cases[c].refs \subseteq SeenIn(area))
      BY Zenon DEF Decision, ImplementedRefs
    <3>. QED
      BY <3>1, <3>2, ApplicableIsWanted, Zenon
  <2>3. BaseInv'
    BY <1>1, <2>2, WantedIsStable, Zenon DEF BaseInv, CasesOf, Catalogue, Catalogues, SeenIn
  <2>4. \A p \in Elements(compiled') : Explained(p)' /\ MarksSensitive(p)'
    BY <1>1, ReportsAreStable, Zenon DEF ReportInv
  <2>. QED
    BY <1>3, <2>1, <2>3, <2>4, Zenon DEF ReportInv
<1>. QED
  BY <1>2, <1>3, Zenon DEF SelectCases, Fail, StartWalk

LEMMA OrderReport ==
    ASSUME PlanInv, ReportInv, OrderCases
    PROVE  ReportInv'
<1>1. EdgeInv' /\ UNCHANGED compilerVars /\ pc = "walk"
  BY EdgeStep, Zenon DEF OrderCases, PlanInv, ReportInv
<1>2. plan' = plan /\ parts' = parts /\ area' = area /\ compiled' = compiled /\ pc' = pc /\ base' = base
  BY <1>1, Zenon DEF compilerVars
<1>3. \A p \in Elements(compiled') : Explained(p)' /\ MarksSensitive(p)'
  BY <1>2, ReportsAreStable, Zenon DEF ReportInv
<1>4. BaseInv'
  BY <1>1, <1>2, WantedIsStable, Zenon DEF ReportInv, BaseInv, CasesOf, Catalogue, Catalogues, SeenIn
<1>. QED
  BY <1>1, <1>2, <1>3, <1>4, Zenon DEF ReportInv

LEMMA CompileReport ==
    ASSUME PlanInv, ReportInv, CompileArea
    PROVE  ReportInv'
<1> DEFINE new == [area |-> area, cases |-> ordered, skipped |-> Skipped,
                   decisions |-> [c \in CasesOf(area) |-> FinalDecision(c)],
                   inputs |-> [id \in Needs |-> Trace(id)],
                   certifying |-> plan.overrides = <<>>]
<1>1. /\ pc = "walk" /\ outcome = "ordered" /\ area \in Areas /\ plan \in CheckedPlans
      /\ visited \intersect Deselected = {}
      /\ compiled' = Append(compiled, new)
      /\ plan' = plan /\ parts' = parts /\ UNCHANGED orderVars
      /\ pc' \in {"merge", "select"}
  BY Zenon DEF CompileArea, PlanInv, NextArea
<1>2. /\ new.area = area /\ new.cases = ordered /\ new.skipped = Skipped
      /\ new.decisions = [c \in CasesOf(area) |-> FinalDecision(c)]
      /\ new.inputs = [id \in Needs |-> Trace(id)]
  BY Zenon
<1>. HIDE DEF new
<1>3. /\ stack = <<>> /\ Elements(ordered) = visited /\ visited \subseteq Known
      /\ call.order = Catalogue.order /\ call.direct = Wanted(area) \ Deselected
      /\ edges \in [CaseIds -> SUBSET CaseIds]
  BY <1>1, ZenonT(60) DEF PlanInv, WalkInv, OrderTypeOK
<1>4. Known = CasesOf(area) /\ CasesOf(area) \subseteq CaseIds
  BY <1>1, <1>3, CatalogueAssumption, SMTT(60) DEF Known, CasesOf, Catalogue, Catalogues, Areas, Elements
<1>5. \A d \in CaseIds : edges[d] \subseteq visited
  BY <1>1, <1>3, SMTT(60) DEF ReportInv, EdgeInv, OnStack
<1>6. Explained(new)
  <2>1. \A c \in CasesOf(area) : new.decisions[c] = FinalDecision(c)
    BY <1>2, Zenon
  <2>2. ASSUME NEW c \in CasesOf(area)
        PROVE  /\ FinalDecision(c).selected <=> c \in visited
               /\ FinalDecision(c).dependency_of \subseteq visited
    BY <1>4, <1>5, Zenon DEF FinalDecision
  <2>3. ASSUME NEW c \in CasesOf(area), c \in visited, c \notin Wanted(area)
        PROVE  FinalDecision(c).reason = "dependency" /\ FinalDecision(c).dependency_of # {}
    <3>1. base[c] # "applicable" /\ c \notin Deselected
      BY <1>1, <2>3, Zenon DEF ReportInv, BaseInv
    <3>2. edges[c] # {}
      BY <1>3, <2>3, Zenon DEF ReportInv, EdgeInv, Reason
    <3>. QED
      BY <2>3, <3>1, <3>2, Zenon DEF FinalDecision
  <2>4. Skipped \intersect visited = {}
    BY Zenon DEF Skipped
  <2>5. \A c \in Skipped : ~(Catalogues[area].cases[c].refs \subseteq SeenIn(area))
    BY <1>1, Zenon DEF Skipped, ReportInv, BaseInv, Catalogue
  <2>6. DOMAIN new.decisions = CasesOf(area)
    BY <1>2, Zenon
  <2>. QED
    BY <1>2, <1>3, <2>1, <2>2, <2>3, <2>4, <2>5, <2>6, SMTT(60) DEF Explained
<1>7. MarksSensitive(new)
  <2>. SUFFICES ASSUME NEW c \in visited, NEW q \in Elements(Catalogue.cases[c].requirements)
                PROVE  q.input \in Needs /\ (q.sensitive => Trace(q.input).sensitive)
    BY <1>2, <1>3, ZenonT(60) DEF MarksSensitive, Catalogue
  <2>1. q.input \in InputIds
    BY <1>1, <1>3, <1>4, CatalogueAssumption, Zenon DEF Catalogue, Catalogues, Areas
  <2>2. q \in RequirementsOf(q.input)
    BY Zenon DEF RequirementsOf
  <2>. QED
    BY <2>1, <2>2, Zenon DEF Needs, Trace, Sensitive
<1>8. Elements(compiled') = Elements(compiled) \union {new}
  <2> DEFINE T == Elements(compiled) \union {new}
  <2>1. compiled \in Seq(T) /\ new \in T
    BY SeqMonotonic, Zenon DEF PlanInv
  <2>. HIDE DEF T
  <2>. QED
    BY <1>1, <2>1, ElementsAppend, ZenonT(60)
<1>9. \A p \in Elements(compiled') : Explained(p)' /\ MarksSensitive(p)'
  BY <1>1, <1>6, <1>7, <1>8, ReportsAreStable, Zenon DEF ReportInv
<1>. QED
  BY <1>1, <1>9, EdgesStutter, Zenon DEF ReportInv

LEMMA InitReportInv == Init => ReportInv
BY DEF Init, ReportInv, EdgeInv, Elements

LEMMA ReportStep == PlanInv /\ ReportInv /\ [Next]_vars => ReportInv'
<1>. SUFFICES ASSUME PlanInv, ReportInv, [Next]_vars PROVE ReportInv'
  BY Zenon
<1>1. CASE ListEndpoints
  BY <1>1, QuietReport, Zenon DEF ListEndpoints, Fail, PlanInv
<1>2. CASE ResolveCatalogue
  BY <1>2, QuietReport, Zenon DEF ResolveCatalogue, Fail, PlanInv
<1>3. CASE PlaceEndpoint
  <2>1. pc = "place" /\ compiled = <<>> /\ UNCHANGED <<plan, compiled, orderVars>>
    BY <1>3, Zenon DEF PlaceEndpoint, PlanInv
  <2>2. pc' \in {"place", "error"}
    BY <1>3, Zenon DEF PlaceEndpoint, Placement, Fail
  <2>. QED
    BY <2>1, <2>2, QuietReport, Zenon
<1>4. CASE PartitionDone
  BY <1>4, QuietReport, Zenon DEF PartitionDone, NextArea
<1>5. CASE SelectCases
  BY <1>5, SelectReport, Zenon
<1>6. CASE OrderCases
  BY <1>6, OrderReport, Zenon
<1>7. CASE OrderRefused
  BY <1>7, QuietReport, Zenon DEF OrderRefused, Fail
<1>8. CASE CompileArea
  BY <1>8, CompileReport, Zenon
<1>9. CASE CompileAreaRefused
  BY <1>9, QuietReport, Zenon DEF CompileAreaRefused, Fail
<1>10. CASE Merge
  <2>1. UNCHANGED <<plan, parts, compiled, orderVars>>
    BY <1>10, Zenon DEF Merge
  <2>2. CASE pc' = "error"
    BY <2>1, <2>2, QuietReport, Zenon
  <2>3. CASE pc' = "done" /\ snapshot' = [id \in MergedInputs |-> MergedValue(id)]
    <3>1. snapshot' = [id \in MergedInputs |-> MergedValue(id)]'
      BY <2>1, <2>3, ZenonT(60) DEF MergedInputs, MergedValue, TracesOf
    <3>2. \A p \in Elements(compiled') : Explained(p)' /\ MarksSensitive(p)'
      BY <2>1, ReportsAreStable, Zenon DEF ReportInv
    <3>. QED
      BY <2>1, <2>3, <3>1, <3>2, EdgesStutter, Zenon DEF ReportInv
  <2>. QED
    BY <1>10, <2>2, <2>3, Zenon DEF Merge, Fail
<1>11. CASE UNCHANGED vars
  <2>1. UNCHANGED <<plan, parts, area, compiled, base, snapshot, pc, orderVars>>
    BY <1>11, Zenon DEF vars, compilerVars
  <2>2. \A p \in Elements(compiled') : Explained(p)' /\ MarksSensitive(p)'
    BY <2>1, ReportsAreStable, Zenon DEF ReportInv
  <2>3. pc' = "walk" => BaseInv'
    BY <2>1, WantedIsStable, Zenon DEF ReportInv, BaseInv, CasesOf, Catalogue, Catalogues, SeenIn
  <2>4. pc' = "done" => snapshot' = [id \in MergedInputs |-> MergedValue(id)]'
    BY <2>1, ZenonT(60) DEF ReportInv, MergedInputs, MergedValue, TracesOf
  <2>. QED
    BY <2>1, <2>2, <2>3, <2>4, EdgesStutter, Zenon DEF ReportInv
<1>. QED
  BY <1>1, <1>2, <1>3, <1>4, <1>5, <1>6, <1>7, <1>8, <1>9, <1>10, <1>11, Zenon DEF Next, Compile, Returned

\* An input that is sensitive somewhere is sensitive in the merged trace.
LEMMA MergedIsHidden ==
    ASSUME ReportInv
    PROVE  SensitiveValuesAreNotTraced
<1>. SUFFICES ASSUME pc = "done", NEW p \in Elements(compiled), NEW c \in Elements(p.cases),
                     NEW q \in Elements(Catalogues[p.area].cases[c].requirements), q.sensitive
              PROVE  snapshot[q.input] = NoValue
  BY Zenon DEF SensitiveValuesAreNotTraced
<1>1. q.input \in DOMAIN p.inputs /\ p.inputs[q.input].sensitive
  BY Zenon DEF ReportInv, MarksSensitive
<1>2. q.input \in MergedInputs
  BY <1>1, Zenon DEF MergedInputs
<1>3. p.inputs[q.input] \in TracesOf(q.input)
  BY <1>1, Zenon DEF TracesOf
<1>4. MergedValue(q.input) = NoValue
  BY <1>1, <1>3, Zenon DEF MergedValue
<1>. QED
  BY <1>2, <1>4, Zenon DEF ReportInv

-----------------------------------------------------------------------------

\* The invariant holds throughout a compilation (compile_test_plan_document).
THEOREM PlanInvariant == Spec => []PlanInv
BY InitPlanInv, PlanStep, PTL DEF Spec

\* Whatever the catalogue, _ordered_case_ids lists a case after everything it
\* depends on.
THEOREM DependenciesComeFirst == Spec => []DependenciesFirst
<1>1. PlanInv => DependenciesFirst
  BY Zenon DEF PlanInv, WalkInv
<1>. QED
  BY <1>1, PlanInvariant, PTL

\* No case is compiled twice, however many cases depend on it: the visited set
\* of _ordered_case_ids.
THEOREM CasesCompileOnce == Spec => []CompiledOnce
<1>1. PlanInv => CompiledOnce
  BY Zenon DEF PlanInv, WalkInv
<1>. QED
  BY <1>1, PlanInvariant, PTL

\* A compiled plan holds the cases its scope calls for, what they depend on,
\* and nothing else (compile_test_plan), for any catalogues and any plan.
THEOREM PlansCompileExactly == Spec => []CompiledIsExact
<1>1. PlanInv => CompiledIsExact
  BY Zenon DEF PlanInv, CompiledIsExact, IsExact
<1>. QED
  BY <1>1, PlanInvariant, PTL

\* Every area compiled so far has decisions, skips and traces that agree with
\* its cases (_traceability_decisions, _runtime_input_traces).
THEOREM ReportInvariant == Spec => []ReportInv
BY InitReportInv, ReportStep, PlanInvariant, PTL DEF Spec

\* The traceability decisions of a compiled plan agree with its cases: what is
\* reported selected is compiled, and a case that the scope does not call for
\* names the compiled cases it is there for (_traceability_decisions).
THEOREM ReportsExplainPlans == Spec => []DecisionsExplainThePlan
<1>1. ReportInv => DecisionsExplainThePlan
  BY Zenon DEF ReportInv, DecisionsExplainThePlan
<1>. QED
  BY <1>1, ReportInvariant, PTL

\* An input that a compiled case of any area declares sensitive shows no value
\* in the merged snapshot (_merge_runtime_input_trace).
THEOREM SensitiveValuesAreHidden == Spec => []SensitiveValuesAreNotTraced
BY ReportInvariant, MergedIsHidden, PTL
=============================================================================
