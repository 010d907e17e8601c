------------------------ MODULE PlanExecution_proofs ------------------------
(***************************************************************************)
(* Proofs about PlanExecution for plans of any size and shape: the cycle   *)
(* check is right, and what the executors build on it.                     *)
(***************************************************************************)
EXTENDS PlanExecution, SequenceTheorems, TLAPS

Frame == [node : Step, rest : SUBSET Step]

-----------------------------------------------------------------------------
(* The stack of calls. *)

\* Returning from a call leaves the calls below it.
LEMMA BelowFacts ==
  ASSUME stack \in Seq(Frame), stack # <<>>
  PROVE  /\ Len(stack) \in Nat \ {0} /\ Top \in Frame
         /\ BelowTop \in Seq(Frame) /\ Len(BelowTop) = Len(stack) - 1
         /\ \A i \in 1..(Len(stack) - 1) : BelowTop[i] = stack[i]
<1>1. Len(stack) \in Nat \ {0} /\ \A i \in 1..Len(stack) : stack[i] \in Frame
  OBVIOUS
<1>2. Top \in Frame
  BY <1>1 DEF Top
<1>3. /\ BelowTop \in Seq(Frame) /\ Len(BelowTop) = Len(stack) - 1
      /\ \A i \in 1..(Len(stack) - 1) : BelowTop[i] = stack[1 + i - 1]
  <2> DEFINE n == Len(stack) - 1
  <2>1. n \in Int /\ \A i \in 1..n : stack[i] \in Frame
    BY <1>1
  <2> HIDE DEF n
  <2>2. /\ SubSeq(stack, 1, n) \in Seq(Frame)
        /\ Len(SubSeq(stack, 1, n)) = IF 1 <= n THEN n - 1 + 1 ELSE 0
        /\ \A i \in 1..(n - 1 + 1) : SubSeq(stack, 1, n)[i] = stack[1 + i - 1]
    BY <2>1, SubSeqProperties
  <2>3. n \in Nat /\ BelowTop = SubSeq(stack, 1, n)
    BY <1>1 DEF n, BelowTop
  <2>4. (IF 1 <= n THEN n - 1 + 1 ELSE 0) = n /\ 1..(n - 1 + 1) = 1..n
    BY <2>3
  <2>5. Len(BelowTop) = n /\ \A i \in 1..n : BelowTop[i] = stack[1 + i - 1]
    BY ONLY <2>2, <2>3, <2>4
  <2>6. QED
    BY <2>2, <2>3, <2>5 DEF n
<1>4. QED
  BY <1>1, <1>2, <1>3

\* Taking a dependency off the top call changes nothing else.
LEMMA AfterFacts ==
  ASSUME stack \in Seq(Frame), stack # <<>>, NEW d \in Step
  PROVE  /\ Len(stack) \in Nat \ {0} /\ Top \in Frame
         /\ After(d) \in Seq(Frame) /\ Len(After(d)) = Len(stack)
         /\ \A i \in 1..(Len(stack) - 1) : After(d)[i] = stack[i]
         /\ After(d)[Len(stack)] = [node |-> Top.node, rest |-> Top.rest \ {d}]
<1> DEFINE top == [node |-> Top.node, rest |-> Top.rest \ {d}]
<1>1. \A f \in Frame : [node |-> f.node, rest |-> f.rest \ {d}] \in Frame
  BY DEF Frame
<1>2. top \in Frame
  BY <1>1, BelowFacts
<1> HIDE DEF top
<1>3. After(d) = Append(BelowTop, top)
  BY DEF After, top
<1>4. /\ Append(BelowTop, top) \in Seq(Frame)
      /\ Len(Append(BelowTop, top)) = Len(stack)
      /\ \A i \in 1..(Len(stack) - 1) : Append(BelowTop, top)[i] = stack[i]
      /\ Append(BelowTop, top)[Len(stack)] = top
  BY <1>2, BelowFacts
<1>5. QED
  BY <1>3, <1>4, BelowFacts DEF top

\* Calling puts one frame on top.
LEMMA AppendFacts ==
  ASSUME NEW frames \in Seq(Frame), NEW f \in Frame
  PROVE  /\ Append(frames, f) \in Seq(Frame) /\ Len(Append(frames, f)) = Len(frames) + 1
         /\ \A i \in 1..Len(frames) : Append(frames, f)[i] = frames[i]
         /\ Append(frames, f)[Len(frames) + 1] = f
  OBVIOUS

\* What an execution does leaves the plan and the cycle check alone.
LEMMA ExecuteKeeps == Execute => UNCHANGED <<plan, check>>
  BY DEF Execute, RunNext, Finish, StepRefused, StepConverses, ToolRuns, ToolSucceeds,
         ToolFails, CallRejects, Stop

-----------------------------------------------------------------------------
(* Type correctness. *)

\* The checked plan and the search keep their types.
LEMMA ValidateTypes == TypeOK /\ Validate => TypeOK'
<1> SUFFICES ASSUME TypeOK, Validate PROVE TypeOK'
  OBVIOUS
<1>t. stack \in Seq(Frame)
  BY DEF TypeOK, Frame
<1> USE DEF plan, check, work, Reject, Results
<1>1. ASSUME RejectMalformed PROVE TypeOK'
  BY <1>1 DEF RejectMalformed, TypeOK
<1>2. ASSUME BeginCheck PROVE TypeOK'
  BY <1>2 DEF BeginCheck, TypeOK
<1>3. ASSUME Leave PROVE TypeOK'
  <2>1. stack' \in Seq(Frame)
    BY <1>3, <1>t, BelowFacts DEF Leave
  <2>2. QED
    BY <1>3, <2>1 DEF Leave, TypeOK, Frame
<1>4. ASSUME Accept PROVE TypeOK'
  BY <1>4 DEF Accept, TypeOK
<1>5. ASSUME NEW s \in Step, VisitRoot(s) PROVE TypeOK'
  <2>1. [node |-> s, rest |-> deps[s]] \in Frame
    BY DEF TypeOK, Frame
  <2>2. stack' \in Seq(Frame)
    BY <1>5, <1>t, <2>1, AppendFacts DEF VisitRoot, Visit
  <2>3. QED
    BY <1>5, <2>2 DEF VisitRoot, Visit, TypeOK, Frame
<1>6. ASSUME NEW s \in Step, VisitDependency(s) PROVE TypeOK'
  <2>1. [node |-> s, rest |-> deps[s]] \in Frame
    BY DEF TypeOK, Frame
  <2>2. stack' \in Seq(Frame)
    BY <1>6, <1>t, <2>1, AfterFacts, AppendFacts DEF VisitDependency, Visit
  <2>3. QED
    BY <1>6, <2>2 DEF VisitDependency, Visit, TypeOK, Frame
<1>7. ASSUME NEW s \in Step, PassDone(s) PROVE TypeOK'
  <2>1. stack' \in Seq(Frame)
    BY <1>7, <1>t, AfterFacts DEF PassDone
  <2>2. QED
    BY <1>7, <2>1 DEF PassDone, TypeOK, Frame
<1>8. ASSUME NEW s \in Step, FindCycle(s) PROVE TypeOK'
  BY <1>8 DEF FindCycle, TypeOK
<1>9. QED
  BY <1>1, <1>2, <1>3, <1>4, <1>5, <1>6, <1>7, <1>8 DEF Validate

\* So does what the executors keep.
LEMMA ExecuteTypes == TypeOK /\ Execute => TypeOK'
<1> SUFFICES ASSUME TypeOK, Execute PROVE TypeOK'
  OBVIOUS
<1> USE PlanAssumption DEF TypeOK, plan, check, work, Results, StepState, Refusals
<1>1. ASSUME RunNext PROVE TypeOK'
  <2>1. Candidates \subseteq Step
    BY DEF Candidates, Ready, In
  <2>2. QED
    BY <1>1, <2>1 DEF RunNext, FirstOf
<1>2. ASSUME Finish PROVE TypeOK'
  BY <1>2 DEF Finish, LeftOut
<1>0. ASSUME NEW s \in Step, NEW st \in Refusals, Stop(s, st) PROVE TypeOK'
  BY <1>0 DEF Stop, LeftOut, Overall
<1>3. ASSUME NEW s \in Step, StepRefused(s) PROVE TypeOK'
  BY <1>0, <1>3 DEF StepRefused
<1>4. ASSUME NEW s \in Step, StepConverses(s) PROVE TypeOK'
  BY <1>4 DEF StepConverses
<1>5. ASSUME NEW s \in Step, ToolRuns(s) PROVE TypeOK'
  BY <1>5 DEF ToolRuns
<1>6. ASSUME NEW s \in Step, ToolSucceeds(s) PROVE TypeOK'
  BY <1>6 DEF ToolSucceeds
<1>7. ASSUME NEW s \in Step, ToolFails(s) PROVE TypeOK'
  <2>1. CASE Stop(s, "FAILED")
    BY <1>0, <2>1
  <2>2. CASE tries < MaxRetries /\ tries' = tries + 1 /\ pc' = "step"
             /\ UNCHANGED <<plan, check, state, wave, ran, result>>
    <3>1. tries' \in 0..MaxRetries
      BY <2>2
    <3>2. QED
      BY <2>2, <3>1
  <2>3. QED
    BY <1>7, <2>1, <2>2 DEF ToolFails
<1>8. ASSUME NEW s \in Step, CallRejects(s) PROVE TypeOK'
  BY <1>8 DEF CallRejects
<1>9. QED
  BY <1>1, <1>2, <1>3, <1>4, <1>5, <1>6, <1>7, <1>8 DEF Execute

LEMMA InitTypes == Init => TypeOK
<1> SUFFICES ASSUME Init PROVE TypeOK
  OBVIOUS
<1>1. assisted \in BOOLEAN
  BY DEF Init
<1>2. stack \in Seq([node : Step, rest : SUBSET Step]) /\ tries \in 0..MaxRetries
  BY PlanAssumption DEF Init
<1>3. QED
  BY <1>1, <1>2 DEF Init, TypeOK, Results, StepState

LEMMA NextTypes == TypeOK /\ [Next]_vars => TypeOK'
<1>1. TypeOK /\ UNCHANGED vars => TypeOK'
  BY DEF TypeOK, vars, plan, check, work
<1>2. QED
  BY <1>1, ValidateTypes, ExecuteTypes DEF Next

\* Every variable keeps its type (state of src/src/core/workflow/index.ts:127-203).
THEOREM TypeCorrect == Spec => []TypeOK
  BY InitTypes, NextTypes, PTL DEF Spec

-----------------------------------------------------------------------------
(* The cycle check.  The stack is a path of dependencies through the steps   *)
(* that are grey; whatever a call has looked at is black, or called from it; *)
(* and no black step lies on a cycle, or depends on one.                     *)

FramesGrey ==
  \A i \in 1..Len(stack) : /\ color[stack[i].node] = "grey"
                           /\ stack[i].rest \subseteq deps[stack[i].node]

NodesDistinct ==
  \A i, j \in 1..Len(stack) : i # j => stack[i].node # stack[j].node

GreyOnStack ==
  \A s \in Step : color[s] = "grey" => \E i \in 1..Len(stack) : stack[i].node = s

LookedAt ==
  \A i \in 1..Len(stack) : \A d \in deps[stack[i].node] \ stack[i].rest :
     color[d] = "black" \/ (i < Len(stack) /\ stack[i + 1].node = d)

PathOfDependencies ==
  \A i \in 1..(Len(stack) - 1) : stack[i + 1].node \in deps[stack[i].node]

BlackSafe ==
  \A C \in SUBSET Step : Deadlocked(C) => \A s \in C : color[s] # "black"

Search ==
  FramesGrey /\ NodesDistinct /\ GreyOnStack /\ LookedAt /\ PathOfDependencies /\ BlackSafe

\* The frames after a call for d: the one that called it has looked at d.
Called(d) ==
  /\ Len(stack') = Len(stack) + 1
  /\ \A i \in 1..Len(stack) :
        /\ stack'[i].node = stack[i].node
        /\ stack'[i].rest = IF i = Len(stack) THEN stack[i].rest \ {d} ELSE stack[i].rest
  /\ stack'[Len(stack) + 1].node = d /\ stack'[Len(stack) + 1].rest = deps[d]
  /\ Len(stack) > 0 => d \in deps[stack[Len(stack)].node]

LEMMA StackTypes ==
  ASSUME TypeOK
  PROVE  /\ stack \in Seq(Frame) /\ Len(stack) \in Nat
         /\ \A i \in 1..Len(stack) : stack[i].node \in Step /\ stack[i].rest \subseteq Step
<1>1. stack \in Seq(Frame)
  BY DEF TypeOK, Frame
<1>2. \A i \in 1..Len(stack) : stack[i] \in Frame
  BY <1>1
<1>3. \A f \in Frame : f.node \in Step /\ f.rest \subseteq Step
  BY DEF Frame
<1>4. QED
  BY <1>1, <1>2, <1>3

LEMMA RootCalled == ASSUME TypeOK, NEW s \in Step, VisitRoot(s) PROVE Called(s)
<1>1. [node |-> s, rest |-> deps[s]] \in Frame
  BY DEF TypeOK, Frame
<1>2. stack = <<>> /\ stack' = Append(stack, [node |-> s, rest |-> deps[s]])
  BY DEF VisitRoot, Visit
<1>3. QED
  BY <1>1, <1>2, StackTypes, AppendFacts DEF Called

LEMMA DependencyCalled ==
  ASSUME TypeOK, FramesGrey, NEW d \in Step, VisitDependency(d) PROVE Called(d)
<1>1. [node |-> d, rest |-> deps[d]] \in Frame
  BY DEF TypeOK, Frame
<1>2. stack # <<>> /\ d \in Top.rest /\ stack' = Append(After(d), [node |-> d, rest |-> deps[d]])
  BY DEF VisitDependency, Visit
<1>3. /\ Len(stack) \in Nat \ {0}
      /\ After(d) \in Seq(Frame) /\ Len(After(d)) = Len(stack)
      /\ \A i \in 1..(Len(stack) - 1) : After(d)[i] = stack[i]
      /\ After(d)[Len(stack)] = [node |-> Top.node, rest |-> Top.rest \ {d}]
  BY <1>2, StackTypes, AfterFacts
<1>4. /\ Len(stack') = Len(stack) + 1
      /\ \A i \in 1..Len(stack) : stack'[i] = After(d)[i]
      /\ stack'[Len(stack) + 1] = [node |-> d, rest |-> deps[d]]
  BY <1>1, <1>2, <1>3, AppendFacts
<1>5. ASSUME NEW i \in 1..Len(stack)
      PROVE  /\ stack'[i].node = stack[i].node
             /\ stack'[i].rest = IF i = Len(stack) THEN stack[i].rest \ {d} ELSE stack[i].rest
  <2>1. CASE i = Len(stack)
    BY <2>1, <1>3, <1>4 DEF Top
  <2>2. CASE i # Len(stack)
    BY <2>2, <1>3, <1>4
  <2>3. QED
    BY <2>1, <2>2
<1>6. d \in deps[stack[Len(stack)].node]
  BY <1>2, <1>3 DEF FramesGrey, Top
<1>7. stack'[Len(stack) + 1].node = d /\ stack'[Len(stack) + 1].rest = deps[d]
  BY <1>4
<1>8. QED
  BY <1>4, <1>5, <1>6, <1>7 DEF Called

\* A step that is white becomes grey with its call.
LEMMA CallSearches ==
  ASSUME TypeOK, Search, NEW d \in Step, Called(d),
         color[d] = "white", color' = [color EXCEPT ![d] = "grey"], deps' = deps
  PROVE  Search'
<1> DEFINE n == Len(stack)
<1>0. /\ n \in Nat /\ \A i \in 1..n : stack[i].node \in Step
      /\ \A s \in Step : deps[s] \subseteq Step
  BY StackTypes DEF TypeOK
<1>1. /\ n \in Nat /\ Len(stack') = n + 1
      /\ \A i \in 1..n : stack[i].node \in Step
      /\ \A i \in 1..n : stack'[i].node = stack[i].node
      /\ \A i \in 1..(n - 1) : stack'[i].rest = stack[i].rest
      /\ n > 0 => stack'[n].rest = stack[n].rest \ {d} /\ d \in deps[stack[n].node]
      /\ stack'[n + 1].node = d /\ stack'[n + 1].rest = deps[d]
  <2>1. /\ \A i \in 1..(n - 1) : i \in 1..n /\ i # n
        /\ n > 0 => n \in 1..n
    BY <1>0
  <2>2. /\ Len(stack') = n + 1
        /\ \A i \in 1..n : stack'[i].node = stack[i].node
        /\ stack'[n + 1].node = d /\ stack'[n + 1].rest = deps[d]
        /\ n > 0 => d \in deps[stack[n].node]
    BY DEF Called
  <2>3. \A i \in 1..n : stack'[i].rest = IF i = n THEN stack[i].rest \ {d} ELSE stack[i].rest
    BY DEF Called
  <2> HIDE DEF n
  <2>4. QED
    BY <1>0, <2>1, <2>2, <2>3
<1>2. \A s \in Step : color'[s] = IF s = d THEN "grey" ELSE color[s]
  BY DEF TypeOK
<1>3. /\ \A i \in 1..n : color[stack[i].node] = "grey" /\ stack[i].rest \subseteq deps[stack[i].node]
      /\ \A i \in 1..n : stack[i].node # d
  BY <1>1 DEF Search, FramesGrey
<1>4. ASSUME NEW i \in 1..(n + 1)
      PROVE  color'[stack'[i].node] = "grey" /\ stack'[i].rest \subseteq deps'[stack'[i].node]
  <2>1. CASE i = n + 1
    BY <2>1, <1>1, <1>2
  <2>2. CASE i \in 1..n
    BY <2>2, <1>1, <1>2, <1>3
  <2>3. QED
    BY <1>1, <2>1, <2>2
<1>5. ASSUME NEW i \in 1..(n + 1), NEW j \in 1..(n + 1), i # j
      PROVE  stack'[i].node # stack'[j].node
  BY <1>1, <1>3, <1>5 DEF Search, NodesDistinct
<1>6. ASSUME NEW s \in Step, color'[s] = "grey"
      PROVE  \E i \in 1..(n + 1) : stack'[i].node = s
  <2>1. CASE s = d
    BY <2>1, <1>1
  <2>2. CASE s # d
    <3>1. PICK i \in 1..n : stack[i].node = s
      BY <2>2, <1>2, <1>6 DEF Search, GreyOnStack
    <3>2. i \in 1..(n + 1) /\ stack'[i].node = s
      BY <3>1, <1>1
    <3>3. QED
      BY <3>2
  <2>3. QED
    BY <2>1, <2>2
<1>7. ASSUME NEW i \in 1..(n + 1), NEW e \in deps'[stack'[i].node] \ stack'[i].rest
      PROVE  color'[e] = "black" \/ (i < n + 1 /\ stack'[i + 1].node = e)
  <2>1. CASE i = n + 1
    BY <2>1, <1>1, <1>7
  <2>2. CASE i \in 1..n /\ i # n
    <3>1. e \in deps[stack[i].node] \ stack[i].rest /\ e \in Step
      <4>1. i \in 1..(n - 1)
        BY <2>2, <1>1
      <4>2. QED
        BY <4>1, <2>2, <1>0, <1>1, <1>7
    <3>2. color[e] = "black" \/ stack[i + 1].node = e
      BY <2>2, <3>1 DEF Search, LookedAt
    <3>3. QED
      BY <2>2, <3>1, <3>2, <1>1, <1>2
  <2>3. CASE i = n /\ n > 0
    <3>1. e \in deps[stack[n].node] /\ e \in Step /\ (e = d \/ e \notin stack[n].rest)
      BY <2>3, <1>1, <1>7 DEF TypeOK
    <3>2. e # d => color[e] = "black"
      BY <2>3, <3>1, <1>1 DEF Search, LookedAt
    <3>3. QED
      BY <2>3, <3>1, <3>2, <1>1, <1>2
  <2>4. QED
    BY <1>1, <2>1, <2>2, <2>3
<1>8. ASSUME NEW i \in 1..n PROVE stack'[i + 1].node \in deps'[stack'[i].node]
  BY <1>1 DEF Search, PathOfDependencies
<1>9. BlackSafe'
  BY <1>2 DEF Search, BlackSafe, Deadlocked
<1>10. QED
  BY <1>1, <1>4, <1>5, <1>6, <1>7, <1>8, <1>9
     DEF Search, FramesGrey, NodesDistinct, GreyOnStack, LookedAt, PathOfDependencies

\* A black dependency is taken off the top call.
LEMMA PassSearches ==
  ASSUME TypeOK, Search, NEW d \in Step, PassDone(d)
  PROVE  Search'
<1> DEFINE n == Len(stack)
<1>0. /\ n \in Nat \ {0} /\ \A i \in 1..n : stack[i].node \in Step
      /\ stack \in Seq(Frame) /\ stack # <<>> /\ stack' = After(d)
      /\ color' = color /\ deps' = deps /\ color[d] = "black"
  BY StackTypes DEF PassDone, plan
<1>1. /\ n \in 1..n /\ \A i \in 1..(n - 1) : i \in 1..n /\ i + 1 \in 1..n
      /\ \A i \in 1..n : i = n \/ i \in 1..(n - 1)
  BY <1>0
<1>2. /\ Len(stack') = n /\ \A i \in 1..(n - 1) : stack'[i] = stack[i]
      /\ stack'[n].node = stack[n].node /\ stack'[n].rest = stack[n].rest \ {d}
  <2>1. /\ Len(After(d)) = n /\ \A i \in 1..(n - 1) : After(d)[i] = stack[i]
        /\ After(d)[n] = [node |-> Top.node, rest |-> Top.rest \ {d}]
    BY <1>0, AfterFacts
  <2>2. Top = stack[n]
    BY DEF Top
  <2> HIDE DEF n
  <2>3. QED
    BY <1>0, <2>1, <2>2
<1> HIDE DEF n
<1>3. \A i \in 1..n : stack'[i].node = stack[i].node /\ stack'[i].rest \subseteq stack[i].rest
  BY <1>1, <1>2
<1>4. FramesGrey'
  BY <1>0, <1>2, <1>3 DEF Search, FramesGrey, n
<1>5. NodesDistinct'
  BY <1>2, <1>3 DEF Search, NodesDistinct, n
<1>6. GreyOnStack'
  BY <1>0, <1>2, <1>3 DEF Search, GreyOnStack, n
<1>7. LookedAt'
  <2>1. ASSUME NEW i \in 1..n, NEW e \in deps[stack[i].node] \ stack'[i].rest
        PROVE  color[e] = "black" \/ (i < n /\ stack'[i + 1].node = e)
    <3>1. e = d \/ e \notin stack[i].rest
      BY <2>1, <1>1, <1>2
    <3>2. CASE e = d
      BY <3>2, <1>0
    <3>3. CASE e \notin stack[i].rest
      <4>1. color[e] = "black" \/ (i < n /\ stack[i + 1].node = e)
        BY <2>1, <3>3 DEF Search, LookedAt, n
      <4>2. i < n => i + 1 \in 1..n
        BY <1>0, <1>1
      <4>3. QED
        BY <4>1, <4>2, <1>3
    <3>4. QED
      BY <3>1, <3>2, <3>3
  <2>2. QED
    BY <1>0, <1>2, <1>3, <2>1 DEF LookedAt
<1>8. PathOfDependencies'
  BY <1>0, <1>1, <1>2, <1>3 DEF Search, PathOfDependencies, n
<1>9. BlackSafe'
  BY <1>0 DEF Search, BlackSafe, Deadlocked
<1>10. QED
  BY <1>4, <1>5, <1>6, <1>7, <1>8, <1>9 DEF Search

\* The step of a call that has looked at everything depends on black steps only:
\* no cycle comes back to it, and it may be black itself.
LEMMA LeaveSearches ==
  ASSUME TypeOK, Search, Leave
  PROVE  Search'
<1> DEFINE n == Len(stack)
           top == stack[n].node
<1>0. /\ n \in Nat \ {0} /\ \A i \in 1..n : stack[i].node \in Step
      /\ stack \in Seq(Frame) /\ stack # <<>> /\ stack' = BelowTop
      /\ deps' = deps /\ stack[n].rest = {} /\ top \in Step
      /\ \A s \in Step : color'[s] = IF s = top THEN "black" ELSE color[s]
      /\ \A s \in Step : deps[s] \subseteq Step
  BY StackTypes DEF Leave, plan, Top, TypeOK
<1>1. /\ n \in 1..n /\ \A i \in 1..(n - 1) : i \in 1..n /\ i + 1 \in 1..n /\ i # n
      /\ \A i \in 1..n : i = n \/ i \in 1..(n - 1)
      /\ \A i \in 1..(n - 1) : i = n - 1 \/ i + 1 \in 1..(n - 1)
      /\ \A i \in 1..((n - 1) - 1) : i \in 1..(n - 1) /\ i + 1 \in 1..(n - 1)
      /\ \A i \in 1..(n - 1) : i < n - 1 \/ i + 1 = n
  BY <1>0
<1>2. Len(stack') = n - 1 /\ \A i \in 1..(n - 1) : stack'[i] = stack[i]
  BY <1>0, BelowFacts
<1>3. \A d \in deps[top] : d \in Step /\ color[d] = "black"
  BY <1>0, <1>1 DEF Search, LookedAt
<1>a. /\ color[top] = "grey"
      /\ \A i \in 1..n : color[stack[i].node] = "grey" /\ stack[i].rest \subseteq deps[stack[i].node]
      /\ \A i \in 1..(n - 1) : stack[i].node # top
  BY <1>0, <1>1 DEF Search, FramesGrey, NodesDistinct
<1> HIDE DEF n, top
<1>4. FramesGrey'
  BY <1>0, <1>1, <1>2, <1>a DEF FramesGrey
<1>5. NodesDistinct'
  BY <1>1, <1>2 DEF Search, NodesDistinct, n
<1>6. GreyOnStack'
  <2>1. ASSUME NEW s \in Step, color'[s] = "grey"
        PROVE  \E i \in 1..(n - 1) : stack'[i].node = s
    <3>1. s # top /\ color[s] = "grey"
      BY <2>1, <1>0
    <3>2. PICK i \in 1..n : stack[i].node = s
      BY <3>1 DEF Search, GreyOnStack, n
    <3>3. i \in 1..(n - 1)
      BY <3>1, <3>2, <1>1 DEF top
    <3>4. QED
      BY <3>2, <3>3, <1>2
  <2>2. QED
    BY <1>2, <2>1 DEF GreyOnStack
<1>7. LookedAt'
  <2>1. ASSUME NEW i \in 1..(n - 1), NEW e \in deps[stack[i].node] \ stack[i].rest
        PROVE  color'[e] = "black" \/ (i < n - 1 /\ stack'[i + 1].node = e)
    <3>1. e \in Step /\ i \in 1..n
      BY <1>0, <1>1
    <3>2. CASE color[e] = "black"
      BY <3>1, <3>2, <1>0
    <3>3. CASE stack[i + 1].node = e
      <4>1. CASE i + 1 = n
        BY <4>1, <3>1, <3>3, <1>0 DEF top
      <4>2. CASE i < n - 1
        BY <4>2, <3>3, <1>1, <1>2, <1>0
      <4>3. QED
        BY <4>1, <4>2, <1>1
    <3>4. QED
      BY <3>1, <3>2, <3>3 DEF Search, LookedAt, n
  <2>2. QED
    BY <1>0, <1>2, <2>1 DEF LookedAt
<1>8. PathOfDependencies'
  <2>1. ASSUME NEW i \in 1..((n - 1) - 1)
        PROVE  stack'[i + 1].node \in deps[stack'[i].node]
    BY <1>1, <1>2 DEF Search, PathOfDependencies, n
  <2>2. QED
    BY <1>0, <1>2, <2>1 DEF PathOfDependencies
<1>9. BlackSafe'
  <2>1. ASSUME NEW C \in SUBSET Step, Deadlocked(C), NEW s \in C PROVE color'[s] # "black"
    <3>1. \A t \in C : color[t] # "black"
      BY <2>1 DEF Search, BlackSafe
    <3>2. s # top
      BY <2>1, <3>1, <1>3 DEF Deadlocked
    <3>3. QED
      BY <2>1, <3>1, <3>2, <1>0
  <2>2. QED
    BY <1>0, <2>1 DEF BlackSafe, Deadlocked
<1>10. QED
  BY <1>4, <1>5, <1>6, <1>7, <1>8, <1>9 DEF Search

\* A dependency that is grey closes a cycle: the calls from its own upward.
LEMMA GreyClosesCycle ==
  ASSUME TypeOK, Search, NEW d \in Step, stack # <<>>, d \in Top.rest, color[d] = "grey"
  PROVE  Cyclic
<1> DEFINE n == Len(stack)
<1>0. /\ n \in Nat \ {0} /\ \A i \in 1..n : stack[i].node \in Step
      /\ d \in deps[stack[n].node]
  BY StackTypes DEF Search, FramesGrey, Top
<1>1. PICK k \in 1..n : stack[k].node = d
  BY DEF Search, GreyOnStack
<1> DEFINE C == {stack[i].node : i \in k..n}
<1>2. C \in SUBSET Step /\ d \in C
  BY <1>0, <1>1
<1>3. ASSUME NEW s \in C PROVE deps[s] \cap C # {}
  <2>1. PICK i \in k..n : stack[i].node = s
    OBVIOUS
  <2>2. CASE i = n
    BY <2>1, <2>2, <1>0, <1>2
  <2>3. CASE i # n
    <3>1. i \in 1..(n - 1) /\ i + 1 \in k..n
      BY <2>1, <2>3, <1>0, <1>1
    <3>2. stack[i + 1].node \in deps[stack[i].node]
      BY <3>1 DEF Search, PathOfDependencies
    <3>3. stack[i + 1].node \in C
      BY <3>1
    <3>4. QED
      BY <2>1, <3>2, <3>3
  <2>4. QED
    BY <2>2, <2>3
<1>4. QED
  BY <1>2, <1>3 DEF Deadlocked, Cyclic

\* When every step has been visited and no call is left, all of them are black.
LEMMA BlackIsAcyclic ==
  ASSUME TypeOK, Search, stack = <<>>, \A s \in Step : color[s] # "white"
  PROVE  ~Cyclic
<1>1. \A s \in Step : color[s] = "black"
  <2>1. 1..Len(stack) = {}
    OBVIOUS
  <2>2. \A s \in Step : color[s] # "grey"
    BY <2>1 DEF Search, GreyOnStack
  <2>3. QED
    BY <2>2 DEF TypeOK
<1>2. QED
  BY <1>1 DEF Search, BlackSafe, Cyclic, Deadlocked

CheckInv ==
  TypeOK /\ Search /\ (pc = "validate" => wellFormed) /\ AcceptsExactlyDags

LEMMA InitChecks == Init => CheckInv
<1> SUFFICES ASSUME Init PROVE CheckInv
  OBVIOUS
<1>1. stack = <<>> /\ Len(stack) = 0 /\ \A s \in Step : color[s] = "white"
  BY DEF Init
<1>2. Search
  BY <1>1 DEF Search, FramesGrey, NodesDistinct, GreyOnStack, LookedAt,
              PathOfDependencies, BlackSafe
<1>3. QED
  BY <1>2, InitTypes DEF Init, CheckInv, AcceptsExactlyDags

LEMMA NextChecks == CheckInv /\ [Next]_vars => CheckInv'
<1> SUFFICES ASSUME CheckInv, [Next]_vars PROVE CheckInv'
  OBVIOUS
<1>t. TypeOK /\ Search /\ TypeOK'
  BY NextTypes DEF CheckInv
<1>k. ASSUME UNCHANGED <<plan, check>>
      PROVE  Search' /\ Cyclic' = Cyclic /\ wellFormed' = wellFormed
  BY <1>k, <1>t DEF plan, check, Search, FramesGrey, NodesDistinct, GreyOnStack, LookedAt,
         PathOfDependencies, BlackSafe, Deadlocked, Cyclic
<1>d. ASSUME deps' = deps PROVE Cyclic' = Cyclic
  BY <1>d DEF Cyclic, Deadlocked
<1>1. ASSUME RejectMalformed PROVE CheckInv'
  <2>1. SelfDependent => Cyclic
    <3>1. ASSUME NEW s \in Step, s \in deps[s] PROVE Deadlocked({s}) /\ {s} \in SUBSET Step
      BY <3>1 DEF Deadlocked
    <3>2. QED
      BY <3>1 DEF SelfDependent, Cyclic
  <2>2. UNCHANGED <<plan, check>> /\ pc' = "ended" /\ result' = "INVALID"
    BY <1>1 DEF RejectMalformed, Reject
  <2>3. QED
    BY <1>1, <2>1, <2>2, <1>t, <1>k DEF RejectMalformed, CheckInv, AcceptsExactlyDags
<1>2. ASSUME BeginCheck PROVE CheckInv'
  BY <1>2, <1>t, <1>k DEF BeginCheck, CheckInv, AcceptsExactlyDags, work
<1>3. ASSUME Leave PROVE CheckInv'
  <2>1. Search'
    BY <1>3, <1>t, LeaveSearches
  <2>2. QED
    BY <1>3, <2>1, <1>t, <1>d DEF Leave, CheckInv, AcceptsExactlyDags, work, plan
<1>4. ASSUME Accept PROVE CheckInv'
  <2>1. ~Cyclic /\ wellFormed
    BY <1>4, <1>t, BlackIsAcyclic DEF Accept, CheckInv
  <2>2. QED
    BY <1>4, <2>1, <1>t, <1>k DEF Accept, CheckInv, AcceptsExactlyDags, work
<1>5. ASSUME NEW s \in Step, VisitRoot(s) PROVE CheckInv'
  <2>1. Search'
    BY <1>5, <1>t, RootCalled, CallSearches DEF VisitRoot, Visit, plan
  <2>2. QED
    BY <1>5, <2>1, <1>t, <1>d DEF VisitRoot, Visit, CheckInv, AcceptsExactlyDags, work, plan
<1>6. ASSUME NEW s \in Step, VisitDependency(s) PROVE CheckInv'
  <2>1. FramesGrey
    BY <1>t DEF Search
  <2>2. Search'
    BY <1>6, <2>1, <1>t, DependencyCalled, CallSearches DEF VisitDependency, Visit, plan
  <2>3. QED
    BY <1>6, <2>2, <1>t, <1>d DEF VisitDependency, Visit, CheckInv, AcceptsExactlyDags, work, plan
<1>7. ASSUME NEW s \in Step, PassDone(s) PROVE CheckInv'
  <2>1. Search'
    BY <1>7, <1>t, PassSearches
  <2>2. QED
    BY <1>7, <2>1, <1>t, <1>d DEF PassDone, CheckInv, AcceptsExactlyDags, work, plan
<1>8. ASSUME NEW s \in Step, FindCycle(s) PROVE CheckInv'
  <2>1. Cyclic
    BY <1>8, <1>t, GreyClosesCycle DEF FindCycle
  <2>2. UNCHANGED <<plan, check>> /\ pc' = "ended"
    BY <1>8 DEF FindCycle, Reject
  <2>3. QED
    BY <2>1, <2>2, <1>t, <1>k DEF CheckInv, AcceptsExactlyDags
<1>9. ASSUME Execute PROVE CheckInv'
  <2>1. UNCHANGED <<plan, check>>
    BY <1>9, ExecuteKeeps
  <2> DEFINE Goal == /\ pc \in {"next", "step", "tool"} /\ pc' # "validate"
                     /\ result' = result \/ result' # "INVALID"
  <2>2. ASSUME NEW s \in Step, NEW st \in Refusals, Stop(s, st)
        PROVE  pc' # "validate" /\ result' # "INVALID"
    BY <2>2 DEF Stop, Overall, Refusals
  <2>3. RunNext \/ Finish => Goal
    BY DEF RunNext, Finish
  <2>4. ASSUME NEW s \in Step,
               StepConverses(s) \/ ToolRuns(s) \/ ToolSucceeds(s) \/ CallRejects(s)
        PROVE  Goal
    BY <2>4 DEF StepConverses, ToolRuns, ToolSucceeds, CallRejects
  <2>5. ASSUME NEW s \in Step, StepRefused(s) \/ ToolFails(s) PROVE Goal
    BY <2>2, <2>5 DEF StepRefused, ToolFails, Refusals
  <2>6. Goal
    BY <1>9, <2>3, <2>4, <2>5 DEF Execute
  <2>7. QED
    BY <2>1, <2>6, <1>t, <1>k DEF CheckInv, AcceptsExactlyDags
<1>10. ASSUME UNCHANGED vars PROVE CheckInv'
  <2>1. UNCHANGED <<plan, check>> /\ pc' = pc /\ result' = result
    BY <1>10 DEF vars, work
  <2>2. QED
    BY <2>1, <1>t, <1>k DEF CheckInv, AcceptsExactlyDags
<1>11. QED
  BY <1>1, <1>2, <1>3, <1>4, <1>5, <1>6, <1>7, <1>8, <1>9, <1>10 DEF Next, Validate

\* The cycle check accepts a well-formed plan exactly if no set of its steps waits
\* for itself (src/src/core/workflow/index.ts:70-108, src/src/core/brain/index.ts:128-160).
THEOREM ChecksExactly == Spec => []AcceptsExactlyDags
<1>1. Spec => []CheckInv
  BY InitChecks, NextChecks, PTL DEF Spec
<1>2. CheckInv => AcceptsExactlyDags
  BY DEF CheckInv
<1>3. QED
  BY <1>1, <1>2, PTL

-----------------------------------------------------------------------------
(* The executors: before an execution nothing has happened, while it goes on *)
(* at most one step is running and the others wait or have succeeded, and    *)
(* the steps of a round are ready until they are run.                        *)

Untouched ==
  pc \in {"new", "validate"} => \A s \in Step : state[s] = "PENDING"

OneRunning ==
  /\ pc = "next" => \A s \in Step : state[s] \in {"PENDING", "SUCCEEDED"}
  /\ pc \in {"step", "tool"} =>
        \A s, t \in Step : state[s] = "RUNNING" /\ s # t => state[t] \in {"PENDING", "SUCCEEDED"}

WaveReady ==
  /\ \A s \in wave : state[s] = "PENDING" /\ \A d \in deps[s] : state[d] = "SUCCEEDED"
  /\ wave # {} => kind = "plan" /\ pc \in {"next", "step", "tool"}

Working == Untouched /\ OneRunning /\ WaveReady

\* What may be run next is waiting, and all it depends on has succeeded.
LEMMA CandidatesReady ==
  ASSUME TypeOK, Working, NEW s \in Candidates
  PROVE  s \in Step /\ state[s] = "PENDING" /\ \A d \in deps[s] : state[d] = "SUCCEEDED"
<1>1. CASE s \in Ready
  BY <1>1 DEF Ready, In
<1>2. CASE s \in wave
  BY <1>2 DEF Working, WaveReady, TypeOK
<1>3. QED
  BY <1>1, <1>2 DEF Candidates

\* A step that stops the execution leaves what has succeeded, and what was not
\* to be run, as it is.
LEMMA StopFacts ==
  ASSUME TypeOK, NEW s \in Step, NEW st \in Refusals, Stop(s, st)
  PROVE  /\ pc' = "ended" /\ wave' = {} /\ deps' = deps /\ kind' = kind /\ ran' = ran
         /\ result' = Overall(st) /\ state'[s] = st
         /\ \A t \in Step \ {s} : state'[t] = IF state[t] = "PENDING" /\ kind = "plan"
                                              THEN "SKIPPED" ELSE state[t]
  BY DEF Stop, LeftOut, plan

LEMMA ValidateWorks == TypeOK /\ Working /\ DependenciesFirst /\ Validate => Working' /\ DependenciesFirst'
<1> SUFFICES ASSUME TypeOK, Working, DependenciesFirst, Validate PROVE Working' /\ DependenciesFirst'
  OBVIOUS
<1>1. /\ pc \in {"new", "validate"} /\ pc' \in {"new", "validate", "next", "ended"}
      /\ UNCHANGED <<state, wave, deps, kind>>
  BY DEF Validate, RejectMalformed, BeginCheck, Leave, Accept, VisitRoot, VisitDependency, Visit,
         PassDone, FindCycle, Reject, plan, work
<1>2. wave = {} /\ \A s \in Step : state[s] = "PENDING"
  BY <1>1 DEF Working, WaveReady, Untouched
<1>3. Working'
  BY <1>1, <1>2 DEF Working, Untouched, OneRunning, WaveReady
<1>4. QED
  BY <1>1, <1>3 DEF DependenciesFirst

LEMMA ExecuteWorks == TypeOK /\ Working /\ DependenciesFirst /\ Execute => Working' /\ DependenciesFirst'
<1> SUFFICES ASSUME TypeOK, Working, DependenciesFirst, Execute PROVE Working' /\ DependenciesFirst'
  OBVIOUS
<1> DEFINE Goal == Working' /\ DependenciesFirst'
<1>0. \A s \in Step : deps[s] \subseteq Step
  BY DEF TypeOK
<1>1. ASSUME RunNext PROVE Goal
  <2>1. PICK s \in Candidates : /\ state' = [state EXCEPT ![s] = "RUNNING"]
                                /\ wave' = IF kind = "plan" THEN Candidates \ {s} ELSE {}
    BY <1>1 DEF RunNext
  <2>2. /\ s \in Step /\ pc = "next" /\ pc' = "step" /\ deps' = deps /\ kind' = kind
        /\ \A t \in Step : state'[t] = IF t = s THEN "RUNNING" ELSE state[t]
    BY <1>1, <2>1, CandidatesReady DEF RunNext, plan, TypeOK
  <2>3. \A t \in Candidates : /\ t \in Step /\ state[t] = "PENDING"
                              /\ \A d \in deps[t] : d # s /\ state[d] = "SUCCEEDED"
    BY <2>1, CandidatesReady
  <2>4. Untouched' /\ OneRunning'
    BY <2>2 DEF Untouched, OneRunning, Working
  <2>5. WaveReady'
    BY <1>0, <2>1, <2>2, <2>3 DEF WaveReady
  <2>6. DependenciesFirst'
    BY <1>0, <2>1, <2>2, <2>3 DEF DependenciesFirst
  <2>7. QED
    BY <2>4, <2>5, <2>6 DEF Working
<1>2. ASSUME Finish PROVE Goal
  <2>1. /\ pc = "next" /\ pc' = "ended" /\ wave' = wave /\ deps' = deps /\ kind' = kind
        /\ \A t \in Step : state'[t] = IF state[t] = "PENDING" /\ kind = "plan"
                                      THEN "SKIPPED" ELSE state[t]
        /\ Candidates = {}
    BY <1>2 DEF Finish, LeftOut, plan
  <2>2. wave = {}
    BY <2>1 DEF Candidates, Working, WaveReady
  <2>3. QED
    BY <1>0, <2>1, <2>2 DEF Working, Untouched, OneRunning, WaveReady, DependenciesFirst
<1>3. ASSUME NEW s \in Step, NEW st \in Refusals, state[s] = "RUNNING", Stop(s, st) PROVE Goal
  <2>1. DependenciesFirst'
    BY <1>0, <1>3, StopFacts DEF DependenciesFirst
  <2>2. QED
    BY <1>3, <2>1, StopFacts DEF Working, Untouched, OneRunning, WaveReady
<1>4. ASSUME NEW s \in Step, StepRefused(s) PROVE Goal
  BY <1>3, <1>4 DEF StepRefused
<1>5. ASSUME NEW s \in Step, StepConverses(s) PROVE Goal
  <2>1. /\ pc' = "ended" /\ wave' = wave /\ deps' = deps /\ kind = "task" /\ kind' = kind
        /\ state[s] = "RUNNING"
        /\ \A t \in Step : state'[t] = IF t = s THEN "CONVERSED" ELSE state[t]
    BY <1>5 DEF StepConverses, plan, TypeOK
  <2>2. wave = {}
    BY <2>1 DEF Working, WaveReady
  <2>3. DependenciesFirst'
    BY <1>0, <2>1 DEF DependenciesFirst
  <2>4. QED
    BY <2>1, <2>2, <2>3 DEF Working, Untouched, OneRunning, WaveReady
<1>6. ASSUME NEW s \in Step, ToolRuns(s) PROVE Goal
  BY <1>6 DEF ToolRuns, plan, Working, Untouched, OneRunning, WaveReady, DependenciesFirst
<1>7. ASSUME NEW s \in Step, ToolSucceeds(s) PROVE Goal
  <2>1. /\ pc = "tool" /\ pc' = "next" /\ wave' = wave /\ deps' = deps /\ kind' = kind
        /\ state[s] = "RUNNING"
        /\ \A t \in Step : state'[t] = IF t = s THEN "SUCCEEDED" ELSE state[t]
    BY <1>7 DEF ToolSucceeds, plan, TypeOK
  <2>2. DependenciesFirst'
    BY <1>0, <2>1 DEF DependenciesFirst
  <2>3. Untouched' /\ OneRunning'
    BY <2>1 DEF Working, Untouched, OneRunning
  <2>4. WaveReady'
    <3>1. wave \subseteq Step
      BY DEF TypeOK
    <3>2. QED
      BY <1>0, <2>1, <3>1 DEF Working, WaveReady
  <2>5. QED
    BY <2>2, <2>3, <2>4 DEF Working
<1>8. ASSUME NEW s \in Step, ToolFails(s) PROVE Goal
  <2>1. CASE Stop(s, "FAILED")
    BY <1>3, <1>8, <2>1 DEF ToolFails, Refusals
  <2>2. CASE pc' = "step" /\ UNCHANGED <<plan, check, state, wave, ran, result>>
    BY <1>8, <2>2 DEF ToolFails, plan, Working, Untouched, OneRunning, WaveReady, DependenciesFirst
  <2>3. QED
    BY <1>8, <2>1, <2>2 DEF ToolFails
<1>9. ASSUME NEW s \in Step, CallRejects(s) PROVE Goal
  BY <1>9 DEF CallRejects, plan, Working, Untouched, OneRunning, WaveReady, DependenciesFirst
<1>10. QED
  BY <1>1, <1>2, <1>4, <1>5, <1>6, <1>7, <1>8, <1>9 DEF Execute

LEMMA NextWorks == TypeOK /\ Working /\ DependenciesFirst /\ [Next]_vars => Working' /\ DependenciesFirst'
<1>1. TypeOK /\ Working /\ DependenciesFirst /\ UNCHANGED vars => Working' /\ DependenciesFirst'
  BY DEF vars, plan, check, work, Working, Untouched, OneRunning, WaveReady, DependenciesFirst
<1>2. QED
  BY <1>1, ValidateWorks, ExecuteWorks DEF Next

LEMMA InitWorks == Init => Working /\ DependenciesFirst
  BY DEF Init, Working, Untouched, OneRunning, WaveReady, DependenciesFirst

LEMMA ExecutionInvariant == Spec => [](CheckInv /\ Working /\ DependenciesFirst)
<1>1. CheckInv => TypeOK
  BY DEF CheckInv
<1>2. QED
  BY <1>1, InitChecks, NextChecks, InitWorks, NextWorks, PTL DEF Spec

\* No step is run, by any of the executors, before all it depends on has succeeded
\* (src/src/core/workflow/index.ts:138-150, src/src/core/orchestrator/index.ts:463-471).
THEOREM RunsDependenciesFirst == Spec => []DependenciesFirst
  BY ExecutionInvariant, PTL

\* The waiting steps of an execution that goes on, if none of them is ready, wait
\* for each other.
LEMMA StuckIsCyclic ==
  ASSUME TypeOK, Working, pc = "next", Candidates = {}, In("PENDING") # {}
  PROVE  Cyclic
<1>1. Ready = {}
  BY DEF Candidates
<1>2. ASSUME NEW s \in In("PENDING") PROVE deps[s] \cap In("PENDING") # {}
  <2>1. PICK d \in deps[s] : d \in Step /\ state[d] # "SUCCEEDED"
    BY <1>1 DEF Ready, In, TypeOK
  <2>2. d \in In("PENDING")
    BY <2>1 DEF Working, OneRunning, In
  <2>3. QED
    BY <2>2
<1>3. In("PENDING") \in SUBSET Step
  BY DEF In
<1>4. QED
  BY <1>2, <1>3 DEF Deadlocked, Cyclic

LEMMA NextResolves == CheckInv /\ Working /\ NeverUnresolved /\ [Next]_vars => NeverUnresolved'
<1> SUFFICES ASSUME CheckInv, Working, NeverUnresolved, [Next]_vars PROVE NeverUnresolved'
  OBVIOUS
<1> USE DEF NeverUnresolved
<1>1. ASSUME Validate PROVE result' # "UNRESOLVED"
  BY <1>1 DEF Validate, RejectMalformed, BeginCheck, Leave, Accept, VisitRoot, VisitDependency,
         Visit, PassDone, FindCycle, Reject, work
<1>2. ASSUME Finish PROVE result' # "UNRESOLVED"
  <2>1. In("PENDING") = {}
    BY <1>2, StuckIsCyclic DEF Finish, CheckInv, AcceptsExactlyDags
  <2>2. QED
    BY <1>2, <2>1 DEF Finish
<1>3. ASSUME NEW s \in Step, NEW st \in Refusals, Stop(s, st) PROVE result' # "UNRESOLVED"
  BY <1>3 DEF Stop, Overall, Refusals
<1>4. ASSUME NEW s \in Step, StepRefused(s) \/ ToolFails(s) PROVE result' # "UNRESOLVED"
  BY <1>3, <1>4 DEF StepRefused, ToolFails, Refusals
<1>5. ASSUME NEW s \in Step,
             StepConverses(s) \/ ToolRuns(s) \/ ToolSucceeds(s) \/ CallRejects(s)
      PROVE  result' # "UNRESOLVED"
  BY <1>5 DEF StepConverses, ToolRuns, ToolSucceeds, CallRejects
<1>6. ASSUME RunNext PROVE result' # "UNRESOLVED"
  BY <1>6 DEF RunNext
<1>7. ASSUME UNCHANGED vars PROVE result' # "UNRESOLVED"
  BY <1>7 DEF vars, work
<1>8. QED
  BY <1>1, <1>2, <1>4, <1>5, <1>6, <1>7 DEF Next, Execute

\* A plan the validator has let through is never given up as unresolvable: those
\* returns (src/src/core/workflow/index.ts:143-150, task/index.ts:131-139) are dead code.
THEOREM AlwaysResolves == Spec => []NeverUnresolved
<1>1. Init => NeverUnresolved
  BY DEF Init, NeverUnresolved
<1>2. QED
  BY <1>1, ExecutionInvariant, NextResolves, PTL DEF Spec

-----------------------------------------------------------------------------
(* How often a tool runs. *)

\* A step that was not begun has not run its tool; the one that is running has
\* run it once for each retry, and once more if it waits for the tool.
Counted ==
  /\ \A s \in Step : state[s] \in {"PENDING", "SKIPPED"} => ran[s] = 0
  /\ \A s \in Step : state[s] = "RUNNING" =>
        (pc = "step" => ran[s] = tries) /\ (pc = "tool" => ran[s] = tries + 1)
  /\ ~assisted => tries = 0

LEMMA NextCounts ==
  TypeOK /\ Working /\ Counted /\ RunsBounded /\ [Next]_vars => Counted' /\ RunsBounded'
<1> SUFFICES ASSUME TypeOK, Working, Counted, RunsBounded, [Next]_vars
             PROVE  Counted' /\ RunsBounded'
  OBVIOUS
<1> DEFINE Goal == Counted' /\ RunsBounded'
<1>t. tries \in 0..MaxRetries /\ MaxRetries \in Nat /\ \A s \in Step : ran[s] \in Nat
  BY PlanAssumption DEF TypeOK
<1>1. ASSUME Validate PROVE Goal
  <2>1. /\ UNCHANGED <<state, tries, ran, assisted>> /\ pc' \notin {"step", "tool"}
    BY <1>1 DEF Validate, RejectMalformed, BeginCheck, Leave, Accept, VisitRoot, VisitDependency,
           Visit, PassDone, FindCycle, Reject, plan, work
  <2>2. QED
    BY <2>1 DEF Counted, RunsBounded
<1>2. ASSUME RunNext PROVE Goal
  <2>1. PICK s \in Candidates : state' = [state EXCEPT ![s] = "RUNNING"]
    BY <1>2 DEF RunNext
  <2>2. s \in Step /\ state[s] = "PENDING" /\ ran[s] = 0
    BY <2>1, CandidatesReady DEF Counted
  <2>3. /\ pc = "next" /\ pc' = "step" /\ tries' = 0 /\ ran' = ran /\ assisted' = assisted
        /\ \A t \in Step : state'[t] = IF t = s THEN "RUNNING" ELSE state[t]
    BY <1>2, <2>1, <2>2 DEF RunNext, plan, TypeOK
  <2>4. \A t \in Step : t # s => state[t] # "RUNNING"
    BY <2>3 DEF Working, OneRunning
  <2>5. QED
    BY <2>2, <2>3, <2>4 DEF Counted, RunsBounded
<1>3. ASSUME NEW s \in Step, NEW st \in Refusals, state[s] = "RUNNING", Stop(s, st) PROVE Goal
  <2>1. pc' = "ended" /\ UNCHANGED <<ran, tries, assisted>>
    BY <1>3 DEF Stop, plan
  <2>2. \A t \in Step : state'[t] \in {"PENDING", "SKIPPED"} => state[t] \in {"PENDING", "SKIPPED"}
    BY <1>3, StopFacts DEF Refusals
  <2>3. QED
    BY <2>1, <2>2 DEF Counted, RunsBounded
<1>4. ASSUME NEW s \in Step, StepRefused(s) PROVE Goal
  BY <1>3, <1>4 DEF StepRefused
<1>5. ASSUME Finish PROVE Goal
  <2>1. /\ pc' = "ended" /\ UNCHANGED <<ran, tries, assisted>>
        /\ \A t \in Step : state'[t] \in {"PENDING", "SKIPPED"} => state[t] \in {"PENDING", "SKIPPED"}
    BY <1>5 DEF Finish, LeftOut, plan
  <2>2. QED
    BY <2>1 DEF Counted, RunsBounded
<1>6. ASSUME NEW s \in Step, StepConverses(s) PROVE Goal
  <2>1. /\ pc' = "ended" /\ UNCHANGED <<ran, tries, assisted>>
        /\ \A t \in Step : state'[t] \in {"PENDING", "SKIPPED"} => state[t] \in {"PENDING", "SKIPPED"}
    BY <1>6 DEF StepConverses, plan, TypeOK
  <2>2. QED
    BY <2>1 DEF Counted, RunsBounded
<1>7. ASSUME NEW s \in Step, ToolRuns(s) PROVE Goal
  <2>1. /\ pc = "step" /\ pc' = "tool" /\ state[s] = "RUNNING"
        /\ UNCHANGED <<state, tries, assisted>>
        /\ \A t \in Step : ran'[t] = IF t = s THEN ran[t] + 1 ELSE ran[t]
    BY <1>7 DEF ToolRuns, plan, TypeOK
  <2>2. \A t \in Step : t # s => state[t] # "RUNNING"
    BY <2>1 DEF Working, OneRunning
  <2>3. ran[s] = tries
    BY <2>1 DEF Counted
  <2>4. Counted'
    BY <2>1, <2>2, <2>3, <1>t DEF Counted
  <2>5. RunsBounded'
    BY <2>1, <2>3, <1>t DEF Counted, RunsBounded
  <2>6. QED
    BY <2>4, <2>5
<1>8. ASSUME NEW s \in Step, ToolSucceeds(s) PROVE Goal
  <2>1. /\ pc' = "next" /\ UNCHANGED <<ran, tries, assisted>>
        /\ \A t \in Step : state'[t] = IF t = s THEN "SUCCEEDED" ELSE state[t]
    BY <1>8 DEF ToolSucceeds, plan, TypeOK
  <2>2. QED
    BY <2>1 DEF Counted, RunsBounded
<1>9. ASSUME NEW s \in Step, ToolFails(s) PROVE Goal
  <2>1. CASE Stop(s, "FAILED")
    BY <1>3, <1>9, <2>1 DEF ToolFails, Refusals
  <2>2. CASE /\ assisted /\ tries' = tries + 1 /\ pc' = "step"
             /\ UNCHANGED <<plan, check, state, wave, ran, result>>
    <3>1. pc = "tool" /\ UNCHANGED <<state, ran, assisted>>
      BY <1>9, <2>2 DEF ToolFails, plan
    <3>2. QED
      BY <2>2, <3>1 DEF Counted, RunsBounded
  <2>3. QED
    BY <1>9, <2>1, <2>2 DEF ToolFails
<1>10. ASSUME UNCHANGED vars PROVE Goal
  BY <1>10 DEF vars, plan, work, Counted, RunsBounded
<1>11. ASSUME NEW s \in Step, CallRejects(s) PROVE Goal
  BY <1>11 DEF CallRejects, plan, Counted, RunsBounded
<1>12. QED
  BY <1>1, <1>2, <1>4, <1>5, <1>6, <1>7, <1>8, <1>9, <1>10, <1>11 DEF Next, Execute

LEMMA InitCounts == Init => Counted /\ RunsBounded
  BY PlanAssumption DEF Init, Counted, RunsBounded

LEMMA CountInvariant == Spec => [](CheckInv /\ Working /\ Counted /\ RunsBounded)
<1>1. CheckInv => TypeOK
  BY DEF CheckInv
<1>2. QED
  BY <1>1, ExecutionInvariant, InitCounts, NextCounts, PTL DEF Spec

\* The tool of a step runs once, or with an assistant once more for each retry its
\* budget allows (src/src/core/assistant/index.ts:116-123).
THEOREM ToolsRunBounded == Spec => []RunsBounded
  BY CountInvariant, PTL

-----------------------------------------------------------------------------
(* What an execution reports. *)

LEMMA NextReports ==
  CheckInv /\ Working /\ Counted /\ ReportIsTrue /\ [Next]_vars => ReportIsTrue'
<1> SUFFICES ASSUME CheckInv, Working, Counted, ReportIsTrue, [Next]_vars, pc' = "ended"
             PROVE  ReportIsTrue'
  BY DEF ReportIsTrue
<1> DEFINE Untold == \A s \in Step : state'[s] \in {"PENDING", "SKIPPED"} => ran'[s] = 0
<1>t. TypeOK
  BY DEF CheckInv
<1>1. ASSUME Validate PROVE ReportIsTrue'
  <2>1. result' = "INVALID" /\ UNCHANGED <<state, ran, kind>>
    BY <1>1 DEF Validate, RejectMalformed, BeginCheck, Leave, Accept, VisitRoot, VisitDependency,
           Visit, PassDone, FindCycle, Reject, plan, CheckInv, AcceptsExactlyDags
  <2>2. QED
    BY <2>1 DEF ReportIsTrue, Counted, Refusals
<1>2. ASSUME Finish PROVE ReportIsTrue'
  <2>1. In("PENDING") = {}
    BY <1>2, <1>t, StuckIsCyclic DEF Finish, CheckInv, AcceptsExactlyDags
  <2>2. \A s \in Step : state[s] = "SUCCEEDED"
    BY <1>2, <2>1 DEF Finish, In, Working, OneRunning
  <2>3. /\ result' \in {"COMPLETED", "VERIFICATION_FAILED"}
        /\ \A s \in Step : state'[s] = "SUCCEEDED"
    BY <1>2, <2>1, <2>2 DEF Finish, LeftOut
  <2>4. In("SUCCEEDED")' = Step /\ In("PENDING")' = {} /\ In("RUNNING")' = {}
    BY <2>3 DEF In
  <2>5. QED
    BY <2>3, <2>4 DEF ReportIsTrue, Refusals
<1>3. ASSUME NEW s \in Step, NEW st \in Refusals, state[s] = "RUNNING",
             pc \in {"step", "tool"}, Stop(s, st)
      PROVE  ReportIsTrue'
  <2>1. /\ result' = Overall(st) /\ state'[s] = st /\ kind' = kind
        /\ \A t \in Step \ {s} : /\ state[t] \in {"PENDING", "SUCCEEDED"}
                                 /\ state'[t] = IF state[t] = "PENDING" /\ kind = "plan"
                                                 THEN "SKIPPED" ELSE state[t]
    BY <1>3, <1>t, StopFacts DEF Working, OneRunning
  <2>2. \A t \in Step \ {s} : state'[t] \notin Refusals
    BY <2>1 DEF Refusals
  <2>3. Untold
    BY <1>3, <1>t, <2>1, StopFacts DEF Counted, Refusals
  <2>4. In("SUCCEEDED")' = In("SUCCEEDED") /\ In("SUCCEEDED")' # Step
    BY <1>3, <2>1 DEF In, Refusals
  <2>5. kind = "plan" => In("PENDING")' = {} /\ In("RUNNING")' = {}
    BY <2>1 DEF In, Refusals
  <2>6. result' \in Refusals => s \in In(result)'
    <3>1. result' \in Refusals => result' = st
      BY <2>1 DEF Overall, Refusals
    <3>2. QED
      BY <2>1, <3>1 DEF In
  <2>7. kind = "plan" => (result' = "PARTIAL" <=> In("SUCCEEDED")' \notin {{}, Step})
    BY <1>3, <2>1, <2>4 DEF Overall, Refusals
  <2>8. result' # "COMPLETED"
    BY <2>1 DEF Overall, Refusals
  <2>9. QED
    BY <2>1, <2>2, <2>3, <2>5, <2>6, <2>7, <2>8 DEF ReportIsTrue
<1>4. ASSUME NEW s \in Step, StepRefused(s) PROVE ReportIsTrue'
  BY <1>3, <1>4 DEF StepRefused
<1>5. ASSUME NEW s \in Step, ToolFails(s) PROVE ReportIsTrue'
  <2>1. Stop(s, "FAILED")
    BY <1>5 DEF ToolFails
  <2>2. QED
    BY <1>3, <1>5, <2>1 DEF ToolFails, Refusals
<1>6. ASSUME NEW s \in Step, StepConverses(s) PROVE ReportIsTrue'
  <2>1. /\ result' = "COMPLETED" /\ kind' = "task" /\ ran' = ran
        /\ \A t \in Step : state'[t] = IF t = s THEN "CONVERSED" ELSE state[t]
    BY <1>6, <1>t DEF StepConverses, plan, TypeOK
  <2>2. In("CONVERSED")' # {}
    BY <2>1 DEF In
  <2>3. Untold
    BY <2>1 DEF Counted
  <2>4. QED
    BY <2>1, <2>2, <2>3 DEF ReportIsTrue, Refusals
<1>7. ASSUME UNCHANGED vars PROVE ReportIsTrue'
  BY <1>7 DEF vars, plan, work, ReportIsTrue, In
<1>8. ASSUME NEW s \in Step, ToolRuns(s) \/ ToolSucceeds(s) PROVE FALSE
  BY <1>8 DEF ToolRuns, ToolSucceeds
<1>9. ASSUME RunNext PROVE FALSE
  BY <1>9 DEF RunNext
<1>10. ASSUME NEW s \in Step, CallRejects(s) PROVE ReportIsTrue'
  <2>1. result' = "THROWN" /\ UNCHANGED <<state, ran>>
    BY <1>10 DEF CallRejects
  <2>2. Untold
    BY <2>1 DEF Counted
  <2>3. QED
    BY <2>1, <2>2 DEF ReportIsTrue, Refusals
<1>11. QED
  BY <1>1, <1>2, <1>4, <1>5, <1>6, <1>7, <1>8, <1>9, <1>10 DEF Next, Execute

\* The report of an execution, whichever executor makes it, says what happened to
\* the steps (src/src/core/orchestrator/index.ts:653-701, task/index.ts:185-262).
THEOREM ReportsTruly == Spec => []ReportIsTrue
<1>1. Init => ReportIsTrue
  BY DEF Init, ReportIsTrue
<1>2. QED
  BY <1>1, CountInvariant, NextReports, PTL DEF Spec
-----------------------------------------------------------------------------
(* Every step brings the execution nearer to its end. *)

White == {s \in Step : color[s] = "white"}

\* What the running step may still do: two awaits for each retry that is left,
\* and those of this attempt.
Left == IF pc = "next" THEN 0
        ELSE 2 * (MaxRetries - tries) + (IF pc = "step" THEN 2 ELSE 1)

\* The search calls a step it has not seen, returns from a call, or looks at one
\* more dependency of the call it is in.
SearchesOn ==
    \/ White' \subseteq White /\ White' # White
    \/ /\ White' = White
       /\ \/ Len(stack') < Len(stack)
          \/ Len(stack') = Len(stack) /\ Top'.rest \subseteq Top.rest /\ Top'.rest # Top.rest

\* The executor takes a step that was waiting, or gets on with the one it has.
ExecutesOn ==
    \/ In("PENDING")' \subseteq In("PENDING") /\ In("PENDING")' # In("PENDING")
    \/ In("PENDING")' = In("PENDING") /\ Left' < Left

Advances ==
    /\ pc # "ended"
    /\ \/ pc' = "ended"
       \/ pc = "new" /\ pc' = "validate"
       \/ pc = "validate" /\ pc' = "next"
       \/ pc = "validate" /\ pc' = "validate" /\ SearchesOn
       \/ pc \in {"next", "step", "tool"} /\ pc' \in {"next", "step", "tool"} /\ ExecutesOn

LEMMA ValidateAdvances == ASSUME TypeOK, FramesGrey, Validate PROVE Advances
<1>1. CASE RejectMalformed
  BY <1>1 DEF RejectMalformed, Reject, Advances
<1>2. CASE BeginCheck
  BY <1>2 DEF BeginCheck, Advances
<1>3. CASE Accept
  BY <1>3 DEF Accept, Advances
<1>4. CASE Leave
  <2>1. Top.node \in Step /\ color[Top.node] = "grey" /\ Len(BelowTop) = Len(stack) - 1
        /\ Len(stack) \in Nat \ {0}
    <3>1. stack \in Seq(Frame) /\ stack # <<>>
      BY <1>4, StackTypes DEF Leave
    <3>2. Top \in Frame /\ Len(BelowTop) = Len(stack) - 1 /\ Len(stack) \in Nat \ {0}
      BY <3>1, BelowFacts
    <3>3. color[Top.node] = "grey"
      BY <3>2 DEF FramesGrey, Top
    <3>4. QED
      BY <3>2, <3>3 DEF Frame
  <2>2. White' = White
    BY <1>4, <2>1 DEF Leave, White, TypeOK
  <2>3. Len(stack') < Len(stack)
    BY <1>4, <2>1 DEF Leave
  <2>4. pc = "validate" /\ pc' = "validate"
    BY <1>4 DEF Leave
  <2>5. QED
    BY <2>2, <2>3, <2>4 DEF Advances, SearchesOn
<1>5. ASSUME NEW s \in Step, VisitRoot(s) \/ VisitDependency(s) PROVE Advances
  <2>1. /\ pc = "validate" /\ pc' = "validate" /\ color[s] = "white"
        /\ color' = [color EXCEPT ![s] = "grey"]
    BY <1>5 DEF VisitRoot, VisitDependency, Visit
  <2>2. White' \subseteq White /\ s \in White /\ s \notin White'
    BY <2>1 DEF White, TypeOK
  <2>3. QED
    BY <2>1, <2>2 DEF Advances, SearchesOn
<1>6. ASSUME NEW d \in Step, PassDone(d) PROVE Advances
  <2>1. /\ pc = "validate" /\ pc' = "validate" /\ White' = White /\ stack' = After(d)
        /\ stack # <<>> /\ d \in Top.rest
    BY <1>6 DEF PassDone, White
  <2>2. /\ Len(After(d)) = Len(stack) /\ Top \in Frame
        /\ After(d)[Len(stack)] = [node |-> Top.node, rest |-> Top.rest \ {d}]
    BY <2>1, StackTypes, AfterFacts
  <2>3. Top' = [node |-> Top.node, rest |-> Top.rest \ {d}] /\ Len(stack') = Len(stack)
    BY <2>1, <2>2 DEF Top
  <2>4. Top'.rest = Top.rest \ {d}
    BY <2>3
  <2>5. QED
    BY <2>1, <2>3, <2>4 DEF Advances, SearchesOn
<1>7. ASSUME NEW d \in Step, FindCycle(d) PROVE Advances
  BY <1>7 DEF FindCycle, Reject, Advances
<1>8. QED
  BY <1>1, <1>2, <1>3, <1>4, <1>5, <1>6, <1>7 DEF Validate

LEMMA ExecuteAdvances == ASSUME TypeOK, Working, Execute PROVE Advances
<1>a. MaxRetries \in Nat /\ tries \in 0..MaxRetries
  BY PlanAssumption DEF TypeOK
<1>1. CASE RunNext
  <2>1. PICK s \in Candidates : state' = [state EXCEPT ![s] = "RUNNING"]
    BY <1>1 DEF RunNext
  <2>2. pc = "next" /\ pc' = "step" /\ s \in Step /\ state[s] = "PENDING"
    BY <1>1, <2>1, CandidatesReady DEF RunNext
  <2>3. In("PENDING")' \subseteq In("PENDING") /\ s \in In("PENDING") /\ s \notin In("PENDING")'
    BY <2>1, <2>2 DEF In, TypeOK
  <2>4. QED
    BY <2>2, <2>3 DEF Advances, ExecutesOn
<1>2. CASE Finish
  BY <1>2 DEF Finish, Advances
<1>3. ASSUME NEW s \in Step, StepRefused(s) PROVE Advances
  BY <1>3 DEF StepRefused, Stop, Advances
<1>4. ASSUME NEW s \in Step, StepConverses(s) PROVE Advances
  BY <1>4 DEF StepConverses, Advances
<1>5. ASSUME NEW s \in Step, ToolRuns(s) PROVE Advances
  <2>1. pc = "step" /\ pc' = "tool" /\ tries' = tries /\ state' = state
    BY <1>5 DEF ToolRuns
  <2>2. In("PENDING")' = In("PENDING") /\ Left' < Left
    BY <1>a, <2>1 DEF In, Left
  <2>3. QED
    BY <2>1, <2>2 DEF Advances, ExecutesOn
<1>6. ASSUME NEW s \in Step, ToolSucceeds(s) PROVE Advances
  <2>1. pc = "tool" /\ pc' = "next" /\ tries' = tries
        /\ state[s] = "RUNNING" /\ state' = [state EXCEPT ![s] = "SUCCEEDED"]
    BY <1>6 DEF ToolSucceeds
  <2>2. In("PENDING")' = In("PENDING")
    BY <2>1 DEF In, TypeOK
  <2>3. Left' < Left
    BY <1>a, <2>1 DEF Left
  <2>4. QED
    BY <2>1, <2>2, <2>3 DEF Advances, ExecutesOn
<1>7. ASSUME NEW s \in Step, ToolFails(s) PROVE Advances
  <2>1. CASE Stop(s, "FAILED")
    BY <1>7, <2>1 DEF ToolFails, Stop, Advances
  <2>2. CASE tries < MaxRetries /\ tries' = tries + 1 /\ pc' = "step" /\ UNCHANGED state
    <3>1. pc = "tool" /\ In("PENDING")' = In("PENDING")
      BY <1>7, <2>2 DEF ToolFails, In
    <3>2. Left' < Left
      BY <1>a, <2>2, <3>1 DEF Left
    <3>3. QED
      BY <2>2, <3>1, <3>2 DEF Advances, ExecutesOn
  <2>3. QED
    BY <1>7, <2>1, <2>2 DEF ToolFails
<1>8. ASSUME NEW s \in Step, CallRejects(s) PROVE Advances
  BY <1>8 DEF CallRejects, Advances
<1>9. QED
  BY <1>1, <1>2, <1>3, <1>4, <1>5, <1>6, <1>7, <1>8 DEF Execute

\* However the plan is shaped and whatever its tools, gates and retries answer,
\* a finite plan comes to its end in a bounded number of steps: the search calls
\* every step once and looks at every dependency once, the executor takes every
\* step once and tries it again at most MaxRetries times, and an execution that
\* has ended does nothing more.
THEOREM PlansAdvance == Spec => [][Advances]_vars
<1>1. TypeOK /\ CheckInv /\ Working /\ [Next]_vars => [Advances]_vars
  BY ValidateAdvances, ExecuteAdvances DEF Next, CheckInv, Search
<1>2. QED
  BY <1>1, TypeCorrect, ExecutionInvariant, PTL DEF Spec
=============================================================================
