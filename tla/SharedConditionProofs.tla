------------------------ MODULE SharedConditionProofs ------------------------
(***************************************************************************)
(* What holds of conditions shared between threads, for any number of      *)
(* threads and conditions, any dependencies and any inputs.                *)
(***************************************************************************)
EXTENDS SharedCondition, TLAPS

(***************************************************************************)
(* The part of the types the proofs need.                                  *)
(***************************************************************************)
Typed ==
    /\ components \in [Conditions -> Inputs \cup {<<>>}]
    /\ edges \in [Conditions -> SUBSET (Nat \X Nat)]
    /\ pc \in [Threads -> {"idle", "init", "check"}]
    /\ using \in [Threads -> Conditions \cup {NoCondition}]
    /\ \A t \in Threads : pc[t] = "idle" <=> using[t] = NoCondition
    /\ objects \in [Threads -> Inputs \cup {<<>>}]
    /\ verdict \in [Threads -> {"none", "passed", "violated", "panicked"}]

(***************************************************************************)
(* Positions of a sequence are natural numbers.                            *)
(***************************************************************************)
LEMMA EdgesAreNumbers ==
    ASSUME Typed, NEW c \in Conditions, NEW object
    PROVE  EdgesFrom(c, object) \subseteq Nat \X Nat
<1>1. components[c] \in Seq(Components)
  <2>1. components[c] \in Inputs \/ components[c] = <<>>
    BY DEF Typed
  <2>2. Inputs \subseteq Seq(Components)
    BY ConditionAssumption
  <2>3. <<>> \in Seq(Components)
    OBVIOUS
  <2> QED
    BY <2>1, <2>2, <2>3
<1>2. DOMAIN components[c] \subseteq Nat
  BY <1>1
<1> QED
  BY <1>2 DEF EdgesFrom, Edges

(***************************************************************************)
(* Types hold initially.                                                   *)
(***************************************************************************)
LEMMA InitTyped == Init => Typed
  BY ConditionAssumption DEF Init, Typed

(***************************************************************************)
(* Every step keeps the types.                                             *)
(***************************************************************************)
LEMMA NextTyped == Typed /\ [Next]_vars => Typed'
<1> SUFFICES ASSUME Typed, [Next]_vars PROVE Typed'
  OBVIOUS
<1>1. CASE UNCHANGED vars
  BY <1>1 DEF vars, Typed
<1>2. ASSUME NEW t \in Threads, NEW c \in Conditions, NEW input \in Inputs, Begin(t, c, input)
      PROVE  Typed'
  BY <1>2, ConditionAssumption DEF Begin, Typed, shared
<1>3. ASSUME NEW t \in Threads, BeginEmpty(t) PROVE Typed'
  BY <1>3 DEF BeginEmpty, Typed, shared
<1>4. ASSUME NEW t \in Threads, CallPoisoned(t) PROVE Typed'
  BY <1>4, ConditionAssumption DEF CallPoisoned, End, Typed, shared
<1>5. ASSUME NEW t \in Threads, CallInit(t) PROVE Typed'
  <2>1. using[t] \in Conditions
    BY <1>5 DEF CallInit, Typed
  <2> QED
    BY <1>5, <2>1 DEF CallInit, Typed
<1>6. ASSUME NEW t \in Threads, CallCheck(t) PROVE Typed'
  <2>1. using[t] \in Conditions
    BY <1>6 DEF CallCheck, Typed
  <2>2. EdgesFrom(using[t], Head(left[t])) \subseteq Nat \X Nat
    BY <2>1, EdgesAreNumbers
  <2>3. edges' \in [Conditions -> SUBSET (Nat \X Nat)]
    BY <1>6, <2>1, <2>2 DEF CallCheck, Typed
  <2> QED
    BY <1>6, <2>3 DEF CallCheck, Typed
<1>7. ASSUME NEW t \in Threads, CheckPanics(t) PROVE Typed'
  BY <1>7, ConditionAssumption DEF CheckPanics, End, Typed
<1>8. ASSUME NEW t \in Threads, CallFinish(t) PROVE Typed'
  <2>1. using[t] \in Conditions
    BY <1>8 DEF CallFinish, Typed
  <2> QED
    BY <1>8, <2>1, ConditionAssumption DEF CallFinish, End, Typed
<1> QED
  BY <1>1, <1>2, <1>3, <1>4, <1>5, <1>6, <1>7, <1>8 DEF Next

-----------------------------------------------------------------------------
(***************************************************************************)
(* Edges stay real: init sets the components and drops the edges in one    *)
(* call, so an index never outlives the components it points into.         *)
(***************************************************************************)
LEMMA NextEdges == Typed /\ EdgesAreReal /\ [Next]_vars => EdgesAreReal'
<1> SUFFICES ASSUME Typed, EdgesAreReal, [Next]_vars,
                    NEW c \in Conditions
             PROVE  edges'[c] \subseteq Between(components[c])'
  BY DEF EdgesAreReal
<1>0. edges[c] \subseteq Between(components[c])
  BY DEF EdgesAreReal
<1>1. CASE UNCHANGED <<dependsOn, components, edges>>
  BY <1>0, <1>1 DEF Between
<1>2. ASSUME NEW t \in Threads, CallInit(t) \/ CallFinish(t)
      PROVE  edges'[c] \subseteq Between(components[c])'
  <2>1. edges'[c] = {} \/ (edges'[c] = edges[c] /\ components'[c] = components[c])
    BY <1>2 DEF CallInit, CallFinish, Typed
  <2>2. dependsOn' = dependsOn
    BY <1>2 DEF CallInit, CallFinish
  <2> QED
    BY <1>0, <2>1, <2>2 DEF Between
<1>3. ASSUME NEW t \in Threads, CallCheck(t)
      PROVE  edges'[c] \subseteq Between(components[c])'
  <2>1. edges'[c] \subseteq edges[c] \cup EdgesFrom(c, Head(left[t]))
    BY <1>3 DEF CallCheck, Typed
  <2>2. EdgesFrom(c, Head(left[t])) \subseteq Between(components[c])
    BY DEF EdgesFrom, Between
  <2>3. UNCHANGED <<dependsOn, components>>
    BY <1>3 DEF CallCheck
  <2> QED
    BY <1>0, <2>1, <2>2, <2>3 DEF Between
<1> QED
  BY <1>1, <1>2, <1>3
  DEF Next, vars, shared, Begin, BeginEmpty, CallPoisoned, CheckPanics, End

(***************************************************************************)
(* However evaluations interleave on shared conditions, every edge a       *)
(* condition holds is a dependency between the components it points to.    *)
(***************************************************************************)
THEOREM SharedEdgesAreReal == Spec => []EdgesAreReal
<1>1. Init => EdgesAreReal
  BY DEF Init, EdgesAreReal
<1> QED
  BY <1>1, InitTyped, NextTyped, NextEdges, PTL DEF Spec

-----------------------------------------------------------------------------
(***************************************************************************)
(* A cycle among some of the edges of an input is a cycle of the input.    *)
(***************************************************************************)
LEMMA CycleIsInherited ==
    ASSUME NEW nodes, NEW all, NEW some \in SUBSET all, HasCycle(some, nodes)
    PROVE  HasCycle(all, nodes)
  BY DEF HasCycle

(***************************************************************************)
(* Nothing has no cycle.                                                   *)
(***************************************************************************)
LEMMA EmptyHasNoCycle == \A relation : ~HasCycle(relation, <<>>)
  BY DEF HasCycle

(***************************************************************************)
(* A verdict "violated" comes from edges that finish found in the logic,   *)
(* all of them dependencies between objects of one evaluation.             *)
(***************************************************************************)
LEMMA NextNoFalseAlarm ==
    Typed /\ EdgesAreReal /\ NoFalseAlarm /\ [Next]_vars => NoFalseAlarm'
<1> SUFFICES ASSUME Typed, EdgesAreReal, NoFalseAlarm, [Next]_vars,
                    NEW u \in Threads, verdict'[u] = "violated"
             PROVE  \E input \in Inputs : HasCycle(Between(input)', input)
  BY DEF NoFalseAlarm
<1>0. dependsOn' = dependsOn
  BY DEF Next, vars, shared, Begin, BeginEmpty, CallPoisoned, CallInit, CallCheck,
         CheckPanics, CallFinish
<1>1. CASE verdict[u] = "violated"
  BY <1>0, <1>1 DEF NoFalseAlarm, Between
<1>2. CASE verdict[u] # "violated"
  <2>1. PICK t \in Threads : CallFinish(t) /\ t = u /\ HasCycle(edges[using[t]], components[using[t]])
    BY <1>2 DEF Next, vars, Begin, BeginEmpty, CallPoisoned, CallInit, CallCheck,
                CheckPanics, CallFinish, End, Typed
  <2>2. using[t] \in Conditions
    BY <2>1 DEF CallFinish, Typed
  <2>3. HasCycle(Between(components[using[t]]), components[using[t]])
    BY <2>1, <2>2, CycleIsInherited DEF EdgesAreReal
  <2>4. components[using[t]] \in Inputs
    BY <2>2, <2>3, EmptyHasNoCycle DEF Typed
  <2> QED
    BY <1>0, <2>3, <2>4 DEF Between
<1> QED
  BY <1>1, <1>2

(***************************************************************************)
(* However evaluations interleave on shared conditions, a rule is violated *)
(* only when the objects some evaluation was given have a cycle.           *)
(***************************************************************************)
THEOREM SharingInventsNoCycle == Spec => []NoFalseAlarm
<1>1. Init => NoFalseAlarm /\ EdgesAreReal
  BY DEF Init, NoFalseAlarm, EdgesAreReal
<1> QED
  BY <1>1, InitTyped, NextTyped, NextEdges, NextNoFalseAlarm, PTL DEF Spec

-----------------------------------------------------------------------------
(***************************************************************************)
(* What a condition holds, some evaluation is about to clear.              *)
(***************************************************************************)
Held ==
    \A c \in Conditions \ poisoned :
        components[c] # <<>> \/ edges[c] # {} =>
            \E t \in Threads : using[t] = c /\ pc[t] = "check"

(***************************************************************************)
(* Whoever fills a condition clears it: init leaves its thread in check,   *)
(* and only finish (which clears) or a panic (which poisons) takes it out. *)
(***************************************************************************)
LEMMA NextHeld == Typed /\ Held /\ [Next]_vars => Held'
<1> SUFFICES ASSUME Typed, Held, [Next]_vars,
                    NEW c \in Conditions, c \notin poisoned',
                    components'[c] # <<>> \/ edges'[c] # {}
             PROVE  \E t \in Threads : using'[t] = c /\ pc'[t] = "check"
  BY DEF Held
<1>1. CASE UNCHANGED vars
  BY <1>1 DEF vars, Held
<1>2. ASSUME NEW t \in Threads, NEW d \in Conditions, NEW input \in Inputs, Begin(t, d, input)
      PROVE  \E s \in Threads : using'[s] = c /\ pc'[s] = "check"
  BY <1>2 DEF Begin, shared, Typed, Held
<1>3. ASSUME NEW t \in Threads, BeginEmpty(t)
      PROVE  \E s \in Threads : using'[s] = c /\ pc'[s] = "check"
  BY <1>3 DEF BeginEmpty, shared, Held
<1>4. ASSUME NEW t \in Threads, CallPoisoned(t)
      PROVE  \E s \in Threads : using'[s] = c /\ pc'[s] = "check"
  <2>1. PICK s \in Threads : using[s] = c /\ pc[s] = "check"
    BY <1>4 DEF CallPoisoned, shared, Held
  <2>2. s # t
    BY <1>4, <2>1 DEF CallPoisoned, shared
  <2> QED
    BY <1>4, <2>1, <2>2 DEF CallPoisoned, End, Typed
<1>5. ASSUME NEW t \in Threads, CallInit(t)
      PROVE  \E s \in Threads : using'[s] = c /\ pc'[s] = "check"
  <2>1. CASE using[t] = c
    BY <1>5, <2>1 DEF CallInit, Typed
  <2>2. CASE using[t] # c
    <3>1. PICK s \in Threads : using[s] = c /\ pc[s] = "check"
      BY <1>5, <2>2 DEF CallInit, Typed, Held
    <3> QED
      BY <1>5, <3>1 DEF CallInit, Typed
  <2> QED
    BY <2>1, <2>2
<1>6. ASSUME NEW t \in Threads, CallCheck(t)
      PROVE  \E s \in Threads : using'[s] = c /\ pc'[s] = "check"
  <2>1. CASE using[t] = c
    BY <1>6, <2>1 DEF CallCheck, Typed
  <2>2. CASE using[t] # c
    BY <1>6, <2>2 DEF CallCheck, Typed, Held
  <2> QED
    BY <2>1, <2>2
<1>7. ASSUME NEW t \in Threads, CheckPanics(t)
      PROVE  \E s \in Threads : using'[s] = c /\ pc'[s] = "check"
  <2>1. PICK s \in Threads : using[s] = c /\ pc[s] = "check"
    BY <1>7 DEF CheckPanics, Held
  <2>2. s # t
    BY <1>7, <2>1 DEF CheckPanics
  <2> QED
    BY <1>7, <2>1, <2>2 DEF CheckPanics, End, Typed
<1>8. ASSUME NEW t \in Threads, CallFinish(t)
      PROVE  \E s \in Threads : using'[s] = c /\ pc'[s] = "check"
  <2>1. using[t] # c
    BY <1>8 DEF CallFinish, Typed
  <2>2. PICK s \in Threads : using[s] = c /\ pc[s] = "check"
    BY <1>8, <2>1 DEF CallFinish, Typed, Held
  <2> QED
    BY <1>8, <2>1, <2>2 DEF CallFinish, End, Typed
<1> QED
  BY <1>1, <1>2, <1>3, <1>4, <1>5, <1>6, <1>7, <1>8 DEF Next

(***************************************************************************)
(* A condition without users holds nothing of past evaluations, however    *)
(* its users interleaved.                                                  *)
(***************************************************************************)
THEOREM QuietConditionIsEmpty == Spec => []QuietIsEmpty
<1>1. Init => Held
  BY DEF Init, Held
<1>2. Held => QuietIsEmpty
  BY DEF Held, QuietIsEmpty
<1> QED
  BY <1>1, <1>2, InitTyped, NextTyped, NextHeld, PTL DEF Spec

-----------------------------------------------------------------------------
(***************************************************************************)
(* How many of its objects an evaluation has checked.                      *)
(***************************************************************************)
Done(t) == Len(objects[t]) - Len(left[t])

(***************************************************************************)
(* What is left is the end of the objects.                                 *)
(***************************************************************************)
LeftIsEnd(t) ==
    /\ left[t] \in Seq(Components)
    /\ objects[t] \in Seq(Components)
    /\ IsInjective(objects[t])
    /\ Len(left[t]) <= Len(objects[t])
    /\ \A i \in 1 .. Len(left[t]) : left[t][i] = objects[t][Done(t) + i]
    /\ pc[t] = "init" => left[t] = objects[t]

LeftOK ==
    /\ left \in [Threads -> Seq(Components)]
    /\ \A t \in Threads : LeftIsEnd(t)

(***************************************************************************)
(* The lengths are numbers.                                                *)
(***************************************************************************)
LEMMA Lengths ==
    ASSUME NEW t, LeftIsEnd(t)
    PROVE  /\ Len(left[t]) \in Nat /\ Len(objects[t]) \in Nat /\ Len(left[t]) <= Len(objects[t])
           /\ Done(t) \in Nat /\ Done(t) = Len(objects[t]) - Len(left[t])
<1>1. left[t] \in Seq(Components) /\ objects[t] \in Seq(Components) /\ Len(left[t]) <= Len(objects[t])
  BY DEF LeftIsEnd
<1>2. Len(left[t]) \in Nat /\ Len(objects[t]) \in Nat
  BY <1>1
<1>3. \A m \in Nat, n \in Nat : m <= n => n - m \in Nat
  OBVIOUS
<1> QED
  BY <1>1, <1>2, <1>3 DEF Done

(***************************************************************************)
(* An evaluation that is alone with its condition finds there what its own *)
(* calls have put: its objects, and the edges of those it has checked.     *)
(***************************************************************************)
OwnEdges(t) == {e \in Between(objects[t]) : e[1] <= Done(t)}

AloneAt(t) ==
    /\ \A u \in Threads \ {t} : using[u] # using[t]
    /\ pc[t] = "check" /\ using[t] \notin poisoned =>
           components[using[t]] = objects[t] /\ edges[using[t]] = OwnEdges(t)

AloneOK == \A t \in Threads : alone[t] /\ pc[t] # "idle" => AloneAt(t)

(***************************************************************************)
(* Each check takes the first object that is left.                         *)
(***************************************************************************)
LEMMA NextLeft == Typed /\ LeftOK /\ [Next]_vars => LeftOK'
<1> SUFFICES ASSUME Typed, LeftOK, [Next]_vars PROVE LeftOK'
  OBVIOUS
<1>1. CASE UNCHANGED <<objects, left, pc>>
  BY <1>1 DEF LeftOK, LeftIsEnd, Done
<1>2. ASSUME UNCHANGED <<objects, left>>,
             \A u \in Threads : pc'[u] = "init" => pc[u] = "init"
      PROVE  LeftOK'
  BY <1>2 DEF LeftOK, LeftIsEnd, Done
<1>3. ASSUME NEW t \in Threads, NEW c \in Conditions, NEW input \in Inputs, Begin(t, c, input)
      PROVE  LeftOK'
  <2>1. input \in Seq(Components) /\ IsInjective(input)
    BY ConditionAssumption
  <2>2. left' = [left EXCEPT ![t] = input] /\ objects' = [objects EXCEPT ![t] = input]
    BY <1>3 DEF Begin
  <2>3. left' \in [Threads -> Seq(Components)]
    BY <2>1, <2>2 DEF LeftOK
  <2>4. ASSUME NEW u \in Threads PROVE LeftIsEnd(u)'
    <3>1. CASE u = t
      <4>1. left'[u] = input /\ objects'[u] = input
        BY <2>2, <3>1 DEF Typed, LeftOK
      <4>2. Done(u)' = 0
        BY <2>1, <4>1 DEF Done
      <4> QED
        BY <2>1, <4>1, <4>2 DEF LeftIsEnd
    <3>2. CASE u # t
      <4>1. left'[u] = left[u] /\ objects'[u] = objects[u]
        BY <2>2, <3>2 DEF Typed
      <4>2. pc'[u] = pc[u]
        BY <1>3, <3>2 DEF Begin, Typed
      <4>3. Done(u)' = Done(u)
        BY <4>1 DEF Done
      <4>4. LeftIsEnd(u)
        BY DEF LeftOK
      <4> QED
        BY <4>1, <4>2, <4>3, <4>4 DEF LeftIsEnd
    <3> QED
      BY <3>1, <3>2
  <2> QED
    BY <2>3, <2>4 DEF LeftOK
<1>4. ASSUME NEW t \in Threads, CallCheck(t)
      PROVE  LeftOK'
  <2>1. /\ left' = [left EXCEPT ![t] = Tail(left[t])]
        /\ objects' = objects
        /\ pc' = pc
        /\ pc[t] = "check"
        /\ left[t] # <<>>
    BY <1>4 DEF CallCheck
  <2>2. /\ Tail(left[t]) \in Seq(Components)
        /\ Len(Tail(left[t])) = Len(left[t]) - 1
        /\ \A i \in 1 .. Len(left[t]) - 1 : Tail(left[t])[i] = left[t][i + 1]
    BY <2>1 DEF LeftOK, LeftIsEnd
  <2>3. left' \in [Threads -> Seq(Components)]
    BY <2>1, <2>2 DEF LeftOK
  <2>4. ASSUME NEW u \in Threads PROVE LeftIsEnd(u)'
    <3>0. LeftIsEnd(u)
      BY DEF LeftOK
    <3>1. CASE u = t
      <4>1. left'[u] = Tail(left[t]) /\ objects'[u] = objects[u] /\ pc'[u] = "check"
        BY <2>1, <3>1 DEF LeftOK
      <4>2. Len(left'[u]) = Len(left[u]) - 1
        BY <2>2, <3>1, <4>1
      <4>0. /\ Len(left[u]) \in Nat /\ Len(objects[u]) \in Nat /\ Len(left[u]) <= Len(objects[u])
            /\ Done(u) \in Nat /\ Done(u) = Len(objects[u]) - Len(left[u])
        BY <3>0, Lengths
      <4>3. Done(u)' = Done(u) + 1
        <5>1. Done(u)' = Len(objects[u]) - (Len(left[u]) - 1)
          BY <4>1, <4>2 DEF Done
        <5> QED
          BY <4>0, <5>1
      <4>4. ASSUME NEW i \in 1 .. Len(left[u]) - 1 PROVE left'[u][i] = objects[u][Done(u)' + i]
        <5>1. i + 1 \in 1 .. Len(left[u]) /\ Done(u)' + i = Done(u) + (i + 1)
          <6>1. \A m \in Nat, d \in Nat : \A k \in 1 .. m - 1 :
                    k + 1 \in 1 .. m /\ (d + 1) + k = d + (k + 1)
            OBVIOUS
          <6> QED
            BY <4>0, <4>3, <6>1
        <5>2. left[u][i + 1] = objects[u][Done(u) + (i + 1)]
          BY <3>0, <5>1 DEF LeftIsEnd
        <5>3. left'[u][i] = left[u][i + 1]
          BY <2>2, <3>1, <4>1
        <5> QED
          BY <5>1, <5>2, <5>3
      <4> QED
        BY <2>2, <3>0, <3>1, <4>1, <4>2, <4>4, Lengths DEF LeftIsEnd
    <3>2. CASE u # t
      <4>1. left'[u] = left[u] /\ objects'[u] = objects[u] /\ pc'[u] = pc[u]
        BY <2>1, <3>2
      <4>2. Done(u)' = Done(u)
        BY <4>1 DEF Done
      <4> QED
        BY <3>0, <4>1, <4>2 DEF LeftIsEnd
    <3> QED
      BY <3>1, <3>2
  <2> QED
    BY <2>3, <2>4 DEF LeftOK
<1>5. ASSUME NEW t \in Threads, CallPoisoned(t) \/ CheckPanics(t) \/ CallFinish(t) \/ CallInit(t)
      PROVE  LeftOK'
  <2>1. UNCHANGED <<objects, left>>
    BY <1>5 DEF CallPoisoned, CheckPanics, CallFinish, CallInit, End
  <2>2. \A u \in Threads : pc'[u] = "init" => pc[u] = "init"
    BY <1>5 DEF CallPoisoned, CheckPanics, CallFinish, CallInit, End, Typed
  <2> QED
    BY <1>2, <2>1, <2>2
<1>6. ASSUME NEW t \in Threads, BeginEmpty(t) PROVE UNCHANGED <<objects, left, pc>>
  BY <1>6 DEF BeginEmpty
<1> QED
  BY <1>1, <1>3, <1>4, <1>5, <1>6 DEF Next, vars

-----------------------------------------------------------------------------
(***************************************************************************)
(* The first object that is left is at one position of the objects only,   *)
(* so its check adds the edges that were missing.                          *)
(***************************************************************************)
LEMMA CheckAddsOwnEdges ==
    ASSUME NEW t \in Threads, LeftIsEnd(t), pc[t] = "check", left[t] # <<>>,
           using[t] \in Conditions,
           components[using[t]] = objects[t], edges[using[t]] = OwnEdges(t)
    PROVE  edges[using[t]] \cup EdgesFrom(using[t], Head(left[t]))
               = {e \in Between(objects[t]) : e[1] <= Done(t) + 1}
<1> DEFINE next == Done(t) + 1
<1>0. objects[t] \in Seq(Components) /\ Len(left[t]) # 0 /\ Head(left[t]) = left[t][1]
  BY DEF LeftIsEnd
<1>1. next \in DOMAIN objects[t] /\ objects[t][next] = Head(left[t]) /\ Done(t) \in Nat
  <2>1. Done(t) \in Nat /\ next \in 1 .. Len(objects[t])
    <3>1. /\ Len(left[t]) \in Nat /\ Len(objects[t]) \in Nat /\ Len(left[t]) <= Len(objects[t])
          /\ Done(t) \in Nat /\ Done(t) = Len(objects[t]) - Len(left[t])
      BY Lengths
    <3>2. \A m \in Nat, n \in Nat : m # 0 /\ m <= n => (n - m) + 1 \in 1 .. n
      OBVIOUS
    <3>3. (Len(objects[t]) - Len(left[t])) + 1 \in 1 .. Len(objects[t])
      BY <1>0, <3>1, <3>2
    <3> QED
      BY <3>1, <3>3
  <2>2. left[t][1] = objects[t][Done(t) + 1]
    <3>1. 1 \in 1 .. Len(left[t])
      BY <1>0, Lengths
    <3> QED
      BY <3>1 DEF LeftIsEnd
  <2> QED
    BY <1>0, <2>1, <2>2
<1>2. \A i \in DOMAIN objects[t] : objects[t][i] = Head(left[t]) <=> i = next
  BY <1>1 DEF LeftIsEnd, IsInjective
<1>3. EdgesFrom(using[t], Head(left[t])) = {e \in Between(objects[t]) : e[1] = next}
  BY <1>1, <1>2 DEF EdgesFrom, Between, Edges
<1>4. \A e \in Between(objects[t]) : e[1] \in Nat
  BY DEF Between, Edges, LeftIsEnd
<1>5. \A e \in Between(objects[t]) : e[1] <= Done(t) + 1 <=> e[1] <= Done(t) \/ e[1] = next
  BY <1>1, <1>4
<1> QED
  BY <1>3, <1>5 DEF OwnEdges

(***************************************************************************)
(* When nothing is left, they are all the edges of the objects.            *)
(***************************************************************************)
LEMMA OwnEdgesAreAll ==
    ASSUME NEW t \in Threads, LeftIsEnd(t), left[t] = <<>>
    PROVE  OwnEdges(t) = Between(objects[t])
<1>1. Done(t) = Len(objects[t])
  BY DEF LeftIsEnd, Done
<1>2. \A e \in Between(objects[t]) : e[1] \in 1 .. Len(objects[t])
  BY DEF Between, Edges, LeftIsEnd
<1> QED
  BY <1>1, <1>2 DEF OwnEdges, LeftIsEnd

(***************************************************************************)
(* Others touch only the conditions they use, and an evaluation that       *)
(* shares its condition is not alone.                                      *)
(***************************************************************************)
LEMMA NextAlone ==
    Typed /\ LeftOK /\ alone \in [Threads -> BOOLEAN] /\ AloneOK /\ [Next]_vars
        => alone' \in [Threads -> BOOLEAN] /\ AloneOK'
<1> SUFFICES ASSUME Typed, LeftOK, alone \in [Threads -> BOOLEAN], AloneOK, [Next]_vars
             PROVE  alone' \in [Threads -> BOOLEAN] /\ AloneOK'
  OBVIOUS
<1> DEFINE Goal == alone' \in [Threads -> BOOLEAN] /\ AloneOK'
<1>1. CASE UNCHANGED vars
  BY <1>1 DEF vars, AloneOK, AloneAt, OwnEdges, Between, Done
<1>2. ASSUME NEW t \in Threads, NEW c \in Conditions, NEW input \in Inputs, Begin(t, c, input)
      PROVE  Goal
  <2>1. alone' \in [Threads -> BOOLEAN]
    BY <1>2 DEF Begin
  <2>2. ASSUME NEW u \in Threads, alone'[u], pc'[u] # "idle" PROVE AloneAt(u)'
    <3>1. CASE u = t
      <4>1. \A s \in Threads : using[s] # c
        BY <1>2, <2>2, <3>1 DEF Begin
      <4>2. using'[u] = c /\ pc'[u] = "init"
        BY <1>2, <3>1 DEF Begin, Typed
      <4>3. \A s \in Threads \ {u} : using'[s] # using'[u]
        BY <1>2, <3>1, <4>1, <4>2 DEF Begin, Typed
      <4> QED
        BY <4>2, <4>3 DEF AloneAt
    <3>2. CASE u # t
      <4>1. alone[u] /\ using[u] # c
        BY <1>2, <2>2, <3>2 DEF Begin
      <4>2. using'[u] = using[u] /\ pc'[u] = pc[u] /\ objects'[u] = objects[u] /\ left'[u] = left[u]
        BY <1>2, <3>2 DEF Begin, Typed, LeftOK
      <4>3. AloneAt(u)
        BY <2>2, <4>1, <4>2 DEF AloneOK
      <4>4. \A s \in Threads \ {u} : using'[s] # using'[u]
        BY <1>2, <4>1, <4>2, <4>3 DEF Begin, Typed, AloneAt
      <4>5. OwnEdges(u)' = OwnEdges(u)
        <5>1. Done(u)' = Done(u)
          BY <4>2 DEF Done
        <5>2. Between(objects[u])' = Between(objects[u])
          BY <1>2, <4>2 DEF Begin, shared, Between
        <5> QED
          BY <5>1, <5>2 DEF OwnEdges
      <4> QED
        BY <1>2, <4>2, <4>3, <4>4, <4>5 DEF Begin, shared, AloneAt
    <3> QED
      BY <3>1, <3>2
  <2> QED
    BY <2>1, <2>2 DEF AloneOK
<1>3. ASSUME NEW t \in Threads, BeginEmpty(t) PROVE Goal
  BY <1>3 DEF BeginEmpty, shared, AloneOK, AloneAt, OwnEdges, Between, Done
<1>4. ASSUME NEW t \in Threads, CallPoisoned(t) \/ CheckPanics(t) \/ CallFinish(t) PROVE Goal
  <2>0. /\ UNCHANGED <<objects, left, alone, dependsOn>>
        /\ pc' = [pc EXCEPT ![t] = "idle"]
        /\ using' = [using EXCEPT ![t] = NoCondition]
        /\ poisoned \subseteq poisoned'
        /\ \A c \in Conditions \ {using[t]} : components'[c] = components[c] /\ edges'[c] = edges[c]
    BY <1>4 DEF CallPoisoned, CheckPanics, CallFinish, End, shared, Typed
  <2>1. alone' \in [Threads -> BOOLEAN]
    BY <2>0
  <2>2. ASSUME NEW u \in Threads, alone'[u], pc'[u] # "idle" PROVE AloneAt(u)'
    <3>1. u # t /\ using'[u] = using[u] /\ pc'[u] = pc[u]
      BY <2>0, <2>2 DEF Typed
    <3>2. AloneAt(u)
      BY <2>0, <2>2, <3>1 DEF AloneOK
    <3>3. using[u] \in Conditions /\ using[u] # using[t]
      BY <2>2, <3>1, <3>2 DEF Typed, AloneAt
    <3>4. \A s \in Threads \ {u} : using'[s] # using'[u]
      BY <2>0, <3>1, <3>2, <3>3, ConditionAssumption DEF Typed, AloneAt
    <3>5. OwnEdges(u)' = OwnEdges(u) /\ objects'[u] = objects[u]
      BY <2>0 DEF OwnEdges, Between, Done
    <3> QED
      BY <2>0, <3>1, <3>2, <3>3, <3>4, <3>5 DEF AloneAt
  <2> QED
    BY <2>1, <2>2 DEF AloneOK
<1>5. ASSUME NEW t \in Threads, CallInit(t) PROVE Goal
  <2>0. /\ UNCHANGED <<objects, left, alone, dependsOn, using, poisoned>>
        /\ pc[t] = "init" /\ pc' = [pc EXCEPT ![t] = "check"]
        /\ using[t] \in Conditions
        /\ components' = [components EXCEPT ![using[t]] = objects[t]]
        /\ edges' = [edges EXCEPT ![using[t]] = {}]
    BY <1>5 DEF CallInit, Typed
  <2>1. alone' \in [Threads -> BOOLEAN]
    BY <2>0
  <2>2. ASSUME NEW u \in Threads, alone'[u], pc'[u] # "idle" PROVE AloneAt(u)'
    <3>1. AloneAt(u)
      BY <2>0, <2>2 DEF AloneOK, Typed
    <3>2. OwnEdges(u)' = OwnEdges(u) /\ objects'[u] = objects[u]
      BY <2>0 DEF OwnEdges, Between, Done
    <3>3. CASE u = t
      <4>1. Done(t) = 0 /\ LeftIsEnd(t)
        BY <2>0 DEF LeftOK, LeftIsEnd, Done
      <4>2. \A e \in Between(objects[t]) : e[1] \in 1 .. Len(objects[t])
        BY <4>1 DEF Between, Edges, LeftIsEnd
      <4>3. OwnEdges(t) = {}
        BY <4>1, <4>2 DEF OwnEdges, LeftIsEnd
      <4>4. components'[using[t]] = objects[t] /\ edges'[using[t]] = {}
        BY <2>0 DEF Typed
      <4> QED
        BY <2>0, <3>1, <3>2, <3>3, <4>3, <4>4 DEF AloneAt
    <3>4. CASE u # t
      <4>1. using[u] # using[t] /\ pc'[u] = pc[u] /\ using[u] \in Conditions
        BY <2>0, <2>2, <3>1, <3>4 DEF AloneAt, Typed
      <4>2. components'[using[u]] = components[using[u]] /\ edges'[using[u]] = edges[using[u]]
        BY <2>0, <4>1 DEF Typed
      <4> QED
        BY <2>0, <3>1, <3>2, <4>1, <4>2 DEF AloneAt
    <3> QED
      BY <3>3, <3>4
  <2> QED
    BY <2>1, <2>2 DEF AloneOK
<1>6. ASSUME NEW t \in Threads, CallCheck(t) PROVE Goal
  <2>0. /\ UNCHANGED <<objects, alone, dependsOn, components, using, poisoned, pc>>
        /\ pc[t] = "check" /\ left[t] # <<>>
        /\ using[t] \in Conditions \ poisoned
        /\ left' = [left EXCEPT ![t] = Tail(left[t])]
        /\ edges' = [edges EXCEPT ![using[t]] =
                        edges[using[t]] \cup EdgesFrom(using[t], Head(left[t]))]
    BY <1>6 DEF CallCheck, Typed
  <2>1. alone' \in [Threads -> BOOLEAN]
    BY <2>0
  <2>2. ASSUME NEW u \in Threads, alone'[u], pc'[u] # "idle" PROVE AloneAt(u)'
    <3>1. AloneAt(u)
      BY <2>0, <2>2 DEF AloneOK
    <3>3. CASE u = t
      <4>0. LeftIsEnd(t)
        BY DEF LeftOK
      <4>1. left'[t] = Tail(left[t]) /\ Len(Tail(left[t])) = Len(left[t]) - 1
        BY <2>0, <4>0 DEF LeftOK, LeftIsEnd
      <4>2. Done(t)' = Done(t) + 1
        <5>1. Len(objects[t]) \in Nat /\ Len(left[t]) \in Nat
          BY <4>0 DEF LeftIsEnd
        <5>2. Len(left'[t]) = Len(left[t]) - 1 /\ objects'[t] = objects[t]
          BY <2>0, <4>1
        <5> QED
          BY <5>1, <5>2 DEF Done
      <4>3. components[using[t]] = objects[t] /\ edges[using[t]] = OwnEdges(t)
        BY <2>0, <3>1, <3>3 DEF AloneAt
      <4>4. edges'[using[t]] = {e \in Between(objects[t]) : e[1] <= Done(t) + 1}
        BY <2>0, <4>0, <4>3, CheckAddsOwnEdges DEF Typed
      <4>5. OwnEdges(t)' = {e \in Between(objects[t]) : e[1] <= Done(t) + 1}
        BY <2>0, <4>2 DEF OwnEdges, Between
      <4> QED
        BY <2>0, <3>1, <3>3, <4>3, <4>4, <4>5 DEF AloneAt
    <3>4. CASE u # t
      <4>1. using[u] # using[t] /\ using[u] \in Conditions
        BY <2>0, <2>2, <3>1, <3>4 DEF AloneAt, Typed
      <4>2. edges'[using[u]] = edges[using[u]] /\ left'[u] = left[u]
        BY <2>0, <3>4, <4>1 DEF Typed, LeftOK
      <4>3. OwnEdges(u)' = OwnEdges(u)
        BY <2>0, <4>2 DEF OwnEdges, Between, Done
      <4> QED
        BY <2>0, <3>1, <4>2, <4>3 DEF AloneAt
    <3> QED
      BY <3>3, <3>4
  <2> QED
    BY <2>1, <2>2 DEF AloneOK
<1> QED
  BY <1>1, <1>2, <1>3, <1>4, <1>5, <1>6 DEF Next

(***************************************************************************)
(* The verdict is taken from the edges of all objects.                     *)
(***************************************************************************)
LEMMA NextVerdict ==
    Typed /\ LeftOK /\ alone \in [Threads -> BOOLEAN] /\ AloneOK /\ AloneIsRight /\ [Next]_vars
        => AloneIsRight'
<1> SUFFICES ASSUME Typed, LeftOK, alone \in [Threads -> BOOLEAN], AloneOK, AloneIsRight, [Next]_vars,
                    NEW u \in Threads, alone'[u], verdict'[u] \in {"passed", "violated"}
             PROVE  (verdict'[u] = "violated" <=> HasCycle(Between(objects[u])', objects'[u]))
  BY DEF AloneIsRight
<1>0. dependsOn' = dependsOn
  BY DEF Next, vars, shared, Begin, BeginEmpty, CallPoisoned, CallInit, CallCheck,
         CheckPanics, CallFinish
<1>1. CASE UNCHANGED <<objects, alone>> /\ verdict'[u] = verdict[u]
  <2>1. verdict[u] = "violated" <=> HasCycle(Between(objects[u]), objects[u])
    BY <1>1 DEF AloneIsRight
  <2>2. Between(objects[u])' = Between(objects[u])
    BY <1>0, <1>1 DEF Between
  <2> QED
    BY <1>1, <2>1, <2>2
<1>2. ASSUME NEW t \in Threads, NEW c \in Conditions, NEW input \in Inputs, Begin(t, c, input)
      PROVE  (verdict'[u] = "violated" <=> HasCycle(Between(objects[u])', objects'[u]))
  <2>1. u # t
    BY <1>2 DEF Begin, Typed
  <2>2. objects'[u] = objects[u] /\ verdict'[u] = verdict[u] /\ alone[u]
    BY <1>2, <2>1 DEF Begin, Typed
  <2>3. Between(objects[u])' = Between(objects[u])
    BY <1>0, <2>2 DEF Between
  <2>4. verdict[u] = "violated" <=> HasCycle(Between(objects[u]), objects[u])
    BY <2>2 DEF AloneIsRight
  <2> QED
    BY <2>2, <2>3, <2>4
<1>3. ASSUME NEW t \in Threads, BeginEmpty(t) \/ CallPoisoned(t) \/ CheckPanics(t)
      PROVE  UNCHANGED <<objects, alone>> /\ verdict'[u] = verdict[u]
  BY <1>3 DEF BeginEmpty, CallPoisoned, CheckPanics, End, Typed
<1>4. ASSUME NEW t \in Threads, CallInit(t) \/ CallCheck(t)
      PROVE  UNCHANGED <<objects, alone>> /\ verdict'[u] = verdict[u]
  BY <1>4 DEF CallInit, CallCheck
<1>5. ASSUME NEW t \in Threads, CallFinish(t), u # t
      PROVE  UNCHANGED <<objects, alone>> /\ verdict'[u] = verdict[u]
  BY <1>5 DEF CallFinish, End, Typed
<1>6. ASSUME CallFinish(u)
      PROVE  (verdict'[u] = "violated" <=> HasCycle(Between(objects[u])', objects'[u]))
  <2>1. /\ pc[u] = "check" /\ left[u] = <<>> /\ using[u] \notin poisoned
        /\ objects' = objects /\ alone' = alone
        /\ verdict'[u] = IF HasCycle(edges[using[u]], components[using[u]]) THEN "violated" ELSE "passed"
    BY <1>6 DEF CallFinish, End, Typed
  <2>2. components[using[u]] = objects[u] /\ edges[using[u]] = OwnEdges(u)
    BY <2>1 DEF AloneOK, AloneAt
  <2>3. OwnEdges(u) = Between(objects[u])
    BY <2>1, OwnEdgesAreAll DEF LeftOK
  <2>4. Between(objects[u])' = Between(objects[u])
    BY <1>0, <2>1 DEF Between
  <2> QED
    BY <2>1, <2>2, <2>3, <2>4
<1> QED
  BY <1>1, <1>2, <1>3, <1>4, <1>5, <1>6 DEF Next, vars

(***************************************************************************)
(* An evaluation that had its condition to itself is violated exactly when *)
(* its objects have a cycle, whatever earlier, interrupted or panicked     *)
(* evaluations did with the same condition.                                *)
(***************************************************************************)
THEOREM AloneEvaluationIsRight == Spec => []AloneIsRight
<1> DEFINE AloneInv == Typed /\ LeftOK /\ alone \in [Threads -> BOOLEAN] /\ AloneOK /\ AloneIsRight
<1>1. Init => AloneInv
  <2> SUFFICES ASSUME Init PROVE AloneInv
    OBVIOUS
  <2>1. LeftOK
    <3>1. \A t \in Threads : left[t] = <<>> /\ objects[t] = <<>> /\ pc[t] = "idle"
      BY DEF Init
    <3>2. <<>> \in Seq(Components) /\ Len(<<>>) = 0 /\ IsInjective(<<>>)
      BY DEF IsInjective
    <3>3. 1 .. 0 = {} /\ 0 <= 0
      OBVIOUS
    <3>4. \A t \in Threads : LeftIsEnd(t)
      BY <3>1, <3>2, <3>3 DEF LeftIsEnd
    <3> QED
      BY <3>2, <3>4 DEF Init, LeftOK
  <2>2. AloneOK /\ AloneIsRight /\ alone \in [Threads -> BOOLEAN]
    BY DEF Init, AloneOK, AloneIsRight
  <2> QED
    BY <2>1, <2>2, InitTyped
<1>2. AloneInv /\ [Next]_vars => AloneInv'
  BY NextTyped, NextLeft, NextAlone, NextVerdict
<1> QED
  BY <1>1, <1>2, PTL DEF Spec
=============================================================================
