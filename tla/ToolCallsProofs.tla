--------------------------- MODULE ToolCallsProofs ---------------------------
(***************************************************************************)
(* Lemmas about the call path, whatever the tools do, for every number of  *)
(* calls and every bound.                                                  *)
(***************************************************************************)
EXTENDS ToolCalls, FiniteSetTheorems, TLAPS

LEMMA SetsOfCallsAreFinite ==
    ASSUME NEW S, S \subseteq Calls
    PROVE  IsFiniteSet(S) /\ Cardinality(S) \in Nat
<1> QED
    BY FS_Subset, FS_CardinalityType, ToolCallsAssumption

LEMMA AddOne ==
    ASSUME NEW S, S \subseteq Calls, NEW c \in Calls, Cardinality(S) < MaxRequests
    PROVE  Cardinality(S \cup {c}) <= MaxRequests
<1>1. IsFiniteSet(S) /\ Cardinality(S) \in Nat
    BY SetsOfCallsAreFinite
<1>2. Cardinality(S \cup {c}) = IF c \in S THEN Cardinality(S) ELSE Cardinality(S) + 1
    BY <1>1, FS_AddElement
<1> QED
    BY <1>1, <1>2, ToolCallsAssumption

LEMMA Smaller ==
    ASSUME NEW S, S \subseteq Calls, NEW T, T \subseteq S
    PROVE  Cardinality(T) <= Cardinality(S)
<1> QED
    BY SetsOfCallsAreFinite, FS_Subset

\* The end of a call keeps the types.
LEMMA AnswerTypes ==
    ASSUME NEW answers, NEW c \in Calls, NEW a \in answers \cup ShellAnswers,
           ShellTypeOK(answers), Answer(c, a)
    PROVE  ShellTypeOK(answers)'
<1> QED
    BY ToolCallsAssumption DEF ShellTypeOK, Answer, Stages

\* The end of a call keeps the invariant.
LEMMA AnswerKeeps ==
    ASSUME NEW answers, NEW c \in Calls, NEW a \in answers \cup ShellAnswers,
           ShellTypeOK(answers), ShellInv, Answer(c, a), a # "none"
    PROVE  ShellInv'
<1> USE DEF ShellTypeOK, Stages
<1>1. permits' = {d \in Calls : stage'[d] = "running"}
    BY DEF ShellInv, BoundsAreKept, Answer
<1>2. slots' \subseteq {d \in Calls : stage'[d] \in {"ingress", "running"}}
    BY DEF ShellInv, BoundsAreKept, Answer
<1>3. Cardinality(permits') <= MaxRequests /\ Cardinality(slots') <= MaxRequests
    <2>1. Cardinality(permits') <= Cardinality(permits)
        BY Smaller DEF Answer
    <2>2. Cardinality(slots') <= Cardinality(slots)
        BY Smaller DEF Answer
    <2>3. /\ Cardinality(permits) \in Nat /\ Cardinality(slots) \in Nat
          /\ Cardinality(permits') \in Nat /\ Cardinality(slots') \in Nat
        BY SetsOfCallsAreFinite DEF Answer
    <2> QED
        BY <2>1, <2>2, <2>3, ToolCallsAssumption DEF ShellInv, BoundsAreKept
<1>4. SlotsInv'
    BY DEF ShellInv, SlotsInv, Answer
<1>5. ClocksInv'
    BY DEF ShellInv, ClocksInv, Answer
<1> QED
    BY <1>1, <1>2, <1>3, <1>4, <1>5 DEF ShellInv, BoundsAreKept

\* Every step of the call path keeps the types.
LEMMA ShellTypesKept ==
    ASSUME NEW answers, ShellTypeOK(answers), ShellStep(answers)
    PROVE  ShellTypeOK(answers)'
<1>1. ASSUME NEW c \in Calls, Arrive(c) \/ TakeSlot(c)
      PROVE  ShellTypeOK(answers)'
    BY <1>1 DEF ShellTypeOK, Arrive, TakeSlot, Stages
<1>2. ASSUME NEW c \in Calls, Reject(c) \/ HandlerTimeout(c)
      PROVE  ShellTypeOK(answers)'
    BY <1>2, AnswerTypes DEF Reject, HandlerTimeout, ShellAnswers
<1>3. ASSUME NEW c \in Calls, Admit(c)
      PROVE  ShellTypeOK(answers)'
    <2>1. CASE Cardinality(permits) < MaxRequests
        BY <1>3, <2>1 DEF Admit, ShellTypeOK, Stages
    <2>2. CASE ~(Cardinality(permits) < MaxRequests)
        BY <1>3, <2>2, AnswerTypes DEF Admit, ShellAnswers
    <2> QED
        BY <2>1, <2>2
<1>4. ASSUME NEW c \in Calls, HttpTimeout(c) \/ HangUp(c)
      PROVE  ShellTypeOK(answers)'
    <2>1. PICK a \in {"http_timeout", "hung_up"} : GiveUp(c, a)
        BY <1>4 DEF HttpTimeout, HangUp
    <2>2. CASE Answer(c, a)
        BY <2>2, AnswerTypes DEF ShellAnswers
    <2>3. CASE ~Answer(c, a)
        BY <2>1, <2>3, ToolCallsAssumption DEF GiveUp, ShellTypeOK, Stages, ShellAnswers
    <2> QED
        BY <2>2, <2>3
<1>5. ASSUME NEW c \in Calls, NEW a \in answers, Answer(c, a)
      PROVE  ShellTypeOK(answers)'
    BY <1>5, AnswerTypes
<1>6. CASE ShellTick
    BY <1>6, ToolCallsAssumption DEF ShellTick, ShellTypeOK, Unanswered, Stages
<1>7. CASE UNCHANGED shell
    BY <1>7 DEF shell, ShellTypeOK
<1> QED
    BY <1>1, <1>2, <1>3, <1>4, <1>5, <1>6, <1>7 DEF ShellStep

\* Every step of the call path keeps the invariant.
LEMMA ShellInvKept ==
    ASSUME NEW answers, "none" \notin answers,
           ShellTypeOK(answers), ShellInv, ShellStep(answers)
    PROVE  ShellInv'
<1>1. ASSUME NEW c \in Calls, Arrive(c)
      PROVE  ShellInv'
    BY <1>1 DEF Arrive, ShellInv, BoundsAreKept, SlotsInv, ClocksInv, ShellTypeOK, Stages
<1>2. ASSUME NEW c \in Calls, TakeSlot(c)
      PROVE  ShellInv'
    <2>1. Cardinality(slots') <= MaxRequests
        BY <1>2, AddOne DEF TakeSlot, ShellTypeOK
    <2>2. SlotsInv' /\ ClocksInv'
        BY <1>2 DEF TakeSlot, ShellInv, SlotsInv, ClocksInv, ShellTypeOK, Stages
    <2> QED
        BY <1>2, <2>1, <2>2 DEF TakeSlot, ShellInv, BoundsAreKept, ShellTypeOK, Stages
<1>3. ASSUME NEW c \in Calls, Reject(c) \/ HandlerTimeout(c)
      PROVE  ShellInv'
    BY <1>3, AnswerKeeps DEF Reject, HandlerTimeout, ShellAnswers
<1>4. ASSUME NEW c \in Calls, Admit(c)
      PROVE  ShellInv'
    <2>1. CASE Cardinality(permits) < MaxRequests
        <3>1. Cardinality(permits') <= MaxRequests
            BY <1>4, <2>1, AddOne DEF Admit, ShellTypeOK
        <3>2. permits' = {d \in Calls : stage'[d] = "running"}
            BY <1>4, <2>1 DEF Admit, ShellInv, BoundsAreKept, ShellTypeOK, Stages
        <3>3. SlotsInv'
            BY <1>4, <2>1 DEF Admit, ShellInv, SlotsInv, ShellTypeOK, Stages
        <3>4. ClocksInv'
            BY <1>4, <2>1, ToolCallsAssumption
            DEF Admit, ShellInv, ClocksInv, ShellTypeOK, Stages
        <3> QED
            BY <1>4, <2>1, <3>1, <3>2, <3>3, <3>4
            DEF Admit, ShellInv, BoundsAreKept, ShellTypeOK, Stages
    <2>2. CASE ~(Cardinality(permits) < MaxRequests)
        BY <1>4, <2>2, AnswerKeeps DEF Admit, ShellAnswers
    <2> QED
        BY <2>1, <2>2
<1>5. ASSUME NEW c \in Calls, HttpTimeout(c) \/ HangUp(c)
      PROVE  ShellInv'
    <2>1. PICK a \in {"http_timeout", "hung_up"} : GiveUp(c, a)
        BY <1>5 DEF HttpTimeout, HangUp
    <2>2. CASE Answer(c, a)
        BY <2>2, AnswerKeeps DEF ShellAnswers
    <2>3. CASE ~Answer(c, a)
        <3>1. /\ stage[c] = "running"
              /\ answer' = [answer EXCEPT ![c] = a]
              /\ slots' = slots \ {c}
              /\ age' = [age EXCEPT ![c] = 0]
              /\ UNCHANGED <<transport, stage, spent, permits>>
            BY <2>1, <2>3 DEF GiveUp
        <3>2. Cardinality(slots') <= Cardinality(slots)
            BY <3>1, Smaller DEF ShellTypeOK
        <3>3. Cardinality(slots) \in Nat /\ Cardinality(slots') \in Nat
            BY <3>1, SetsOfCallsAreFinite DEF ShellTypeOK
        <3>4. Cardinality(slots') <= MaxRequests
            BY <3>2, <3>3, ToolCallsAssumption DEF ShellInv, BoundsAreKept
        <3>5. SlotsInv' /\ ClocksInv'
            BY <3>1 DEF ShellInv, SlotsInv, ClocksInv, ShellTypeOK
        <3> QED
            BY <3>1, <3>4, <3>5 DEF ShellInv, BoundsAreKept
    <2> QED
        BY <2>2, <2>3
<1>6. ASSUME NEW c \in Calls, NEW a \in answers, Answer(c, a)
      PROVE  ShellInv'
    BY <1>6, AnswerKeeps
<1>7. CASE ShellTick
    <2>1. ClocksInv'
        BY <1>7, ToolCallsAssumption
        DEF ShellTick, ShellInv, ClocksInv, ShellTypeOK, Unanswered, Stages
    <2> QED
        BY <1>7, <2>1 DEF ShellTick, ShellInv, BoundsAreKept, SlotsInv
<1>8. CASE UNCHANGED shell
    BY <1>8 DEF shell, ShellInv, BoundsAreKept, SlotsInv, ClocksInv
<1> QED
    BY <1>1, <1>2, <1>3, <1>4, <1>5, <1>6, <1>7, <1>8 DEF ShellStep

\* A fresh server.
LEMMA ShellStarts ==
    ASSUME NEW answers, ShellInit
    PROVE  ShellTypeOK(answers) /\ ShellInv
<1>1. ShellTypeOK(answers)
    BY ToolCallsAssumption DEF ShellInit, ShellTypeOK, Stages
<1>2. BoundsAreKept
    BY FS_EmptySet, ToolCallsAssumption DEF ShellInit, BoundsAreKept
<1>3. SlotsInv /\ ClocksInv
    BY DEF ShellInit, SlotsInv, ClocksInv
<1> QED
    BY <1>1, <1>2, <1>3 DEF ShellInv

\* A permit that no waited-for call accounts for belongs to a detached one.
LEMMA FullHandlerHasDetached ==
    ASSUME NEW answers, ShellTypeOK(answers), ShellInv, transport = "http",
           NEW c \in Calls, stage[c] = "ingress", ~(Cardinality(permits) < MaxRequests)
    PROVE  \E d \in Calls : Detached(d)
<1>1. /\ permits \subseteq Calls /\ slots \subseteq Calls
      /\ IsFiniteSet(permits) /\ IsFiniteSet(slots)
      /\ Cardinality(permits) \in Nat /\ Cardinality(slots) \in Nat
    BY SetsOfCallsAreFinite DEF ShellTypeOK
<1>2. c \in slots /\ c \notin permits
    BY DEF ShellInv, BoundsAreKept, SlotsInv
<1>3. Cardinality(slots \ {c}) = Cardinality(slots) - 1
    BY <1>1, <1>2, FS_RemoveElement
<1>4. ASSUME permits \subseteq slots \ {c}
      PROVE  FALSE
    <2>1. Cardinality(permits) <= Cardinality(slots \ {c})
        BY <1>1, <1>4, Smaller
    <2> QED
        BY <1>1, <1>3, <2>1, ToolCallsAssumption DEF ShellInv, BoundsAreKept
<1>5. PICK d \in permits : d \notin slots
    BY <1>2, <1>4
<1> QED
    BY <1>1, <1>5 DEF ShellInv, BoundsAreKept, SlotsInv, Detached
=============================================================================
