----------------------------- MODULE ShellProofs -----------------------------
(***************************************************************************)
(* What the shells cannot do to each other however they interleave, for    *)
(* any number of shells, contexts and lines of history: use up contexts    *)
(* with commands that start, or leave the history one at a time.           *)
(***************************************************************************)
EXTENDS Shell, Iteration, FiniteSetTheorems

\* The shape of the variables that the proofs look into.
Shape ==
    /\ pc = [s \in Shells |-> pc[s]]
    /\ slot = [s \in Shells |-> slot[s]]
    /\ contexs = [i \in Slot |-> contexs[i]]
    /\ \A i \in Slot : "inUse" \in DOMAIN contexs[i]
    /\ failed \in Nat
    /\ hist_index \in Nat

\* Behind the last line of the history stands only a shell that has yet to
\* look whether it is there.
BehindLastIsSeen == hist_index = MaxHist => \E s \in Shells : pc[s] = "wrap"

HistoryInv == Shape /\ BehindLastIsSeen
LeakInv == Shape /\ ContextsLeakOnlyByFailure

\* The steps that only move s among the places where it fills no context.
Elsewhere(s) ==
    \/ Prompt(s) \/ Key(s) \/ EndLine(s) \/ commitCommand(s) \/ Save(s) \/ Wrap(s)
    \/ getCommandFromPrompt(s) \/ getFlagsFromPrompt(s) \/ getParamsFromPrompt(s)
    \/ executeCommand(s) \/ getContext(s) \/ Wait(s)

-----------------------------------------------------------------------------
(* The shape.                                                              *)

LEMMA OtherField ==
    ASSUME NEW r, NEW x, "inUse" \in DOMAIN r
    PROVE  /\ [r EXCEPT !.argv = x].inUse = r.inUse
           /\ "inUse" \in DOMAIN [r EXCEPT !.argv = x]
BY SMT

LEMMA DestroyedIsUnused ==
    ASSUME NEW r, "inUse" \in DOMAIN r
    PROVE  ~Destroyed(r).inUse /\ "inUse" \in DOMAIN Destroyed(r)
BY SMT DEF Destroyed

LEMMA OneUpdated ==
    ASSUME NEW f, NEW S, NEW i, NEW v, f = [j \in S |-> f[j]]
    PROVE  /\ [f EXCEPT ![i] = v] = [j \in S |-> [f EXCEPT ![i] = v][j]]
           /\ \A j \in S : [f EXCEPT ![i] = v][j] = IF j = i THEN v ELSE f[j]
BY SMT

LEMMA InitShape == Init => Shape
BY SMT DEF Init, Shape, Slot

LEMMA MaxHistNat == MaxHist \in Nat \ {0}
BY ShellAssumption

\* No step but those of the history touches its index.
LEMMA HistoryIndexSteps ==
    ASSUME NEW s \in Shells, Step(s)
    PROVE  Save(s) \/ Wrap(s) \/ hist_index' = hist_index
<1>1. ASSUME Elsewhere(s) PROVE Save(s) \/ Wrap(s) \/ hist_index' = hist_index
  BY <1>1, Zenon DEF Elsewhere, Prompt, Key, EndLine, commitCommand, getCommandFromPrompt,
     getFlagsFromPrompt, getParamsFromPrompt, executeCommand, getContext, Wait, hist
<1>2. ASSUME initContext(s) \/ contextAddArg(s) \/ contextCreate(s) PROVE hist_index' = hist_index
  BY <1>2, Zenon DEF initContext, contextAddArg, contextCreate, hist
<1>. QED BY <1>1, <1>2, Zenon DEF Step, Elsewhere

\* Shell s goes from one place to another and keeps its context.
Moves(s, from, to) ==
    /\ pc[s] = from /\ pc' = [pc EXCEPT ![s] = to]
    /\ contexs' = contexs /\ failed' = failed

\* A step moves one shell; only getContext chooses a slot, and only the
\* steps that fill a context write one or fail.
LEMMA PlaceSteps ==
    ASSUME NEW s \in Shells, Elsewhere(s)
    PROVE  /\ \E from, to : /\ Moves(s, from, to)
                            /\ from \notin {"args", "create"} /\ to \notin {"args", "create"}
           /\ slot' = slot \/ \E i : slot' = [slot EXCEPT ![s] = i]
<1>. DEFINE Quiet(from, to) == Moves(s, from, to) /\ slot' = slot
<1>1. Prompt(s) => Quiet("prompt", "read") BY Zenon DEF Prompt, Goto, own, Moves
<1>2. Key(s) => Quiet("read", "line") \/ Quiet("read", "read")
  BY Zenon DEF Key, Goto, own, Moves
<1>3. EndLine(s) => Quiet("line", "read") \/ Quiet("line", "commit")
  BY Zenon DEF EndLine, Goto, own, Moves
<1>4. commitCommand(s) => Quiet("commit", "save") \/ Quiet("commit", "command")
  BY Zenon DEF commitCommand, Goto, own, Moves
<1>5. Save(s) => Quiet("save", "wrap") BY Zenon DEF Save, Goto, own, Moves
<1>6. Wrap(s) => Quiet("wrap", "command") BY Zenon DEF Wrap, Goto, own, Moves
<1>7. getCommandFromPrompt(s) => Quiet("command", "flags")
  BY Zenon DEF getCommandFromPrompt, Goto, own, Moves
<1>8. getFlagsFromPrompt(s) => Quiet("flags", "params") \/ Quiet("flags", "lookup")
  BY Zenon DEF getFlagsFromPrompt, Goto, own, Moves
<1>9. getParamsFromPrompt(s) => Quiet("params", "lookup")
  BY Zenon DEF getParamsFromPrompt, Goto, own, Moves
<1>10. executeCommand(s) => Quiet("lookup", "context") \/ Quiet("lookup", "prompt")
  BY Zenon DEF executeCommand, Goto, Moves
<1>11. getContext(s) => \/ Quiet("context", "lost")
                        \/ Moves(s, "context", "init") /\ \E i : slot' = [slot EXCEPT ![s] = i]
  BY Zenon DEF getContext, Goto, Moves
<1>12. Wait(s) => Quiet("wait", "prompt") BY Zenon DEF Wait, Goto, Moves
<1>. DEFINE Goal == /\ \E from, to : /\ Moves(s, from, to)
                                     /\ from \notin {"args", "create"} /\ to \notin {"args", "create"}
                    /\ slot' = slot \/ \E i : slot' = [slot EXCEPT ![s] = i]
<1>13. ASSUME NEW from, NEW to, from \notin {"args", "create"}, to \notin {"args", "create"},
              Quiet(from, to)
       PROVE  Goal
  BY <1>13
<1>14. ASSUME getContext(s) PROVE Goal
  <2>1. /\ "context" \notin {"args", "create"} /\ "init" \notin {"args", "create"}
        /\ "lost" \notin {"args", "create"}
    OBVIOUS
  <2>2. CASE Quiet("context", "lost") BY <2>1, <2>2, <1>13, Zenon
  <2>3. CASE Moves(s, "context", "init") /\ \E i : slot' = [slot EXCEPT ![s] = i]
    BY <2>1, <2>3, Zenon
  <2>. QED BY <1>11, <1>14, <2>2, <2>3
<1>. HIDE DEF Quiet, Goal
<1>15. Prompt(s) \/ Key(s) \/ EndLine(s) => Goal BY <1>1, <1>2, <1>3, <1>13, SMT
<1>16. commitCommand(s) \/ Save(s) \/ Wrap(s) => Goal BY <1>4, <1>5, <1>6, <1>13, SMT
<1>17. getCommandFromPrompt(s) \/ getFlagsFromPrompt(s) \/ getParamsFromPrompt(s) => Goal
  BY <1>7, <1>8, <1>9, <1>13, SMT
<1>18. executeCommand(s) \/ Wait(s) => Goal BY <1>10, <1>12, <1>13, SMT
<1>19. Goal BY <1>14, <1>15, <1>16, <1>17, <1>18, Zenon DEF Elsewhere
<1>. QED BY <1>19 DEF Goal

LEMMA StepCases ==
    ASSUME NEW s \in Shells, Step(s)
    PROVE  Elsewhere(s) \/ initContext(s) \/ contextAddArg(s) \/ contextCreate(s)
BY DEF Step, Elsewhere

LEMMA FillingPlaces ==
    ASSUME NEW s \in Shells, initContext(s) \/ contextAddArg(s) \/ contextCreate(s)
    PROVE  /\ slot' = slot
           /\ \E label : pc' = [pc EXCEPT ![s] = label]
<1>1. CASE initContext(s)
  <2>1. pc' = [pc EXCEPT ![s] = "args"] /\ slot' = slot BY <1>1, Zenon DEF initContext, Goto
  <2>. QED BY <2>1
<1>2. CASE contextAddArg(s)
  <2>. DEFINE label == IF Len(todo[s]) = 1 THEN "create" ELSE "args"
  <2>1. pc' = [pc EXCEPT ![s] = label] /\ slot' = slot BY <1>2, Zenon DEF contextAddArg, Goto
  <2>. QED BY <2>1
<1>3. CASE contextCreate(s)
  <2>1. pc' = [pc EXCEPT ![s] = "wait"] /\ slot' = slot BY <1>3, Zenon DEF contextCreate, Goto
  <2>. QED BY <2>1
<1>. QED BY <1>1, <1>2, <1>3

\* What filling does to the contexts: their shape survives, and only the one
\* that the shell fills may change between used and unused.
ContextsAfter(s) ==
    /\ contexs' = [i \in Slot |-> contexs'[i]]
    /\ \A i \in Slot : "inUse" \in DOMAIN contexs'[i]
    /\ \A i \in Slot \ {slot[s]} : contexs'[i].inUse = contexs[i].inUse

LEMMA FillingContexts ==
    ASSUME Shape, NEW s \in Shells
    PROVE  /\ initContext(s) => ContextsAfter(s) /\ failed' = failed
           /\ contextAddArg(s) =>
                 /\ ContextsAfter(s) /\ failed' = failed
                 /\ \A i \in Slot : contexs'[i].inUse = contexs[i].inUse
           /\ contextCreate(s) =>
                 /\ ContextsAfter(s)
                 /\ \/ failed' = failed /\ (slot[s] \in Slot => ~contexs'[slot[s]].inUse)
                    \/ failed' = failed + 1 /\ contexs' = contexs
<1>. DEFINE j == slot[s]
<1>0. contexs = [i \in Slot |-> contexs[i]] /\ \A i \in Slot : "inUse" \in DOMAIN contexs[i]
  BY DEF Shape
<1>1. ASSUME initContext(s) PROVE ContextsAfter(s) /\ failed' = failed
  <2>. DEFINE v == [inUse |-> TRUE, process |-> code[s], argv |-> <<>>]
  <2>1. contexs' = [contexs EXCEPT ![j] = v] /\ failed' = failed BY <1>1, Zenon DEF initContext
  <2>2. "inUse" \in DOMAIN v BY SMT
  <2>. HIDE DEF v, j
  <2>3. /\ contexs' = [i \in Slot |-> contexs'[i]]
        /\ \A i \in Slot : contexs'[i] = IF i = j THEN v ELSE contexs[i]
    BY <1>0, <2>1, OneUpdated, Zenon
  <2>. QED BY <1>0, <2>1, <2>2, <2>3, Zenon DEF ContextsAfter, j
<1>2. ASSUME contextAddArg(s)
      PROVE  /\ ContextsAfter(s) /\ failed' = failed
             /\ \A i \in Slot : contexs'[i].inUse = contexs[i].inUse
  <2>0. failed' = failed BY <1>2, Zenon DEF contextAddArg
  <2>1. CASE contexs' = contexs BY <1>0, <2>0, <2>1, Zenon DEF ContextsAfter
  <2>2. CASE contexs' # contexs
    <3>. DEFINE v == [contexs[j] EXCEPT !.argv = Append(contexs[j].argv, Head(todo[s]))]
    <3>1. contexs' = [contexs EXCEPT ![j] = v] BY <1>2, <2>2, Zenon DEF contextAddArg
    <3>2. j \in Slot => v.inUse = contexs[j].inUse /\ "inUse" \in DOMAIN v
      BY <1>0, OtherField, Zenon
    <3>. HIDE DEF v, j
    <3>3. /\ contexs' = [i \in Slot |-> contexs'[i]]
          /\ \A i \in Slot : contexs'[i] = IF i = j THEN v ELSE contexs[i]
      BY <1>0, <3>1, OneUpdated, Zenon
    <3>. QED BY <1>0, <2>0, <3>2, <3>3, Zenon DEF ContextsAfter, j
  <2>. QED BY <2>1, <2>2
<1>3. ASSUME contextCreate(s)
      PROVE  /\ ContextsAfter(s)
             /\ \/ failed' = failed /\ (j \in Slot => ~contexs'[j].inUse)
                \/ failed' = failed + 1 /\ contexs' = contexs
  <2>1. CASE contexs' = contexs /\ failed' = failed + 1
    BY <1>0, <2>1, Zenon DEF ContextsAfter
  <2>2. CASE contexs' = [contexs EXCEPT ![slot[s]] = Destroyed(@)] /\ failed' = failed
    <3>. DEFINE v == Destroyed(contexs[j])
    <3>1. contexs' = [contexs EXCEPT ![j] = v] BY <2>2
    <3>2. j \in Slot => ~v.inUse /\ "inUse" \in DOMAIN v
      BY <1>0, DestroyedIsUnused, Zenon
    <3>. HIDE DEF v, j
    <3>3. /\ contexs' = [i \in Slot |-> contexs'[i]]
          /\ \A i \in Slot : contexs'[i] = IF i = j THEN v ELSE contexs[i]
      BY <1>0, <3>1, OneUpdated, Zenon
    <3>. QED BY <1>0, <2>2, <3>2, <3>3, Zenon DEF ContextsAfter, j
  <2>. QED BY <1>3, <2>1, <2>2, Zenon DEF contextCreate
<1>. QED BY <1>1, <1>2, <1>3

LEMMA NextShape == Shape /\ [Next]_vars => Shape'
<1> SUFFICES ASSUME Shape, [Next]_vars PROVE Shape' OBVIOUS
<1>1. CASE UNCHANGED vars BY <1>1, SMT DEF vars, own, hist, Shape
<1>2. ASSUME NEW s \in Shells, Step(s) PROVE Shape'
  <2>1. hist_index' \in Nat
    BY <1>2, HistoryIndexSteps, MaxHistNat, SMT DEF Save, Wrap, Wrapped, Shape
  <2>2. CASE Elsewhere(s)
    <3>1. PICK from, to : Moves(s, from, to) BY <2>2, PlaceSteps
    <3>2. pc' = [t \in Shells |-> pc'[t]] BY <3>1, OneUpdated, Zenon DEF Moves, Shape
    <3>3. slot' = [t \in Shells |-> slot'[t]] BY <2>2, PlaceSteps, OneUpdated, Zenon DEF Shape
    <3>4. contexs' = contexs /\ failed' = failed BY <3>1 DEF Moves
    <3>. QED BY <2>1, <3>2, <3>3, <3>4, Zenon DEF Shape
  <2>3. CASE initContext(s) \/ contextAddArg(s) \/ contextCreate(s)
    <3>1. ContextsAfter(s) /\ failed' \in Nat
      BY <2>3, FillingContexts, SMT DEF Shape
    <3>2. pc' = [t \in Shells |-> pc'[t]] /\ slot' = [t \in Shells |-> slot'[t]]
      BY <2>3, FillingPlaces, OneUpdated, Zenon DEF Shape
    <3>. QED BY <2>1, <3>1, <3>2, Zenon DEF Shape, ContextsAfter
  <2>. QED BY <1>2, <2>2, <2>3, StepCases
<1>. QED BY <1>1, <1>2 DEF Next

-----------------------------------------------------------------------------
(* The history.                                                            *)

LEMMA WrapPlace ==
    ASSUME NEW s \in Shells, Step(s), pc[s] = "wrap"
    PROVE  Wrap(s)
<1>1. /\ ~Prompt(s) /\ ~Key(s) /\ ~EndLine(s) /\ ~commitCommand(s) /\ ~Save(s)
      /\ ~getCommandFromPrompt(s) /\ ~getFlagsFromPrompt(s) /\ ~getParamsFromPrompt(s)
      /\ ~executeCommand(s) /\ ~getContext(s) /\ ~initContext(s) /\ ~contextAddArg(s)
      /\ ~contextCreate(s) /\ ~Wait(s)
  BY SMT DEF Prompt, Key, EndLine, commitCommand, Save, getCommandFromPrompt,
     getFlagsFromPrompt, getParamsFromPrompt, executeCommand, getContext, initContext,
     contextAddArg, contextCreate, Wait
<1>. QED BY <1>1, Zenon DEF Step

\* Only the steps of the shell that waits to look take it from there.
LEMMA WaitsToLook ==
    ASSUME Shape, NEW s \in Shells, Step(s), NEW t \in Shells, pc[t] = "wrap", ~Wrap(s)
    PROVE  pc'[t] = "wrap"
<1>1. t # s BY WrapPlace
<1>2. \E label : pc' = [pc EXCEPT ![s] = label]
  BY StepCases, PlaceSteps, FillingPlaces, Zenon DEF Moves
<1>. QED BY <1>1, <1>2, Zenon DEF Shape

LEMMA InitHistoryInv == Init => HistoryInv
BY InitShape, MaxHistNat, SMT DEF Init, HistoryInv, BehindLastIsSeen

LEMMA NextHistoryInv == HistoryInv /\ [Next]_vars => HistoryInv'
<1> SUFFICES ASSUME HistoryInv, [Next]_vars PROVE BehindLastIsSeen'
  BY NextShape DEF HistoryInv
<1>1. CASE UNCHANGED vars BY <1>1, SMT DEF vars, hist, HistoryInv, BehindLastIsSeen
<1>2. ASSUME NEW s \in Shells, Step(s) PROVE BehindLastIsSeen'
  <2>1. CASE Save(s)
    <3>1. pc' = [pc EXCEPT ![s] = "wrap"] BY <2>1, Zenon DEF Save, Goto
    <3>. QED BY <3>1, Zenon DEF HistoryInv, Shape, BehindLastIsSeen
  <2>2. CASE Wrap(s)
    BY <2>2, MaxHistNat, SMT DEF Wrap, Wrapped, BehindLastIsSeen
  <2>3. CASE ~Save(s) /\ ~Wrap(s)
    <3>1. hist_index' = hist_index BY <1>2, <2>3, HistoryIndexSteps
    <3>2. ASSUME NEW t \in Shells, pc[t] = "wrap" PROVE pc'[t] = "wrap"
      BY <1>2, <2>3, <3>2, WaitsToLook DEF HistoryInv
    <3>. QED BY <3>1, <3>2, Zenon DEF HistoryInv, BehindLastIsSeen
  <2>. QED BY <2>1, <2>2, <2>3
<1>. QED BY <1>1, <1>2 DEF Next

\* For any number of shells and lines, the history is left only by a shell
\* that moves on while another has moved and not yet looked (commitCommand).
THEOREM ShellHistory == Spec => HistoryLeftOnlyTogether
<1>1. HistoryInv /\ [Next]_vars =>
          [hist_index <= MaxHist /\ hist_index' > MaxHist => \E s \in Shells : pc[s] = "wrap"]_vars
  <2> SUFFICES ASSUME HistoryInv, Next, hist_index <= MaxHist, hist_index' > MaxHist
               PROVE  \E s \in Shells : pc[s] = "wrap"
    OBVIOUS
  <2>1. PICK s \in Shells : Step(s) BY Zenon DEF Next
  <2>2. hist_index \in Nat BY DEF HistoryInv, Shape
  <2>3. hist_index = MaxHist
    BY <2>1, <2>2, HistoryIndexSteps, MaxHistNat, SMT DEF Save, Wrap, Wrapped
  <2>. QED BY <2>3 DEF HistoryInv, BehindLastIsSeen
<1>. QED BY InitHistoryInv, NextHistoryInv, <1>1, PTL DEF Spec, HistoryLeftOnlyTogether

-----------------------------------------------------------------------------
(* The contexts.                                                           *)

LEMMA LeakedIsFinite == IsFiniteSet(Leaked) /\ Cardinality(Leaked) \in Nat
<1>1. IsFiniteSet(Slot) BY ShellAssumption, FS_Interval, SMT DEF Slot
<1>2. Leaked \subseteq Slot BY DEF Leaked
<1>. QED BY <1>1, <1>2, FS_Subset, FS_CardinalityType

\* A step adds no context to those leaked, or adds one and a failure.
LEMMA LeakedAfter ==
    ASSUME Shape, NEW s \in Shells, Step(s)
    PROVE  \/ failed' = failed /\ Leaked' \subseteq Leaked
           \/ failed' = failed + 1 /\ Leaked' \subseteq Leaked \cup {slot[s]}
<1>. DEFINE Fills(t) == pc[t] \in {"args", "create"}
<1>0. pc = [t \in Shells |-> pc[t]] /\ slot = [t \in Shells |-> slot[t]] BY DEF Shape
<1>1. CASE Elsewhere(s)
  <2>1. ~Fills(s) /\ ~Fills(s)' /\ contexs' = contexs /\ failed' = failed
    BY <1>0, <1>1, PlaceSteps, SMT DEF Moves
  <2>2. \A t \in Shells \ {s} : pc'[t] = pc[t] /\ slot'[t] = slot[t]
    BY <1>0, <1>1, PlaceSteps, Zenon DEF Moves
  <2>3. Filled' = Filled BY <2>1, <2>2, SMT DEF Filled
  <2>. QED BY <2>1, <2>3, Zenon DEF Leaked
<1>2. CASE initContext(s) \/ contextAddArg(s) \/ contextCreate(s)
  <2>1. slot' = slot /\ \A t \in Shells \ {s} : pc'[t] = pc[t]
    BY <1>0, <1>2, FillingPlaces, Zenon
  <2>2. \A t \in Shells \ {s} : Fills(t)' = Fills(t) BY <2>1
  <2>3. Filled \subseteq Filled' \cup {slot[s]} BY <2>1, <2>2, SMT DEF Filled
  <2>4. CASE initContext(s)
    <3>1. pc' = [pc EXCEPT ![s] = "args"] BY <2>4, Zenon DEF initContext, Goto
    <3>2. slot[s] \in Filled' BY <1>0, <2>1, <3>1, SMT DEF Filled
    <3>3. ContextsAfter(s) /\ failed' = failed BY <2>4, FillingContexts
    <3>. QED BY <2>3, <3>2, <3>3, SMT DEF Leaked, ContextsAfter
  <2>5. CASE contextAddArg(s)
    <3>. DEFINE label == IF Len(todo[s]) = 1 THEN "create" ELSE "args"
    <3>1. pc' = [pc EXCEPT ![s] = label] BY <2>5, Zenon DEF contextAddArg, Goto
    <3>2. slot[s] \in Filled' BY <1>0, <2>1, <3>1, SMT DEF Filled
    <3>3. failed' = failed /\ \A i \in Slot : contexs'[i].inUse = contexs[i].inUse
      BY <2>5, FillingContexts
    <3>. QED BY <2>3, <3>2, <3>3, SMT DEF Leaked
  <2>6. CASE contextCreate(s)
    <3>1. \/ failed' = failed /\ (slot[s] \in Slot => ~contexs'[slot[s]].inUse)
          \/ failed' = failed + 1
      BY <2>6, FillingContexts
    <3>2. ContextsAfter(s) BY <2>6, FillingContexts
    <3>. QED BY <2>3, <3>1, <3>2, SMT DEF Leaked, ContextsAfter
  <2>. QED BY <1>2, <2>4, <2>5, <2>6
<1>. QED BY <1>1, <1>2, StepCases

LEMMA InitLeakInv == Init => LeakInv
<1> SUFFICES ASSUME Init PROVE ContextsLeakOnlyByFailure BY InitShape DEF LeakInv
<1>1. Leaked = {} BY SMT DEF Init, Leaked
<1>. QED BY <1>1, FS_EmptySet, SMT DEF Init, ContextsLeakOnlyByFailure

LEMMA NextLeakInv == LeakInv /\ [Next]_vars => LeakInv'
<1> SUFFICES ASSUME LeakInv, [Next]_vars PROVE ContextsLeakOnlyByFailure'
  BY NextShape DEF LeakInv
<1>0. /\ IsFiniteSet(Leaked) /\ Cardinality(Leaked) \in Nat /\ Cardinality(Leaked) <= failed
      /\ failed \in Nat
  BY LeakedIsFinite DEF LeakInv, ContextsLeakOnlyByFailure, Shape
<1>1. CASE UNCHANGED vars
  <2>1. Leaked' = Leaked /\ failed' = failed BY <1>1, Zenon DEF vars, own, Leaked, Filled
  <2>. QED BY <1>0, <2>1 DEF ContextsLeakOnlyByFailure
<1>2. ASSUME NEW s \in Shells, Step(s) PROVE ContextsLeakOnlyByFailure'
  <2>1. CASE failed' = failed /\ Leaked' \subseteq Leaked
    <3>1. Cardinality(Leaked') <= Cardinality(Leaked) /\ Cardinality(Leaked') \in Nat
      BY <1>0, <2>1, FS_Subset, FS_CardinalityType
    <3>. QED BY <1>0, <2>1, <3>1, SMT DEF ContextsLeakOnlyByFailure
  <2>2. CASE failed' = failed + 1 /\ Leaked' \subseteq Leaked \cup {slot[s]}
    <3>0. /\ IsFiniteSet(Leaked \cup {slot[s]})
          /\ Cardinality(Leaked \cup {slot[s]})
                = IF slot[s] \in Leaked THEN Cardinality(Leaked) ELSE Cardinality(Leaked) + 1
      BY <1>0, FS_AddElement, Zenon
    <3>1. /\ IsFiniteSet(Leaked \cup {slot[s]})
          /\ Cardinality(Leaked \cup {slot[s]}) <= Cardinality(Leaked) + 1
          /\ Cardinality(Leaked \cup {slot[s]}) \in Nat
      BY <1>0, <3>0, SMT
    <3>2. Cardinality(Leaked') <= Cardinality(Leaked \cup {slot[s]}) /\ Cardinality(Leaked') \in Nat
      BY <2>2, <3>1, FS_Subset, FS_CardinalityType
    <3>. QED BY <1>0, <2>2, <3>1, <3>2, SMT DEF ContextsLeakOnlyByFailure
  <2>. QED BY <1>2, <2>1, <2>2, LeakedAfter DEF LeakInv
<1>. QED BY <1>1, <1>2 DEF Next

\* However any number of shells share any number of contexts, every context
\* in use that no shell fills was left by a creation that found no page
\* (getContext, contextCreate).
THEOREM ShellContexts == Spec => []ContextsLeakOnlyByFailure
<1>1. LeakInv => ContextsLeakOnlyByFailure BY DEF LeakInv
<1>. QED BY InitLeakInv, NextLeakInv, <1>1, PTL DEF Spec

-----------------------------------------------------------------------------
(* The types, and how far a line can grow.                                 *)

Pointer == {"flags", "params", "cwd"} \cup DOMAIN Argument
Context == [inUse : BOOLEAN, process : DOMAIN Argument \cup {"none"}, argv : Seq(Pointer)]
Child == [process : DOMAIN Argument \cup {"none"}, argv : Seq(Seq(Character))]

\* Who reads a key writes it wherever the line then ends: a full line grows by
\* one place for each shell that still reads.
Readers == {s \in Shells : pc[s] = "read"}
FullLine == index >= MaxComm =>
                index + Cardinality(Readers) <= MaxComm + Cardinality(Shells) - 1

LineTyped ==
    /\ shellBuffer \in [Place -> Character] /\ index \in Nat
    /\ input \in [Shells -> Seq(TypedKey)]
WordsTyped ==
    /\ {command, flags, params, cwd} \subseteq Seq(Character)
    /\ Len(command) <= MaxComm + 1
HistTyped == hist_index \in Nat /\ hist_pos \in Int
ContextsTyped ==
    /\ contexs \in [Slot -> Context] /\ slot \in [Shells -> Slot]
    /\ code \in [Shells -> DOMAIN Argument \cup {"none"}]
    /\ todo \in [Shells -> Seq(Pointer)] /\ child \in [Shells -> Child]
    /\ failed \in 0 .. MaxFailures
    /\ \A s \in Shells : /\ pc[s] \in {"context", "init"} => code[s] \in DOMAIN Argument
                         /\ pc[s] = "args" => todo[s] # << >>

Typed == /\ pc = [s \in Shells |-> pc[s]]
         /\ LineTyped /\ WordsTyped /\ HistTyped /\ ContextsTyped
TypeInv == Typed /\ FullLine

LEMMA Sizes == MaxComm \in Nat /\ MaxComm > 2 /\ CantContexts \in Nat \ {0} /\ MaxFailures \in Nat
               /\ MaxHist \in Nat \ {0} /\ MaxArgs \in Nat
BY ShellAssumption

LEMMA ArgumentsArePointers ==
    /\ DOMAIN Argument = {"d", "r", "l"}
    /\ \A c \in DOMAIN Argument : Argument[c] \in Seq(Pointer) /\ <<c>> \o Argument[c] \in Seq(Pointer)
<1>1. DOMAIN Argument = {"d", "r", "l"} BY DEF Argument
<1>2. {"flags", "params", "cwd"} \subseteq Pointer BY DEF Pointer
<1>3. <<"params">> \in Seq(Pointer) /\ <<"flags", "params">> \in Seq(Pointer) /\ <<"cwd">> \in Seq(Pointer)
  BY <1>2
<1>4. Argument["d"] = <<"params">> /\ Argument["r"] = <<"flags", "params">> /\ Argument["l"] = <<"cwd">>
  BY DEF Argument
<1>5. ASSUME NEW c \in DOMAIN Argument PROVE Argument[c] \in Seq(Pointer)
  BY <1>1, <1>3, <1>4
<1>6. ASSUME NEW c \in DOMAIN Argument PROVE <<c>> \o Argument[c] \in Seq(Pointer)
  <2>1. <<c>> \in Seq(Pointer) BY DEF Pointer
  <2>. QED BY <1>5, <2>1
<1>. QED BY <1>1, <1>5, <1>6

LEMMA ReadersCount ==
    /\ IsFiniteSet(Shells) /\ Cardinality(Shells) \in Nat
    /\ IsFiniteSet(Readers) /\ Cardinality(Readers) \in Nat
    /\ Cardinality(Readers) <= Cardinality(Shells)
<1>1. IsFiniteSet(Shells) BY ShellAssumption
<1>2. Readers \subseteq Shells BY DEF Readers
<1>. QED BY <1>1, <1>2, FS_Subset, FS_CardinalityType

\* A step behind which fewer read, and the line is no longer.
LEMMA FewerRead ==
    ASSUME TypeInv, Readers' \subseteq Readers, index' \in Nat, index' <= index
    PROVE  FullLine'
<1>1. IsFiniteSet(Readers) /\ Cardinality(Readers) \in Nat /\ Cardinality(Shells) \in Nat
  BY ReadersCount
<1>2. Cardinality(Readers') <= Cardinality(Readers) /\ Cardinality(Readers') \in Nat
  BY <1>1, FS_Subset, FS_CardinalityType
<1>. QED BY <1>1, <1>2, Sizes DEF TypeInv, Typed, LineTyped, FullLine

LEMMA ShortLine ==
    ASSUME index' = 0
    PROVE  FullLine'
BY Sizes DEF FullLine

\* A shell goes to a place where it does not read.
LEMMA NoNewReader ==
    ASSUME Typed, NEW s \in Shells, NEW to, to # "read", pc' = [pc EXCEPT ![s] = to]
    PROVE  Readers' \subseteq Readers
BY DEF Typed, Readers

\* The characters of a line.
LEMMA AtIsCharacter ==
    ASSUME LineTyped, NEW i
    PROVE  At(i) \in Character
BY DEF LineTyped, At, Character

\* The search of a line ends inside of the buffer.
LEMMA FirstOfIs ==
    ASSUME NEW i \in 0 .. MaxComm + 1, NEW chars
    PROVE  FirstOf(i, chars) \in i .. MaxComm + 1
<1>. DEFINE Hits == {j \in i .. MaxComm + 1 : j = MaxComm + 1 \/ At(j) \in chars}
<1>1. Hits \in SUBSET Nat /\ MaxComm + 1 \in Hits BY Sizes
<1>2. PICK j \in Hits : \A h \in Hits : j <= h BY <1>1, SmallestExists
<1>3. \A h \in i .. j - 1 : At(h) \notin chars BY <1>2, Sizes
<1>4. \E h \in i .. MaxComm + 1 : /\ h = MaxComm + 1 \/ At(h) \in chars
                                  /\ \A m \in i .. h - 1 : At(m) \notin chars
  BY <1>2, <1>3
<1>. QED BY <1>4 DEF FirstOf

LEMMA CutIsText ==
    ASSUME LineTyped, NEW i \in Nat, NEW j \in Nat, i <= j
    PROVE  Cut(i, j) \in Seq(Character) /\ Len(Cut(i, j)) = j - i
<1>1. PICK n \in Nat : n = j - i OBVIOUS
<1>2. Cut(i, j) = [h \in 1 .. n |-> At(i + h - 1)] BY <1>1 DEF Cut
<1>3. \A h \in 1 .. n : At(i + h - 1) \in Character BY AtIsCharacter
<1>. QED BY <1>1, <1>2, <1>3

LEMMA ParamsAreText ==
    ASSUME LineTyped, NEW i \in 0 .. MaxComm + 1
    PROVE  ParamsFrom(i) \in Seq(Character)
<1>1. PICK end \in 0 .. MaxComm + 1 : end = FirstOf(i, {"NL", "NUL"}) BY FirstOfIs, Sizes
<1>2. PICK blank \in 0 .. MaxComm + 1 : blank = FirstOf(i, {" "})
  <2>1. \A chars : FirstOf(i, chars) \in 0 .. MaxComm + 1 BY FirstOfIs, Sizes
  <2>. QED BY <2>1, Zenon
<1>. DEFINE kept == {j \in blank + 1 .. end - 1 : At(j) # " " \/ At(j - 1) # " "}
<1>3. IsFiniteSet(kept)
  <2>1. blank + 1 \in Int /\ end - 1 \in Int OBVIOUS
  <2>2. IsFiniteSet(blank + 1 .. end - 1) BY <2>1, FS_Interval
  <2>3. kept \subseteq blank + 1 .. end - 1 OBVIOUS
  <2>. QED BY <2>2, <2>3, FS_Subset
<1>4. PICK n \in Nat : n = Cardinality(kept) BY <1>3, FS_CardinalityType
<1>5. ParamsFrom(i) = [m \in 1 .. n |-> At(Ascending(kept)[m])]
  BY <1>1, <1>2, <1>4, Zenon DEF ParamsFrom
<1>. HIDE DEF kept
<1>6. \A m \in 1 .. n : At(Ascending(kept)[m]) \in Character BY AtIsCharacter
<1>. QED BY <1>5, <1>6

-----------------------------------------------------------------------------
(* The steps.                                                              *)

\* A line is read, and with it the index moves.
LEMMA KeyFull ==
    ASSUME TypeInv, NEW s \in Shells, Key(s)
    PROVE  index' \in Nat /\ FullLine'
<1>1. PICK k \in TypedKey : k = Head(input[s])
  <2>1. input[s] \in Seq(TypedKey) /\ input[s] # << >>
    BY DEF TypeInv, Typed, LineTyped, Key
  <2>. QED BY <2>1
<1>2. index \in Nat BY DEF TypeInv, Typed, LineTyped
<1>3. \/ index' = 0
      \/ index' = index
      \/ index > 0 /\ index' = index - 1
      \/ index' = index + 1
  <2>1. CASE k \in Arrows
    <3>1. fetchCommand(k) BY <1>1, <2>1, Zenon DEF Key
    <3>. QED BY <3>1 DEF fetchCommand
  <2>2. CASE k \notin Arrows
    <3>1. index' = CASE k = "BS" -> IF index > 0 THEN index - 1 ELSE index
                     [] k = "TAB" -> index
                     [] OTHER -> index + 1
      BY <1>1, <2>2, Zenon DEF Key
    <3>. QED BY <3>1
  <2>. QED BY <2>1, <2>2
<1>4. index' \in Nat /\ index' <= index + 1 BY <1>2, <1>3
<1>5. pc' = [pc EXCEPT ![s] = IF LineEnds(k, index') THEN "line" ELSE "read"]
  BY <1>1, Zenon DEF Key, Goto
<1>6. CASE index' < MaxComm BY <1>4, <1>6, Sizes DEF FullLine
<1>7. CASE index' >= MaxComm
  <2>1. pc' = [pc EXCEPT ![s] = "line"] BY <1>5, <1>7 DEF LineEnds
  <2>2. s \in Readers BY DEF Key, Readers
  <2>3. Readers' = Readers \ {s} BY <2>1 DEF Readers, TypeInv, Typed
  <2>4. Cardinality(Readers') = Cardinality(Readers) - 1
    BY <2>2, <2>3, ReadersCount, FS_RemoveElement
  <2>5. CASE index >= MaxComm
    <3>1. index + Cardinality(Readers) <= MaxComm + Cardinality(Shells) - 1
      BY <2>5 DEF TypeInv, FullLine
    <3>. QED BY <1>2, <1>4, <2>4, <3>1, ReadersCount, Sizes DEF FullLine
  <2>6. CASE index < MaxComm
    BY <1>2, <1>4, <1>7, <2>4, <2>6, ReadersCount, Sizes DEF FullLine
  <2>. QED BY <1>2, <2>5, <2>6, Sizes
<1>. QED BY <1>4, <1>6, <1>7, Sizes

LEMMA KeyTypeInv ==
    ASSUME TypeInv, NEW s \in Shells, Key(s)
    PROVE  TypeInv'
<1>1. PICK k \in TypedKey : k = Head(input[s])
  <2>1. input[s] \in Seq(TypedKey) /\ input[s] # << >>
    BY DEF TypeInv, Typed, LineTyped, Key
  <2>. QED BY <2>1
<1>2. UNCHANGED <<words, hist_index, cwd, contexs, own, failed>> BY Zenon DEF Key
<1>3. shellBuffer' \in [Place -> Character]
  <2>1. shellBuffer \in [Place -> Character] BY DEF TypeInv, Typed, LineTyped
  <2>2. CASE k \in Arrows
    <3>1. fetchCommand(k) BY <1>1, <2>2, Zenon DEF Key
    <3>. QED BY <2>1, <3>1 DEF fetchCommand
  <2>3. CASE k \notin Arrows
    <3>1. shellBuffer' = IF k \in {"BS", "TAB"} THEN shellBuffer ELSE Store(shellBuffer, index, k)
      BY <1>1, <2>3, Zenon DEF Key
    <3>2. k \notin {"BS", "TAB"} => k \in Character BY <2>3 DEF TypedKey
    <3>. QED BY <2>1, <3>1, <3>2 DEF Store
  <2>. QED BY <2>2, <2>3
<1>4. input' \in [Shells -> Seq(TypedKey)]
  <2>1. input \in [Shells -> Seq(TypedKey)] /\ input[s] # << >>
    BY DEF TypeInv, Typed, LineTyped, Key
  <2>2. Tail(input[s]) \in Seq(TypedKey) BY <2>1
  <2>3. input' = [input EXCEPT ![s] = Tail(input[s])] BY DEF Key
  <2>. QED BY <2>1, <2>2, <2>3
<1>5. hist_pos' \in Int
  <2>1. hist_pos \in Int BY DEF TypeInv, Typed, HistTyped
  <2>2. CASE k \in Arrows
    <3>1. fetchCommand(k) BY <1>1, <2>2, Zenon DEF Key
    <3>. QED BY <2>1, <3>1, Sizes DEF fetchCommand
  <2>3. CASE k \notin Arrows
    <3>1. hist_pos' = hist_pos BY <1>1, <2>3, Zenon DEF Key
    <3>. QED BY <2>1, <3>1
  <2>. QED BY <2>2, <2>3
<1>6. PICK to : to \in {"line", "read"} /\ pc' = [pc EXCEPT ![s] = to]
  BY Zenon DEF Key, Goto
<1>7. index' \in Nat /\ FullLine' BY KeyFull
<1>8. LineTyped' BY <1>3, <1>4, <1>7 DEF LineTyped
<1>9. WordsTyped' /\ HistTyped'
  BY <1>2, <1>5 DEF TypeInv, Typed, WordsTyped, HistTyped, words
<1>10. pc' = [t \in Shells |-> pc'[t]] BY <1>6, OneUpdated, Zenon DEF TypeInv, Typed
<1>11. ContextsTyped'
  <2>1. \A t \in Shells : pc'[t] \in {"context", "init"} => pc[t] \in {"context", "init"}
    BY <1>6 DEF TypeInv, Typed
  <2>2. \A t \in Shells : pc'[t] = "args" => pc[t] = "args" BY <1>6 DEF TypeInv, Typed
  <2>. QED BY <1>2, <2>1, <2>2 DEF TypeInv, Typed, ContextsTyped, own
<1>. QED BY <1>7, <1>8, <1>9, <1>10, <1>11 DEF TypeInv, Typed

\* The shell goes on, and neither contexts nor what it keeps of its own change.
LEMMA GoesOn ==
    ASSUME TypeInv, NEW s \in Shells, NEW to, to \notin {"context", "init", "args"},
           pc' = [pc EXCEPT ![s] = to], UNCHANGED <<contexs, own, failed>>
    PROVE  ContextsTyped' /\ pc' = [t \in Shells |-> pc'[t]]
<1>1. pc' = [t \in Shells |-> pc'[t]] BY OneUpdated, Zenon DEF TypeInv, Typed
<1>2. \A t \in Shells : pc'[t] \in {"context", "init"} => pc[t] \in {"context", "init"}
  BY DEF TypeInv, Typed
<1>3. \A t \in Shells : pc'[t] = "args" => pc[t] = "args" BY DEF TypeInv, Typed
<1>. QED BY <1>1, <1>2, <1>3 DEF TypeInv, Typed, ContextsTyped, own

LEMMA PromptTypeInv ==
    ASSUME TypeInv, NEW s \in Shells, Prompt(s)
    PROVE  TypeInv'
<1>1. pc' = [pc EXCEPT ![s] = "read"] BY Zenon DEF Prompt, Goto
<1>2. UNCHANGED <<words, hist, cwd, contexs, own, input, failed>> BY Zenon DEF Prompt
<1>3. ContextsTyped' /\ pc' = [t \in Shells |-> pc'[t]] BY <1>1, <1>2, GoesOn
<1>4. LineTyped' /\ FullLine'
  <2>1. shellBuffer' = [i \in Place |-> "NUL"] /\ index' = 0 BY DEF Prompt
  <2>2. shellBuffer' \in [Place -> Character] BY <2>1 DEF Character
  <2>. QED BY <1>2, <2>1, <2>2, ShortLine DEF TypeInv, Typed, LineTyped
<1>. QED BY <1>2, <1>3, <1>4 DEF TypeInv, Typed, WordsTyped, HistTyped, words, hist

LEMMA EndLineTypeInv ==
    ASSUME TypeInv, NEW s \in Shells, EndLine(s)
    PROVE  TypeInv'
<1>1. PICK to \in {"read", "commit"} :
         pc' = [pc EXCEPT ![s] = to] /\ (to = "read" => index' = 0)
  BY Zenon DEF EndLine, Goto
<1>2. UNCHANGED <<shellBuffer, words, hist, cwd, contexs, own, input, failed>> BY Zenon DEF EndLine
<1>3. ContextsTyped' /\ pc' = [t \in Shells |-> pc'[t]] BY <1>1, <1>2, GoesOn
<1>4. index' \in Nat /\ index' <= index BY DEF EndLine, TypeInv, Typed, LineTyped
<1>5. FullLine'
  <2>1. CASE index' = 0 BY <2>1, ShortLine
  <2>2. CASE index' # 0
    <3>1. Readers' \subseteq Readers BY <1>1, <2>2, NoNewReader DEF TypeInv
    <3>. QED BY <1>4, <3>1, FewerRead
  <2>. QED BY <2>1, <2>2
<1>. QED BY <1>2, <1>3, <1>4, <1>5 DEF TypeInv, Typed, LineTyped, WordsTyped, HistTyped, words, hist

LEMMA CommitTypeInv ==
    ASSUME TypeInv, NEW s \in Shells, commitCommand(s)
    PROVE  TypeInv'
<1>1. PICK to \in {"save", "command"} : pc' = [pc EXCEPT ![s] = to] BY Zenon DEF commitCommand, Goto
<1>2. UNCHANGED <<index, words, hist, cwd, contexs, own, input, failed>> BY Zenon DEF commitCommand
<1>3. ContextsTyped' /\ pc' = [t \in Shells |-> pc'[t]] BY <1>1, <1>2, GoesOn
<1>4. FullLine'
  <2>1. Readers' \subseteq Readers BY <1>1, NoNewReader DEF TypeInv
  <2>. QED BY <1>2, <2>1, FewerRead DEF TypeInv, Typed, LineTyped
<1>5. shellBuffer' \in [Place -> Character]
  <2>1. "NUL" \in Character BY DEF Character
  <2>2. shellBuffer' = shellBuffer \/ shellBuffer' = [shellBuffer EXCEPT ![index - 1] = "NUL"]
    BY Zenon DEF commitCommand
  <2>. QED BY <2>1, <2>2 DEF TypeInv, Typed, LineTyped
<1>. QED BY <1>2, <1>3, <1>4, <1>5 DEF TypeInv, Typed, LineTyped, WordsTyped, HistTyped, words, hist

\* The line stays as it is, and the shell goes where it does not read.
LEMMA LineStays ==
    ASSUME TypeInv, NEW s \in Shells, NEW to, to # "read", pc' = [pc EXCEPT ![s] = to],
           UNCHANGED <<line, input>>
    PROVE  LineTyped' /\ FullLine'
<1>1. Readers' \subseteq Readers BY NoNewReader DEF TypeInv
<1>2. index' = index /\ index \in Nat BY DEF line, TypeInv, Typed, LineTyped
<1>3. FullLine' BY <1>1, <1>2, FewerRead
<1>. QED BY <1>3 DEF TypeInv, Typed, LineTyped, line

LEMMA HistoryTypeInv ==
    ASSUME TypeInv, NEW s \in Shells, Save(s) \/ Wrap(s)
    PROVE  TypeInv'
<1>1. PICK to \in {"wrap", "command"} : pc' = [pc EXCEPT ![s] = to] BY Zenon DEF Save, Wrap, Goto
<1>2. UNCHANGED <<line, words, cwd, contexs, own, input, failed>> BY Zenon DEF Save, Wrap
<1>3. ContextsTyped' /\ pc' = [t \in Shells |-> pc'[t]] BY <1>1, <1>2, GoesOn
<1>4. LineTyped' /\ FullLine' BY <1>1, <1>2, LineStays
<1>5. HistTyped' BY DEF TypeInv, Typed, HistTyped, Save, Wrap, Wrapped
<1>. QED BY <1>2, <1>3, <1>4, <1>5 DEF TypeInv, Typed, WordsTyped, words

LEMMA CommandTypeInv ==
    ASSUME TypeInv, NEW s \in Shells, getCommandFromPrompt(s)
    PROVE  TypeInv'
<1>1. pc' = [pc EXCEPT ![s] = "flags"] BY Zenon DEF getCommandFromPrompt, Goto
<1>2. UNCHANGED <<line, flags, params, hist, cwd, contexs, own, input, failed>>
  BY Zenon DEF getCommandFromPrompt
<1>3. ContextsTyped' /\ pc' = [t \in Shells |-> pc'[t]] BY <1>1, <1>2, GoesOn
<1>4. LineTyped' /\ FullLine' BY <1>1, <1>2, LineStays
<1>5. command' \in Seq(Character) /\ Len(command') <= MaxComm + 1
  <2>. DEFINE Begins(i) == At(i) # " " /\ \A h \in 0 .. i - 1 : At(h) = " "
  <2>1. PICK b \in 0 .. MaxComm + 1 : b = CHOOSE i \in 0 .. MaxComm + 1 : Begins(i)
    <3>0. PICK last \in 0 .. MaxComm + 1 : last = MaxComm + 1 BY Sizes
    <3>1. PICK space : space = " " /\ At(last) # space
      <4>1. last \notin Place BY <3>0, Sizes DEF Place
      <4>2. At(last) = "NUL" BY <4>1 DEF At
      <4>3. "NUL" # " " OBVIOUS
      <4>. QED BY <4>2, <4>3
    <3>. DEFINE Letters == {i \in 0 .. MaxComm + 1 : At(i) # space}
    <3>2. Letters \in SUBSET Nat /\ Letters # {}
      <4>1. last \in Letters BY <3>1
      <4>2. 0 .. MaxComm + 1 \subseteq Nat BY Sizes
      <4>. QED BY <4>1, <4>2
    <3>3. PICK i \in Letters : \A h \in Letters : i <= h
      <4>. HIDE DEF Letters
      <4>. QED BY <3>2, SmallestExists
    <3>4. \A h \in 0 .. i - 1 : At(h) = space BY <3>3, Sizes
    <3>5. Begins(i) BY <3>1, <3>3, <3>4, Zenon
    <3>. HIDE DEF Begins
    <3>. QED BY <3>3, <3>5
  <2>2. PICK e \in b .. MaxComm + 1 : e = FirstOf(b, {" ", "NUL"})
    <3>1. \A chars : FirstOf(b, chars) \in b .. MaxComm + 1 BY FirstOfIs
    <3>. QED BY <3>1, Zenon
  <2>3. command' = Cut(b, e) BY <2>1, <2>2, Zenon DEF getCommandFromPrompt
  <2>4. LineTyped BY DEF TypeInv, Typed
  <2>5. b \in Nat /\ e \in Nat /\ b <= e BY Sizes
  <2>6. Cut(b, e) \in Seq(Character) /\ Len(Cut(b, e)) = e - b BY <2>4, <2>5, CutIsText
  <2>. QED BY <2>3, <2>5, <2>6, Sizes
<1>. QED BY <1>2, <1>3, <1>4, <1>5 DEF TypeInv, Typed, WordsTyped, HistTyped, hist

LEMMA BehindCommandIs ==
    ASSUME TypeInv
    PROVE  BehindCommand \in 0 .. MaxComm + 1
<1>1. command \in Seq(Character) /\ Len(command) <= MaxComm + 1 BY DEF TypeInv, Typed, WordsTyped
<1>2. Len(command) \in Nat BY <1>1
<1>. QED BY <1>1, <1>2, Sizes DEF BehindCommand

LEMMA FlagsTypeInv ==
    ASSUME TypeInv, NEW s \in Shells, getFlagsFromPrompt(s)
    PROVE  TypeInv'
<1>1. PICK to \in {"params", "lookup"} : pc' = [pc EXCEPT ![s] = to]
  BY Zenon DEF getFlagsFromPrompt, Goto
<1>2. UNCHANGED <<line, command, hist, cwd, contexs, own, input, failed>>
  BY Zenon DEF getFlagsFromPrompt
<1>3. ContextsTyped' /\ pc' = [t \in Shells |-> pc'[t]] BY <1>1, <1>2, GoesOn
<1>4. LineTyped' /\ FullLine' BY <1>1, <1>2, LineStays
<1>5. flags' \in Seq(Character) /\ params' \in Seq(Character)
  <2>1. PICK i \in 0 .. MaxComm + 1 : i = BehindCommand BY BehindCommandIs
  <2>2. LineTyped /\ params \in Seq(Character) BY DEF TypeInv, Typed, WordsTyped
  <2>3. PICK end \in 0 .. MaxComm + 1 : end = FirstOf(BehindCommand, {"NL", "NUL"})
    <3>1. \A chars : FirstOf(BehindCommand, chars) \in 0 .. MaxComm + 1
      BY <2>1, FirstOfIs, Sizes
    <3>. QED BY <3>1, Zenon
  <2>4. PICK dash \in 0 .. MaxComm + 1 : dash = FirstOf(BehindCommand, {"-", "NL", "NUL"})
    <3>1. \A chars : FirstOf(BehindCommand, chars) \in 0 .. MaxComm + 1
      BY <2>1, FirstOfIs, Sizes
    <3>. QED BY <3>1, Zenon
  <2>5. PICK stop : stop = FirstOf(dash + 1, {" ", "-", "NL", "NUL"}) OBVIOUS
  <2>6. /\ flags' = IF dash >= end THEN << >>
                    ELSE Cut(dash + 1, IF At(stop) = "-" THEN stop + 1 ELSE stop)
        /\ params' = IF dash < end /\ At(stop) = " " THEN ParamsFrom(stop) ELSE params
    BY <2>3, <2>4, <2>5, Zenon DEF getFlagsFromPrompt
  <2>7. CASE dash >= end
    <3>1. << >> \in Seq(Character) OBVIOUS
    <3>2. ~(dash < end) BY <2>7
    <3>3. flags' = << >> /\ params' = params BY <2>6, <2>7, <3>2, Zenon
    <3>. QED BY <2>2, <3>1, <3>3
  <2>8. CASE dash < end
    <3>1. dash + 1 \in 0 .. MaxComm + 1 BY <2>8, Sizes
    <3>2. stop \in dash + 1 .. MaxComm + 1
      <4>1. \A chars : FirstOf(dash + 1, chars) \in dash + 1 .. MaxComm + 1 BY <3>1, FirstOfIs
      <4>. QED BY <2>5, <4>1, Zenon
    <3>3. PICK over \in {stop, stop + 1} : flags' = Cut(dash + 1, over)
      <4>1. ~(dash >= end) BY <2>8
      <4>2. PICK over : over = (IF At(stop) = "-" THEN stop + 1 ELSE stop) OBVIOUS
      <4>3. flags' = Cut(dash + 1, over) BY <2>6, <4>1, <4>2, Zenon
      <4>4. over \in {stop, stop + 1} BY <4>2, Zenon
      <4>. QED BY <4>3, <4>4
    <3>4. over \in Nat /\ dash + 1 \in Nat /\ dash + 1 <= over BY <3>2, Sizes
    <3>5. flags' \in Seq(Character) BY <2>2, <3>3, <3>4, CutIsText
    <3>6. stop \in 0 .. MaxComm + 1 BY <3>2, Sizes
    <3>7. ParamsFrom(stop) \in Seq(Character) BY <2>2, <3>6, ParamsAreText
    <3>8. params' = params \/ params' = ParamsFrom(stop) BY <2>6, Zenon
    <3>. QED BY <2>2, <3>5, <3>7, <3>8
  <2>. QED BY <2>7, <2>8, Sizes
<1>. QED BY <1>2, <1>3, <1>4, <1>5 DEF TypeInv, Typed, WordsTyped, HistTyped, hist

LEMMA ParamsTypeInv ==
    ASSUME TypeInv, NEW s \in Shells, getParamsFromPrompt(s)
    PROVE  TypeInv'
<1>1. pc' = [pc EXCEPT ![s] = "lookup"] BY Zenon DEF getParamsFromPrompt, Goto
<1>2. UNCHANGED <<line, command, flags, hist, cwd, contexs, own, input, failed>>
  BY Zenon DEF getParamsFromPrompt
<1>3. ContextsTyped' /\ pc' = [t \in Shells |-> pc'[t]] BY <1>1, <1>2, GoesOn
<1>4. LineTyped' /\ FullLine' BY <1>1, <1>2, LineStays
<1>5. params' \in Seq(Character)
  BY BehindCommandIs, ParamsAreText DEF getParamsFromPrompt, TypeInv, Typed
<1>. QED BY <1>2, <1>3, <1>4, <1>5 DEF TypeInv, Typed, WordsTyped, HistTyped, hist

LEMMA ExecuteTypeInv ==
    ASSUME TypeInv, NEW s \in Shells, executeCommand(s)
    PROVE  TypeInv'
<1>1. UNCHANGED <<line, words, hist, cwd, contexs, slot, todo, child, input, failed>>
  BY Zenon DEF executeCommand
<1>2. PICK to \in {"context", "prompt"} :
         /\ pc' = [pc EXCEPT ![s] = to]
         /\ \/ to = "prompt" /\ code' = code
            \/ IsCommand(command) /\ code' = [code EXCEPT ![s] = command[1]]
  BY Zenon DEF executeCommand, Goto
<1>3. LineTyped' /\ FullLine' BY <1>1, <1>2, LineStays
<1>4. pc' = [t \in Shells |-> pc'[t]] BY <1>2, OneUpdated, Zenon DEF TypeInv, Typed
<1>5. ContextsTyped'
  <2>1. \A t \in Shells : pc'[t] = "args" => pc[t] = "args" BY <1>2 DEF TypeInv, Typed
  <2>2. CASE to = "prompt" /\ code' = code
    <3>1. \A t \in Shells : pc'[t] \in {"context", "init"} => pc[t] \in {"context", "init"}
      BY <1>2, <2>2 DEF TypeInv, Typed
    <3>. QED BY <1>1, <2>1, <2>2, <3>1 DEF TypeInv, Typed, ContextsTyped
  <2>3. CASE IsCommand(command) /\ code' = [code EXCEPT ![s] = command[1]]
    <3>1. PICK c \in DOMAIN Argument : c = command[1] BY <2>3 DEF IsCommand
    <3>2. code' = [code EXCEPT ![s] = c] BY <2>3, <3>1
    <3>3. code' \in [Shells -> DOMAIN Argument \cup {"none"}]
      BY <3>2 DEF TypeInv, Typed, ContextsTyped
    <3>4. \A t \in Shells : pc'[t] \in {"context", "init"} => code'[t] \in DOMAIN Argument
      BY <1>2, <3>2 DEF TypeInv, Typed, ContextsTyped
    <3>. QED BY <1>1, <2>1, <3>3, <3>4 DEF TypeInv, Typed, ContextsTyped
  <2>. QED BY <1>2, <2>2, <2>3
<1>. QED BY <1>1, <1>3, <1>4, <1>5 DEF TypeInv, Typed, WordsTyped, HistTyped, words, hist

LEMMA GetContextTypeInv ==
    ASSUME TypeInv, NEW s \in Shells, getContext(s)
    PROVE  TypeInv'
<1>1. UNCHANGED <<line, words, hist, cwd, contexs, code, todo, child, input, failed>>
  BY Zenon DEF getContext
<1>2. pc[s] = "context" BY DEF getContext
<1>3. PICK to \in {"lost", "init"} :
         /\ pc' = [pc EXCEPT ![s] = to]
         /\ \/ slot' = slot
            \/ /\ Free # {}
               /\ slot' = [slot EXCEPT ![s] = CHOOSE i \in Free : \A j \in Free : i <= j]
  BY Zenon DEF getContext, Goto
<1>4. LineTyped' /\ FullLine' BY <1>1, <1>3, LineStays
<1>5. pc' = [t \in Shells |-> pc'[t]] BY <1>3, OneUpdated, Zenon DEF TypeInv, Typed
<1>6. slot' \in [Shells -> Slot]
  <2>1. slot \in [Shells -> Slot] BY DEF TypeInv, Typed, ContextsTyped
  <2>2. ASSUME Free # {} PROVE (CHOOSE i \in Free : \A j \in Free : i <= j) \in Slot
    <3>1. Free \in SUBSET Nat /\ Free \subseteq Slot BY Sizes DEF Free, Slot
    <3>2. \E i \in Free : \A j \in Free : i <= j BY <2>2, <3>1, SmallestExists
    <3>. QED BY <3>1, <3>2
  <2>. QED BY <1>3, <2>1, <2>2
<1>7. ContextsTyped'
  <2>1. \A t \in Shells : pc'[t] = "args" => pc[t] = "args" BY <1>3 DEF TypeInv, Typed
  <2>2. \A t \in Shells : pc'[t] \in {"context", "init"} => pc[t] \in {"context", "init"}
    BY <1>2, <1>3 DEF TypeInv, Typed
  <2>. QED BY <1>1, <1>6, <2>1, <2>2 DEF TypeInv, Typed, ContextsTyped
<1>. QED BY <1>1, <1>4, <1>5, <1>7 DEF TypeInv, Typed, WordsTyped, HistTyped, words, hist

LEMMA InitContextTypeInv ==
    ASSUME TypeInv, NEW s \in Shells, initContext(s)
    PROVE  TypeInv'
<1>1. UNCHANGED <<line, words, hist, cwd, code, slot, child, input, failed>>
  BY Zenon DEF initContext
<1>2. pc' = [pc EXCEPT ![s] = "args"] BY Zenon DEF initContext, Goto
<1>3. PICK c \in DOMAIN Argument : c = code[s]
  BY DEF initContext, TypeInv, Typed, ContextsTyped
<1>4. LineTyped' /\ FullLine' BY <1>1, <1>2, LineStays
<1>5. pc' = [t \in Shells |-> pc'[t]] BY <1>2, OneUpdated, Zenon DEF TypeInv, Typed
<1>6. contexs' \in [Slot -> Context]
  <2>1. PICK empty \in Seq(Pointer) : empty = << >>
    <3>1. << >> \in Seq(Pointer) OBVIOUS
    <3>. QED BY <3>1
  <2>2. PICK r \in Context : r = [inUse |-> TRUE, process |-> c, argv |-> empty] BY DEF Context
  <2>3. contexs' = [contexs EXCEPT ![slot[s]] = r] BY <1>3, <2>1, <2>2, Zenon DEF initContext
  <2>. QED BY <2>3 DEF TypeInv, Typed, ContextsTyped
<1>7. PICK args \in Seq(Pointer) : args = <<c>> \o Argument[c] /\ args # << >>
  <2>1. Len(<<c>> \o Argument[c]) > 0
    <3>1. Len(Argument[c]) \in Nat /\ Len(<<c>>) = 1 BY ArgumentsArePointers
    <3>2. Argument[c] \in Seq(Pointer) /\ <<c>> \in Seq(Pointer)
      BY ArgumentsArePointers DEF Pointer
    <3>3. Len(<<c>> \o Argument[c]) = Len(<<c>>) + Len(Argument[c]) BY <3>2
    <3>. QED BY <3>1, <3>3
  <2>2. <<c>> \o Argument[c] # << >> BY <2>1
  <2>. QED BY <2>2, ArgumentsArePointers
<1>8. todo' = [todo EXCEPT ![s] = args] BY <1>3, <1>7, Zenon DEF initContext
<1>9. ContextsTyped'
  <2>1. \A t \in Shells : pc'[t] = "args" => todo'[t] # << >>
    BY <1>2, <1>7, <1>8 DEF TypeInv, Typed, ContextsTyped
  <2>2. \A t \in Shells : pc'[t] \in {"context", "init"} => pc[t] \in {"context", "init"}
    BY <1>2 DEF TypeInv, Typed
  <2>3. todo' \in [Shells -> Seq(Pointer)] BY <1>8 DEF TypeInv, Typed, ContextsTyped
  <2>. QED BY <1>1, <1>6, <2>1, <2>2, <2>3 DEF TypeInv, Typed, ContextsTyped
<1>. QED BY <1>1, <1>4, <1>5, <1>9 DEF TypeInv, Typed, WordsTyped, HistTyped, words, hist

LEMMA AppendedTyped ==
    ASSUME NEW S, NEW q \in Seq(S), NEW e \in S
    PROVE  Append(q, e) \in Seq(S)
OBVIOUS

LEMMA AddArgTypeInv ==
    ASSUME TypeInv, NEW s \in Shells, contextAddArg(s)
    PROVE  TypeInv'
<1>1. UNCHANGED <<line, words, hist, cwd, code, slot, child, input, failed>>
  BY Zenon DEF contextAddArg
<1>2. PICK to \in {"create", "args"} :
         pc' = [pc EXCEPT ![s] = to] /\ (to = "args" => Len(todo[s]) # 1)
  BY Zenon DEF contextAddArg, Goto
<1>3. todo[s] \in Seq(Pointer) /\ todo[s] # << >>
  BY DEF contextAddArg, TypeInv, Typed, ContextsTyped
<1>4. LineTyped' /\ FullLine' BY <1>1, <1>2, LineStays
<1>5. pc' = [t \in Shells |-> pc'[t]] BY <1>2, OneUpdated, Zenon DEF TypeInv, Typed
<1>6. PICK rest \in Seq(Pointer) : rest = Tail(todo[s]) /\ (Len(todo[s]) # 1 => rest # << >>)
  <2>1. PICK q \in Seq(Pointer) : q = todo[s] /\ q # << >> BY <1>3
  <2>2. Tail(q) \in Seq(Pointer) /\ Len(Tail(q)) = Len(q) - 1 /\ Len(q) \in Nat BY <2>1
  <2>3. Len(q) # 0 BY <2>1
  <2>4. Len(q) # 1 => Tail(q) # << >>
    <3>1. Len(q) # 1 => Len(Tail(q)) # 0 BY <2>2, <2>3
    <3>2. Tail(q) = << >> => Len(Tail(q)) = 0
      <4>1. Len(<< >>) = 0 OBVIOUS
      <4>. QED BY <4>1, Zenon
    <3>. QED BY <3>1, <3>2
  <2>. QED BY <2>1, <2>2, <2>4
<1>7. todo' = [todo EXCEPT ![s] = rest] BY <1>6, Zenon DEF contextAddArg
<1>8. contexs' \in [Slot -> Context]
  <2>1. contexs \in [Slot -> Context] /\ slot[s] \in Slot BY DEF TypeInv, Typed, ContextsTyped
  <2>2. CASE contexs' = contexs BY <2>1, <2>2
  <2>3. CASE contexs' # contexs
    <3>1. PICK x \in Seq(Pointer) : x = Append(contexs[slot[s]].argv, Head(todo[s]))
      <4>1. PICK a \in Seq(Pointer) : a = contexs[slot[s]].argv BY <2>1 DEF Context
      <4>2. PICK h \in Pointer : h = Head(todo[s]) BY <1>3
      <4>3. Append(a, h) \in Seq(Pointer) BY AppendedTyped
      <4>. QED BY <4>1, <4>2, <4>3, Zenon
    <3>2. PICK r : r = [contexs[slot[s]] EXCEPT !.argv = x] OBVIOUS
    <3>3. r \in Context BY <2>1, <3>2 DEF Context
    <3>4. contexs' = [contexs EXCEPT ![slot[s]] = r]
      BY <2>3, <3>1, <3>2, Zenon DEF contextAddArg
    <3>. QED BY <2>1, <3>3, <3>4
  <2>. QED BY <2>2, <2>3
<1>9. ContextsTyped'
  <2>1. \A t \in Shells : pc'[t] = "args" => todo'[t] # << >>
    BY <1>2, <1>6, <1>7 DEF TypeInv, Typed, ContextsTyped
  <2>2. \A t \in Shells : pc'[t] \in {"context", "init"} => pc[t] \in {"context", "init"}
    BY <1>2 DEF TypeInv, Typed
  <2>3. todo' \in [Shells -> Seq(Pointer)] BY <1>7 DEF TypeInv, Typed, ContextsTyped
  <2>. QED BY <1>1, <1>8, <2>1, <2>2, <2>3 DEF TypeInv, Typed, ContextsTyped
<1>. QED BY <1>1, <1>4, <1>5, <1>9 DEF TypeInv, Typed, WordsTyped, HistTyped, words, hist

LEMMA ContentIsText ==
    ASSUME WordsTyped, NEW x \in Pointer
    PROVE  Content(x) \in Seq(Character)
<1>1. CASE x \in {"flags", "params", "cwd"} BY <1>1 DEF Content, WordsTyped
<1>2. CASE x \notin {"flags", "params", "cwd"}
  <2>1. x \in Character BY <1>2 DEF Pointer, Character
  <2>2. Content(x) = <<x>> BY <1>2 DEF Content
  <2>. QED BY <2>1, <2>2
<1>. QED BY <1>1, <1>2

LEMMA CreateTypeInv ==
    ASSUME TypeInv, NEW s \in Shells, contextCreate(s)
    PROVE  TypeInv'
<1>1. UNCHANGED <<line, words, hist, cwd, code, slot, todo, input>> BY Zenon DEF contextCreate
<1>2. pc' = [pc EXCEPT ![s] = "wait"] BY Zenon DEF contextCreate, Goto
<1>3. LineTyped' /\ FullLine' BY <1>1, <1>2, LineStays
<1>4. pc' = [t \in Shells |-> pc'[t]] BY <1>2, OneUpdated, Zenon DEF TypeInv, Typed
<1>5. /\ child \in [Shells -> Child] /\ contexs \in [Slot -> Context] /\ slot[s] \in Slot
      /\ failed \in 0 .. MaxFailures
  BY DEF TypeInv, Typed, ContextsTyped
<1>6. child' \in [Shells -> Child] /\ contexs' \in [Slot -> Context] /\ failed' \in 0 .. MaxFailures
  <2>1. CASE failed < MaxFailures /\ failed' = failed + 1 /\ UNCHANGED <<contexs, child>>
    BY <1>5, <2>1, Sizes
  <2>2. CASE ~(failed < MaxFailures /\ failed' = failed + 1 /\ UNCHANGED <<contexs, child>>)
    <3>1. PICK c \in Context : c = contexs[slot[s]] BY <1>5
    <3>2. c.argv \in Seq(Pointer) /\ c.process \in DOMAIN Argument \cup {"none"}
      BY DEF Context
    <3>3. PICK n \in Nat : c.argv \in [1 .. n -> Pointer] BY <3>2
    <3>4. PICK x : x = [a \in DOMAIN c.argv |-> Content(c.argv[a])] OBVIOUS
    <3>5. x \in Seq(Seq(Character))
      <4>1. \A a \in 1 .. n : Content(c.argv[a]) \in Seq(Character)
        BY <3>3, ContentIsText DEF TypeInv, Typed
      <4>2. x \in [1 .. n -> Seq(Character)] BY <3>3, <3>4, <4>1
      <4>. QED BY <4>2
    <3>6. PICK r \in Child : r = [process |-> c.process, argv |-> x] BY <3>2, <3>5 DEF Child
    <3>7. /\ child' = [child EXCEPT ![s] = r] /\ failed' = failed
          /\ contexs' = [contexs EXCEPT ![slot[s]] = Destroyed(contexs[slot[s]])]
      BY <2>2, <3>1, <3>4, <3>6, Zenon DEF contextCreate
    <3>8. Destroyed(c) \in Context BY DEF Destroyed, Context
    <3>. QED BY <1>5, <3>1, <3>7, <3>8
  <2>. QED BY <2>1, <2>2
<1>7. ContextsTyped'
  <2>1. \A t \in Shells : pc'[t] = "args" => pc[t] = "args" BY <1>2 DEF TypeInv, Typed
  <2>2. \A t \in Shells : pc'[t] \in {"context", "init"} => pc[t] \in {"context", "init"}
    BY <1>2 DEF TypeInv, Typed
  <2>. QED BY <1>1, <1>6, <2>1, <2>2 DEF TypeInv, Typed, ContextsTyped
<1>. QED BY <1>1, <1>3, <1>4, <1>7 DEF TypeInv, Typed, WordsTyped, HistTyped, words, hist

LEMMA NoneIsChild == None \in Child
<1>1. PICK empty \in Seq(Seq(Character)) : empty = << >>
  <2>1. << >> \in Seq(Seq(Character)) OBVIOUS
  <2>. QED BY <2>1
<1>2. None = [process |-> "none", argv |-> empty] BY <1>1, Zenon DEF None
<1>. QED BY <1>2 DEF Child

LEMMA WaitTypeInv ==
    ASSUME TypeInv, NEW s \in Shells, Wait(s)
    PROVE  TypeInv'
<1>1. UNCHANGED <<line, words, hist, contexs, code, slot, todo, input, failed>> BY Zenon DEF Wait
<1>2. pc' = [pc EXCEPT ![s] = "prompt"] BY Zenon DEF Wait, Goto
<1>3. LineTyped' /\ FullLine' BY <1>1, <1>2, LineStays
<1>4. pc' = [t \in Shells |-> pc'[t]] BY <1>2, OneUpdated, Zenon DEF TypeInv, Typed
<1>5. WordsTyped'
  <2>1. cwd' = cwd \/ cwd' \in Dirs BY Zenon DEF Wait
  <2>. QED BY <1>1, <2>1, TextAssumption DEF TypeInv, Typed, WordsTyped, words
<1>6. ContextsTyped'
  <2>1. \A t \in Shells : pc'[t] = "args" => pc[t] = "args" BY <1>2 DEF TypeInv, Typed
  <2>2. \A t \in Shells : pc'[t] \in {"context", "init"} => pc[t] \in {"context", "init"}
    BY <1>2 DEF TypeInv, Typed
  <2>3. child' = [child EXCEPT ![s] = None] BY Zenon DEF Wait
  <2>4. child' \in [Shells -> Child] BY <2>3, NoneIsChild DEF TypeInv, Typed, ContextsTyped
  <2>. QED BY <1>1, <2>1, <2>2, <2>4 DEF TypeInv, Typed, ContextsTyped
<1>. QED BY <1>1, <1>3, <1>4, <1>5, <1>6 DEF TypeInv, Typed, HistTyped, hist

LEMMA InitTypeInv == Init => TypeInv
<1> SUFFICES ASSUME Init PROVE TypeInv OBVIOUS
<1>1. LineTyped
  <2>1. shellBuffer \in [Place -> Character] BY DEF Init, Character
  <2>2. input \in [Shells -> Seq(TypedKey)] BY TextAssumption DEF Init
  <2>. QED BY <2>1, <2>2 DEF Init, LineTyped
<1>2. WordsTyped
  <2>1. << >> \in Seq(Character) /\ Len(<< >>) = 0 OBVIOUS
  <2>2. command = << >> /\ flags = << >> /\ params = << >> /\ cwd = << >> BY DEF Init
  <2>. QED BY <2>1, <2>2, Sizes DEF WordsTyped
<1>3. ContextsTyped
  <2>1. PICK empty \in Seq(Pointer) : empty = << >>
    <3>1. << >> \in Seq(Pointer) OBVIOUS
    <3>. QED BY <3>1
  <2>2. PICK r \in Context : r = [inUse |-> FALSE, process |-> "none", argv |-> empty]
    BY DEF Context
  <2>3. contexs = [i \in Slot |-> r] BY <2>1, <2>2, Zenon DEF Init
  <2>4. todo = [s \in Shells |-> empty] BY <2>1, Zenon DEF Init
  <2>5. child \in [Shells -> Child] BY NoneIsChild DEF Init
  <2>6. 0 \in Slot BY Sizes DEF Slot
  <2>7. slot \in [Shells -> Slot] BY <2>6 DEF Init
  <2>8. code \in [Shells -> DOMAIN Argument \cup {"none"}] BY DEF Init
  <2>9. failed \in 0 .. MaxFailures BY Sizes DEF Init
  <2>10. \A s \in Shells : pc[s] = "prompt" BY DEF Init
  <2>. QED BY <2>3, <2>4, <2>5, <2>7, <2>8, <2>9, <2>10 DEF ContextsTyped
<1>4. FullLine BY Sizes DEF Init, FullLine
<1>. QED BY <1>1, <1>2, <1>3, <1>4 DEF Init, TypeInv, Typed, HistTyped

LEMMA NextTypeInv == TypeInv /\ [Next]_vars => TypeInv'
<1> SUFFICES ASSUME TypeInv, [Next]_vars PROVE TypeInv' OBVIOUS
<1>1. CASE UNCHANGED vars
  <2>1. Readers' = Readers /\ index' = index BY <1>1 DEF vars, line, Readers
  <2>2. FullLine' BY <2>1 DEF TypeInv, FullLine
  <2>. QED BY <1>1, <2>2 DEF vars, line, words, hist, own, TypeInv, Typed, LineTyped, WordsTyped,
          HistTyped, ContextsTyped
<1>2. ASSUME NEW s \in Shells, Step(s) PROVE TypeInv'
  <2>1. CASE Prompt(s) \/ Key(s) \/ EndLine(s) \/ commitCommand(s) \/ Save(s) \/ Wrap(s)
    BY <2>1, PromptTypeInv, KeyTypeInv, EndLineTypeInv, CommitTypeInv, HistoryTypeInv
  <2>2. CASE getCommandFromPrompt(s) \/ getFlagsFromPrompt(s) \/ getParamsFromPrompt(s)
    BY <2>2, CommandTypeInv, FlagsTypeInv, ParamsTypeInv
  <2>3. CASE executeCommand(s) \/ getContext(s) \/ Wait(s)
    BY <2>3, ExecuteTypeInv, GetContextTypeInv, WaitTypeInv
  <2>4. CASE initContext(s) \/ contextAddArg(s) \/ contextCreate(s)
    BY <2>4, InitContextTypeInv, AddArgTypeInv, CreateTypeInv
  <2>. QED BY <1>2, <2>1, <2>2, <2>3, <2>4 DEF Step
<1>. QED BY <1>1, <1>2 DEF Next

\* The line runs over its end by no more places than other shells were waiting
\* for a key when it was full; the words found in it, wherever the searches end,
\* and the arguments of the contexts have their types (getCommand,
\* getCommandFromPrompt, getFlagsFromPrompt, getParamsFromPrompt, contextAddArg).
THEOREM ShellTypes == Spec => []TypeOK
<1>1. TypeInv => TypeOK
  <2> SUFFICES ASSUME TypeInv PROVE TypeOK OBVIOUS
  <2>1. index \in 0 .. MaxComm + Cardinality(Shells) - 1
    <3>1. index \in Nat BY DEF TypeInv, Typed, LineTyped
    <3>2. CASE index < MaxComm BY <3>1, <3>2, ReadersCount, Sizes
    <3>3. CASE index >= MaxComm
      <4>1. index + Cardinality(Readers) <= MaxComm + Cardinality(Shells) - 1
        BY <3>3 DEF TypeInv, FullLine
      <4>. QED BY <3>1, <4>1, ReadersCount, Sizes
    <3>. QED BY <3>1, <3>2, <3>3, Sizes
  <2>2. contexs \in [Slot -> Context] BY DEF TypeInv, Typed, ContextsTyped
  <2>. QED BY <2>1, <2>2 DEF TypeInv, Typed, LineTyped, WordsTyped, HistTyped, ContextsTyped,
          TypeOK, Context, Pointer
<1>. QED BY InitTypeInv, NextTypeInv, <1>1, PTL DEF Spec

=============================================================================
