-------------------------------- MODULE Shell --------------------------------
(***************************************************************************)
(* The shells of the terminals (shell.c) and the execution contexts they   *)
(* create commands from (process.c).  Every shell runs the same code over  *)
(* the same static variables, with interrupts enabled: the line, its       *)
(* index, the words found in it, the history and the working directory are *)
(* those of all terminals.  A step below ends where another shell's step   *)
(* makes a difference: at each key read, and between the routines that     *)
(* read a line, take it apart and fill a context.                          *)
(*                                                                         *)
(* Keys are read one by one.  A command is one letter: "d" is cd (cat,     *)
(* open and mkdir take the same arguments), "r" is rm (and write), "l" is  *)
(* ls (and tree).                                                          *)
(***************************************************************************)
EXTENDS Integers, Sequences, FiniteSets, SequencesExt

CONSTANTS Shells,
          MaxComm,       \* MAX_COMM_LENGTH
          MaxHist,       \* MAX_COMMANDS_HIST
          CantContexts,  \* MAX_PROCESS_CONTEXTS
          MaxArgs,       \* MAX_PROCESS_ARGS
          Dirs,          \* the names cd finds
          Inputs,        \* bound: what may be typed at the terminals
          MaxFailures    \* bound: the creations that find no page

ASSUME ShellAssumption ==
    /\ MaxComm \in Nat /\ MaxComm > 2
    /\ {MaxHist, CantContexts, MaxArgs} \subseteq Nat \ {0} /\ MaxFailures \in Nat
    /\ IsFiniteSet(Shells)

Place == 0 .. MaxComm          \* shellBuffer, one longer than a line
Slot == 0 .. CantContexts - 1
Argument == [d |-> <<"params">>, r |-> <<"flags", "params">>, l |-> <<"cwd">>]
IsCommand(word) == Len(word) = 1 /\ word[1] \in DOMAIN Argument
None == [process |-> "none", argv |-> <<>>]

\* What a line holds, and what a terminal's keyboard gives.
Character == {"NUL", "NL", " ", "-"} \cup DOMAIN Argument
Arrows == {"UP", "DOWN", "LEFT", "RIGHT"}
TypedKey == (Character \ {"NUL"}) \cup Arrows \cup {"BS", "TAB"}

ASSUME TextAssumption ==
    Inputs \subseteq [Shells -> Seq(TypedKey)] /\ Dirs \subseteq Seq(Character)

VARIABLES shellBuffer, index, command, flags, params, hist_index, hist_pos,
          cwd,       \* currentWorkingDir
          contexs,   \* the execution contexts
          pc,        \* pc[s]: where shell s is
          code,      \* code[s]: the command that s found in its line
          slot,      \* slot[s]: the context s works on
          todo,      \* todo[s]: the arguments s still has to add
          child,     \* child[s]: the process s waits for
          input,     \* input[s]: the keys still to be typed at s
          failed,    \* the creations that found no page
          typed,     \* history: the line as the user of s has edited it
          shown,     \* history: the directory in the prompt of s
          alone      \* history: since its prompt, no other shell has touched
                     \* the line, the directory or the context of s

line == <<shellBuffer, index>>
words == <<command, flags, params>>
hist == <<hist_index, hist_pos>>
own == <<code, slot, todo, child>>
seen == <<typed, shown>>
vars == <<line, words, hist, cwd, contexs, pc, own, input, failed, seen, alone>>

Init ==
    /\ shellBuffer = [i \in Place |-> "NUL"] /\ index = 0
    /\ command = <<>> /\ flags = <<>> /\ params = <<>>
    /\ hist_index = 0 /\ hist_pos = 0
    /\ cwd = <<>>
    /\ contexs = [i \in Slot |-> [inUse |-> FALSE, process |-> "none", argv |-> <<>>]]
    /\ pc = [s \in Shells |-> "prompt"]
    /\ code = [s \in Shells |-> "none"]
    /\ slot = [s \in Shells |-> 0]
    /\ todo = [s \in Shells |-> <<>>]
    /\ child = [s \in Shells |-> None]
    /\ input \in Inputs
    /\ failed = 0
    /\ typed = [s \in Shells |-> <<>>]
    /\ shown = [s \in Shells |-> <<>>]
    /\ alone = [s \in Shells |-> FALSE]

Goto(s, label) == pc' = [pc EXCEPT ![s] = label]

\* What s wrote is another's too; what the user of s sees is his only as long
\* as nobody else does so.
Disturb(s) == alone' = [t \in Shells |-> t = s /\ alone[s]]

-----------------------------------------------------------------------------
(* Reading a line.                                                         *)

\* The buffer is cleared; the prompt shows the directory.  (Bound: not if
\* nothing more is typed at the terminal.)
Prompt(s) ==
    /\ pc[s] = "prompt"
    /\ input[s] # <<>>
    /\ shellBuffer' = [i \in Place |-> "NUL"] /\ index' = 0
    /\ typed' = [typed EXCEPT ![s] = <<>>]
    /\ shown' = [shown EXCEPT ![s] = cwd]
    /\ alone' = [t \in Shells |-> t = s]
    /\ Goto(s, "read")
    /\ UNCHANGED <<words, hist, cwd, contexs, own, input, failed>>

\* A character behind the buffer is written into other memory.
Store(buffer, i, k) == IF i \in Place THEN [buffer EXCEPT ![i] = k] ELSE buffer

\* An arrow takes the line back and moves in the history, of which nothing is shown.
fetchCommand(k) ==
    /\ index' = IF k \in {"UP", "DOWN"} THEN 0 ELSE index
    /\ hist_pos' = CASE k = "UP" -> (IF hist_pos = 0 THEN MaxHist ELSE hist_pos) - 1
                     [] k = "DOWN" -> (IF hist_pos = MaxHist - 1 THEN -1 ELSE hist_pos) + 1
                     [] OTHER -> hist_pos
    /\ UNCHANGED shellBuffer

\* What the user of s makes of his line with a key.
Edited(l, k) ==
    CASE k \in {"UP", "DOWN"} -> <<>>
      [] k = "BS" -> IF l = <<>> THEN l ELSE Front(l)
      [] k \in {"LEFT", "RIGHT", "TAB"} -> l
      [] OTHER -> Append(l, k)

\* mutation: a line ends with its newline only
LineEnds_NoLimit(k, i) == k = "NL"

LineEnds(k, i) == k = "NL" \/ i >= MaxComm

\* s has read a key; the line ends with a newline, or at its limit.
Key(s) ==
    /\ pc[s] = "read"
    /\ input[s] # <<>>
    /\ input' = [input EXCEPT ![s] = Tail(@)]
    /\ LET k == Head(input[s])
       IN  /\ IF k \in Arrows THEN fetchCommand(k)
              ELSE /\ shellBuffer' = IF k \in {"BS", "TAB"} THEN shellBuffer
                                     ELSE Store(shellBuffer, index, k)
                   /\ index' = CASE k = "BS" -> IF index > 0 THEN index - 1 ELSE index
                                 [] k = "TAB" -> index
                                 [] OTHER -> index + 1
                   /\ UNCHANGED hist_pos
           /\ Goto(s, IF LineEnds(k, index') THEN "line" ELSE "read")
           /\ typed' = [typed EXCEPT ![s] = Edited(@, k)]
    /\ Disturb(s)
    /\ UNCHANGED <<words, hist_index, cwd, contexs, own, failed, shown>>

\* An empty line is read again, behind another prompt.
EndLine(s) ==
    /\ pc[s] = "line"
    /\ index' = IF index <= 1 THEN 0 ELSE index
    /\ Goto(s, IF index' = 0 THEN "read" ELSE "commit")
    /\ typed' = [typed EXCEPT ![s] = IF index' = 0 THEN <<>> ELSE @]
    /\ shown' = [shown EXCEPT ![s] = IF index' = 0 THEN cwd ELSE @]
    /\ Disturb(s)
    /\ UNCHANGED <<shellBuffer, words, hist, cwd, contexs, own, input, failed>>

\* The newline is removed, and behind it the line copied to the history.
commitCommand(s) ==
    /\ pc[s] = "commit"
    /\ shellBuffer' = IF index > 1 /\ index - 1 \in Place /\ shellBuffer[index - 1] = "NL"
                      THEN [shellBuffer EXCEPT ![index - 1] = "NUL"] ELSE shellBuffer
    /\ Goto(s, IF index > 1 THEN "save" ELSE "command")
    /\ Disturb(s)
    /\ UNCHANGED <<index, words, hist, cwd, contexs, own, input, failed, seen>>

\* The next line of the history; another shell may step in before it is
\* brought back to the first.
Save(s) ==
    /\ pc[s] = "save"
    /\ hist_index' = hist_index + 1
    /\ Goto(s, "wrap")
    /\ UNCHANGED <<line, words, hist_pos, cwd, contexs, own, input, failed, seen, alone>>

\* mutation: the index is brought back one line late
Wrapped_Late(i) == IF i > MaxHist THEN 0 ELSE i

Wrapped(i) == IF i = MaxHist THEN 0 ELSE i

Wrap(s) ==
    /\ pc[s] = "wrap"
    /\ hist_index' = Wrapped(hist_index)
    /\ hist_pos' = hist_index'
    /\ Goto(s, "command")
    /\ UNCHANGED <<line, words, cwd, contexs, own, input, failed, seen, alone>>

-----------------------------------------------------------------------------
(* Taking the line apart.                                                  *)

At(i) == IF i \in Place THEN shellBuffer[i] ELSE "NUL"

\* The first place from i on that holds one of the characters, or the end.
FirstOf(i, chars) ==
    CHOOSE j \in i .. MaxComm + 1 :
        /\ j = MaxComm + 1 \/ At(j) \in chars
        /\ \A h \in i .. j - 1 : At(h) \notin chars

Cut(i, j) == [h \in 1 .. j - i |-> At(i + h - 1)]

\* The first word, behind the blanks the line begins with.
getCommandFromPrompt(s) ==
    /\ pc[s] = "command"
    /\ LET blanks == CHOOSE i \in 0 .. MaxComm + 1 :
                         At(i) # " " /\ \A h \in 0 .. i - 1 : At(h) = " "
       IN  command' = Cut(blanks, FirstOf(blanks, {" ", "NUL"}))
    /\ Goto(s, "flags")
    /\ Disturb(s)
    /\ UNCHANGED <<line, flags, params, hist, cwd, contexs, own, input, failed, seen>>

Ascending(places) == SetToSortSeq(places, <)

\* From place i on, what stands behind the first blank; of several blanks one
\* is kept.
ParamsFrom(i) ==
    LET end   == FirstOf(i, {"NL", "NUL"})
        blank == FirstOf(i, {" "})
        kept  == {j \in blank + 1 .. end - 1 : At(j) # " " \/ At(j - 1) # " "}
    IN  [n \in 1 .. Cardinality(kept) |-> At(Ascending(kept)[n])]

\* mutation: the words are looked for from the first place of the line
BehindCommand_Zero == 0

\* Where the search for flags and parameters begins: as many places behind the
\* start of the line as the command has letters.
BehindCommand == Len(command)

\* What stands behind the first "-", up to a blank or another "-".  Parameters
\* are looked for behind the flags if a blank ends them, and later from the
\* command on if there are none; else they stay those of an earlier command.
getFlagsFromPrompt(s) ==
    /\ pc[s] = "flags"
    /\ LET end   == FirstOf(BehindCommand, {"NL", "NUL"})
           dash  == FirstOf(BehindCommand, {"-", "NL", "NUL"})
           stop  == FirstOf(dash + 1, {" ", "-", "NL", "NUL"})
           found == IF dash >= end THEN <<>>
                    ELSE Cut(dash + 1, IF At(stop) = "-" THEN stop + 1 ELSE stop)
       IN  /\ flags' = found
           /\ params' = IF dash < end /\ At(stop) = " " THEN ParamsFrom(stop) ELSE params
           /\ Goto(s, IF found = <<>> THEN "params" ELSE "lookup")
    /\ Disturb(s)
    /\ UNCHANGED <<line, command, hist, cwd, contexs, own, input, failed, seen>>

getParamsFromPrompt(s) ==
    /\ pc[s] = "params"
    /\ params' = ParamsFrom(BehindCommand)
    /\ Goto(s, "lookup")
    /\ Disturb(s)
    /\ UNCHANGED <<line, command, flags, hist, cwd, contexs, own, input, failed, seen>>

\* Nothing runs for a word that names no command.
executeCommand(s) ==
    /\ pc[s] = "lookup"
    /\ IF IsCommand(command)
       THEN /\ code' = [code EXCEPT ![s] = command[1]]
            /\ Goto(s, "context")
       ELSE Goto(s, "prompt") /\ UNCHANGED code
    /\ UNCHANGED <<line, words, hist, cwd, contexs, slot, todo, child, input, failed, seen, alone>>

-----------------------------------------------------------------------------
(* Running a command.                                                      *)

Free == {i \in Slot : ~contexs[i].inUse}

\* The shells between the search for a context and the creation.
Holding == {s \in Shells : pc[s] \in {"init", "args", "create"}}

\* The first context not in use.  With none, the arguments go behind the
\* array and to address 0, and what is created is not a process.
getContext(s) ==
    /\ pc[s] = "context"
    /\ IF Free = {} THEN Goto(s, "lost") /\ UNCHANGED <<slot, alone>>
       ELSE LET i == CHOOSE i \in Free : \A j \in Free : i <= j
                sharers == {t \in Holding : slot[t] = i}
            IN  /\ slot' = [slot EXCEPT ![s] = i]
                /\ alone' = [t \in Shells |-> alone[t] /\ (sharers = {} \/ t \notin sharers \cup {s})]
                /\ Goto(s, "init")
    /\ UNCHANGED <<line, words, hist, cwd, contexs, code, todo, child, input, failed, seen>>

initContext(s) ==
    /\ pc[s] = "init"
    /\ contexs' = [contexs EXCEPT ![slot[s]] = [inUse |-> TRUE, process |-> code[s], argv |-> <<>>]]
    /\ todo' = [todo EXCEPT ![s] = <<code[s]>> \o Argument[code[s]]]
    /\ Goto(s, "args")
    /\ UNCHANGED <<line, words, hist, cwd, code, slot, child, input, failed, seen, alone>>

\* An argument is a pointer: to the name, or to what all shells write.
contextAddArg(s) ==
    /\ pc[s] = "args"
    /\ contexs' = IF Len(contexs[slot[s]].argv) > MaxArgs THEN contexs
                  ELSE [contexs EXCEPT ![slot[s]].argv = Append(@, Head(todo[s]))]
    /\ todo' = [todo EXCEPT ![s] = Tail(@)]
    /\ Goto(s, IF Len(todo[s]) = 1 THEN "create" ELSE "args")
    /\ UNCHANGED <<line, words, hist, cwd, code, slot, child, input, failed, seen, alone>>

Content(pointer) ==
    CASE pointer = "flags" -> flags
      [] pointer = "params" -> params
      [] pointer = "cwd" -> cwd
      [] OTHER -> <<pointer>>

\* mutation: a context is given back by the next getContext only
Destroyed_Never(context) == context

\* contextDestroy
Destroyed(context) == [context EXCEPT !.inUse = FALSE]

\* The process gets copies of what its arguments point to.  Without a page
\* there is no process and the context stays in use.
contextCreate(s) ==
    /\ pc[s] = "create"
    /\ \/ LET c == contexs[slot[s]]
          IN  /\ child' = [child EXCEPT ![s] = [process |-> c.process,
                               argv |-> [a \in DOMAIN c.argv |-> Content(c.argv[a])]]]
              /\ contexs' = [contexs EXCEPT ![slot[s]] = Destroyed(@)]
              /\ UNCHANGED failed
       \/ /\ failed < MaxFailures
          /\ failed' = failed + 1
          /\ UNCHANGED <<contexs, child>>
    /\ Goto(s, "wait")
    /\ UNCHANGED <<line, words, hist, cwd, code, slot, todo, input, seen, alone>>

\* waitpid: the command runs and exits; with no child it returns at once.
Wait(s) ==
    /\ pc[s] = "wait"
    /\ IF child[s].process = "d" /\ Len(child[s].argv) > 1 /\ child[s].argv[2] \in Dirs
       THEN cwd' = child[s].argv[2] /\ Disturb(s)
       ELSE UNCHANGED <<cwd, alone>>
    /\ child' = [child EXCEPT ![s] = None]
    /\ Goto(s, "prompt")
    /\ UNCHANGED <<line, words, hist, contexs, code, slot, todo, input, failed, seen>>

Step(s) ==
    \/ Prompt(s) \/ Key(s) \/ EndLine(s) \/ commitCommand(s) \/ Save(s) \/ Wrap(s)
    \/ getCommandFromPrompt(s) \/ getFlagsFromPrompt(s) \/ getParamsFromPrompt(s)
    \/ executeCommand(s) \/ getContext(s) \/ initContext(s) \/ contextAddArg(s)
    \/ contextCreate(s) \/ Wait(s)

Next == \E s \in Shells : Step(s)

Spec == Init /\ [][Next]_vars

-----------------------------------------------------------------------------
(* Correctness.                                                            *)

\* The shared variables have their types, and the line grows over its end by
\* no more than one place for each other shell that waited for a key when it
\* was full (getCommand, whose test of the index is not its write).
TypeOK ==
    /\ shellBuffer \in [Place -> Character]
    /\ index \in 0 .. MaxComm + Cardinality(Shells) - 1
    /\ {command, flags, params, cwd} \subseteq Seq(Character)
    /\ hist_index \in Nat /\ hist_pos \in Int
    /\ contexs \in [Slot -> [inUse : BOOLEAN, process : DOMAIN Argument \cup {"none"},
                             argv : Seq({"flags", "params", "cwd"} \cup DOMAIN Argument)]]
    /\ slot \in [Shells -> Slot]
    /\ failed \in 0 .. MaxFailures

\* The words of a line, and words with one blank between them.
Words(l) ==
    SelectSeq(FoldLeft(LAMBDA ws, c : IF c = " " THEN Append(ws, <<>>)
                                      ELSE [ws EXCEPT ![Len(ws)] = Append(@, c)], <<<<>>>>, l),
              LAMBDA w : w # <<>>)

Joined(ws) == FoldLeft(LAMBDA l, w : IF l = <<>> THEN w ELSE l \o <<" ">> \o w, <<>>, ws)

Text(l) == SelectSeq(l, LAMBDA c : c # "NL")
HasFlags(ws) == Len(ws) > 1 /\ ws[2][1] = "-"

\* A line that the shell takes apart as it reads: no more blanks before the
\* command than it has letters and none behind the last word, and "-" only
\* before one word of flags, which is not the last.
WellFormed(l) ==
    LET ws == Words(l)
    IN  /\ ws # <<>> /\ Last(l) # " "
        /\ Len(ws[1]) >= (CHOOSE n \in 1 .. Len(l) : l[n] # " " /\ \A m \in 1 .. n - 1 : l[m] = " ") - 1
        /\ \A c \in 1 .. Len(ws[1]) : ws[1][c] # "-"
        /\ IF HasFlags(ws) THEN Len(ws) > 2 /\ Len(ws[2]) > 1 /\ \A c \in 2 .. Len(ws[2]) : ws[2][c] # "-"
           ELSE \A w \in 2 .. Len(ws) : \A c \in 1 .. Len(ws[w]) : ws[w][c] # "-"

\* What a line asks for in directory dir.
Asked(l, dir) ==
    LET ws    == Words(l)
        rest  == SubSeq(ws, IF HasFlags(ws) THEN 3 ELSE 2, Len(ws))
        value == [params |-> Joined(rest), cwd |-> dir,
                  flags |-> IF HasFlags(ws) THEN Tail(ws[2]) ELSE <<>>]
        argument == Argument[ws[1][1]]
    IN  [process |-> ws[1][1], argv |-> <<ws[1]>> \o [a \in DOMAIN argument |-> value[argument[a]]]]

\* The command that runs is the one its user typed, with the words he typed
\* and in the directory his prompt showed, whatever he took back on the way,
\* if no other shell has since written the line or the words, changed the
\* directory, or taken the same free context (getCommand, xxxComm,
\* contextCreate).
RunsWhatWasTyped ==
    \A s \in Shells :
        LET text == Text(typed[s])
        IN  child[s] # None /\ alone[s] /\ WellFormed(text)
                => IsCommand(Words(text)[1]) /\ child[s] = Asked(text, shown[s])

\* Every context in use is one that a shell is filling, but for as many as
\* creations found no page: however the shells share contexts, commands that
\* start use none up (getContext, contextCreate).
Filled == {slot[s] : s \in {t \in Shells : pc[t] \in {"args", "create"}}}
Leaked == {i \in Slot : contexs[i].inUse} \ Filled

ContextsLeakOnlyByFailure == Cardinality(Leaked) <= failed

\* The history is left, for good, only by a shell that moves to its next line
\* while another has moved to one and not yet looked whether it is the last
\* (commitCommand).
HistoryLeftOnlyTogether ==
    [][hist_index <= MaxHist /\ hist_index' > MaxHist => \E s \in Shells : pc[s] = "wrap"]_vars

=============================================================================
