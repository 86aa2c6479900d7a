------------------------- MODULE StopRunningProofs -------------------------
(***************************************************************************)
(* What StopRunning promises, for any number of commands: an ended command *)
(* never lets the program go on, no listed command survives, and a program *)
(* that ends by itself leaves nothing behind.                              *)
(***************************************************************************)
EXTENDS StopRunning, TLAPS

-----------------------------------------------------------------------------
(* The inductive invariant.                                                *)

\* Where each command is, seen from the program's thread: only the last one
\* can be running, and it is registered while the thread waits for it.
CommandsInOrder ==
    /\ registered \subseteq 1 .. command
    /\ \A c \in Commands : c > command => process[c] = "none"
    /\ \A c \in Commands :
          process[c] = "running" => c = command /\ program \in {"spawned", "waiting"}
    /\ program = "spawned" => command \in Commands /\ command \notin registered

\* What the stopper has listed was registered, is still to be ended or has
\* ended; it ends nothing else, and nothing before the flag is up.
StopperInOrder ==
    /\ stopper # "asleep" => stopping
    /\ stopper \in {"asleep", "listing"} => listed = {} /\ toKill = {}
    /\ listed \subseteq 1 .. command
    /\ program = "spawned" => command \notin listed
    /\ \A c \in listed : process[c] = "running" => c \in toKill
    /\ stopper \in {"terminal", "removing", "leaving"} => toKill = {}
    /\ exit = "timeout" => stopper = "leaving"

\* A killed command holds the program's thread.
HeldByKilled ==
    \A c \in Commands : process[c] = "killed" =>
        /\ stopper # "asleep"
        /\ program \in {"waiting", "collected", "parked"}

\* The types of the variables the argument is about, and of the flags.
Types ==
    /\ program \in {"start", "unpacking", "code", "spawned", "waiting", "collected",
                    "going on", "parked", "taken", "given back", "finished"}
    /\ stopper \in {"asleep", "listing", "killing", "terminal", "removing", "leaving"}
    /\ command \in 0 .. MaxCommands
    /\ process \in [Commands -> {"none", "running", "over", "killed"}]
    /\ registered \in SUBSET Commands
    /\ listed \in SUBSET Commands
    /\ toKill \in SUBSET listed

Rest ==
    /\ kind \in {"file", "package", "kept"}
    /\ terminal \in {"plain", "taken"}
    /\ dir \in {"none", "there", "gone"}
    /\ exit \in {"no", "own", "timeout"}

Flags == stopping \in BOOLEAN /\ screenOpen \in BOOLEAN /\ extraction \in BOOLEAN

Inv == Types /\ CommandsInOrder /\ StopperInOrder /\ HeldByKilled

\* Before the first step no command was started and the stopper sleeps.
LEMMA InitInv == Init => Inv
<1> SUFFICES ASSUME Init PROVE Inv
    OBVIOUS
<1> USE MaxCommandsAssumption DEF Init, Commands
<1>1. Types BY DEF Types
<1>2. CommandsInOrder BY DEF CommandsInOrder
<1>3. StopperInOrder BY DEF StopperInOrder
<1>4. HeldByKilled BY DEF HeldByKilled
<1> QED BY <1>1, <1>2, <1>3, <1>4 DEF Inv

-----------------------------------------------------------------------------
(* Every step keeps it: the program's thread, the stopper's, a command's.  *)

\* The program's thread: it registers what it starts before it waits, and parks
\* when a command returns under the flag.
LEMMA ProgramInv == Inv /\ Program => Inv'
<1> USE MaxCommandsAssumption DEF Inv, Types, CommandsInOrder, StopperInOrder, HeldByKilled,
        Commands, ProgramAt, vars, commandVars, stopVars, screenVars, dirVars
<1> SUFFICES ASSUME Inv, Program PROVE Inv'
    OBVIOUS
<1>1. CASE RunFile BY <1>1 DEF RunFile
<1>2. CASE Unpack BY <1>2 DEF Unpack
<1>3. CASE Unpacked BY <1>3 DEF Unpacked
<1>4. CASE Finish BY <1>4 DEF Finish, RemovedBy
<1>5. CASE ExitOwn BY <1>5 DEF ExitOwn
<1>6. CASE Spawn
    <2> USE <1>6 DEF Spawn
    <2>1. command' \in Commands /\ command' = command + 1 /\ process'[command'] = "running"
          /\ \A c \in Commands : c # command' => process'[c] = process[c]
        OBVIOUS
    <2>2. process' \in [Commands -> {"none", "running", "over", "killed"}]
        BY <2>1
    <2>3. Types' BY <2>1, <2>2
    <2>4. CommandsInOrder' BY <2>1
    <2>5. StopperInOrder' BY <2>1
    <2>6. HeldByKilled' BY <2>1
    <2> QED BY <2>3, <2>4, <2>5, <2>6
<1>7. CASE Register BY <1>7 DEF Register
<1>8. CASE Collect BY <1>8 DEF Collect
<1>9. CASE LookAtStopping
    <2> USE <1>9 DEF LookAtStopping
    <2>1. program = "collected" /\ program' = Released
        OBVIOUS
    <2>2. (stopping => program' = "parked") /\ program' \in {"parked", "going on"}
        BY <2>1 DEF Released
    <2>3. Types' BY <2>2
    <2>4. CommandsInOrder' BY <2>1, <2>2
    <2>5. StopperInOrder' BY <2>2
    <2>6. HeldByKilled'
        <3>1. ASSUME stopping PROVE HeldByKilled'
            BY <2>2, <3>1
        <3>2. ASSUME ~stopping PROVE HeldByKilled'
            BY <3>2
        <3> QED BY <3>1, <3>2
    <2> QED BY <2>3, <2>4, <2>5, <2>6
<1>10. CASE Unregister BY <1>10 DEF Unregister
<1>11. CASE TakeTerminal BY <1>11 DEF TakeTerminal
<1>12. CASE ScreenOpened BY <1>12 DEF ScreenOpened
<1>13. CASE GiveTerminalBack BY <1>13 DEF GiveTerminalBack
<1>14. CASE ScreenClosed BY <1>14 DEF ScreenClosed
<1> QED
    BY <1>1, <1>2, <1>3, <1>4, <1>5, <1>6, <1>7, <1>8, <1>9, <1>10, <1>11, <1>12, <1>13, <1>14
       DEF Program

\* The stopper: the flag is up before it lists, and it ends what it listed.
LEMMA StopperInv == Inv /\ StopperSteps => Inv'
<1> USE MaxCommandsAssumption DEF Inv, Types, CommandsInOrder, StopperInOrder, HeldByKilled,
        Commands, StopperAt, vars, commandVars, stopVars, screenVars, dirVars
<1> SUFFICES ASSUME Inv, StopperSteps PROVE Inv'
    OBVIOUS
<1>1. CASE TimeIsUp BY <1>1 DEF TimeIsUp
<1>2. CASE ListCommands BY <1>2 DEF ListCommands
<1>3. CASE \E c \in Commands : Kill(c)
    <2> PICK c \in Commands : Kill(c)
        BY <1>3
    <2> USE DEF Kill
    <2>1. /\ process' \in [Commands -> {"none", "running", "over", "killed"}]
          /\ \A d \in Commands : d # c => process'[d] = process[d]
          /\ process'[c] = IF process[c] = "running" THEN "killed" ELSE process[c]
        BY DEF Killed
    <2>2. Types' BY <2>1
    <2>3. CommandsInOrder' BY <2>1
    <2>4. StopperInOrder' BY <2>1
    <2>5. HeldByKilled'
        <3>1. stopper = "killing" /\ c \in toKill /\ toKill \subseteq listed
            OBVIOUS
        <3>2. process[c] = "running" => program = "waiting"
            BY <3>1
        <3> QED BY <2>1, <3>1, <3>2
    <2> QED BY <2>2, <2>3, <2>4, <2>5
<1>4. CASE AllKilled BY <1>4 DEF AllKilled
<1>5. CASE RestoreTerminal BY <1>5 DEF RestoreTerminal
<1>6. CASE RemoveExtraction BY <1>6 DEF RemoveExtraction
<1>7. CASE ExitTimeout BY <1>7 DEF ExitTimeout
<1> QED BY <1>1, <1>2, <1>3, <1>4, <1>5, <1>6, <1>7 DEF StopperSteps

\* A command that ends by itself is no longer there to be killed.
LEMMA CommandInv == Inv /\ (\E c \in Commands : CommandEnds(c)) => Inv'
<1> SUFFICES ASSUME Inv, NEW c \in Commands, CommandEnds(c) PROVE Inv'
    OBVIOUS
<1> USE MaxCommandsAssumption DEF Inv, Types, CommandsInOrder, StopperInOrder, HeldByKilled,
        Commands, CommandEnds, stopVars, screenVars, dirVars
<1>1. /\ process' \in [Commands -> {"none", "running", "over", "killed"}]
      /\ process'[c] = "over"
      /\ \A d \in Commands : d # c => process'[d] = process[d]
    OBVIOUS
<1>2. Types' BY <1>1
<1>3. CommandsInOrder' BY <1>1
<1>4. StopperInOrder' BY <1>1
<1>5. HeldByKilled' BY <1>1
<1> QED BY <1>2, <1>3, <1>4, <1>5

\* And a step that changes nothing.
LEMMA StutterInv == Inv /\ UNCHANGED vars => Inv'
<1> SUFFICES ASSUME Inv, UNCHANGED vars PROVE Inv'
    OBVIOUS
<1> USE DEF Inv, vars, commandVars, stopVars, screenVars, dirVars
<1>1. Types' BY DEF Types
<1>2. CommandsInOrder' BY DEF CommandsInOrder
<1>3. StopperInOrder' BY DEF StopperInOrder
<1>4. HeldByKilled' BY DEF HeldByKilled
<1> QED BY <1>1, <1>2, <1>3, <1>4

-----------------------------------------------------------------------------
\* The inductive invariant holds in every state of every run.
THEOREM InvHolds == Spec => []Inv
<1>1. Inv /\ [Next]_vars => Inv'
    BY ProgramInv, StopperInv, CommandInv, StutterInv DEF Next
<1> QED BY <1>1, InitInv, PTL DEF Spec

\* For any number of commands, one the stopper has ended never lets the
\* program run another statement (the park loop of run_command).
THEOREM KilledReleasesNobodyHolds == Spec => []KilledReleasesNobody
<1>1. Inv => KilledReleasesNobody
    BY DEF Inv, HeldByKilled, KilledReleasesNobody
<1> QED BY <1>1, InvHolds, PTL

\* For any number of commands, what was registered when the stopper looked has
\* ended by the time it ends the process (stop_running_commands).
THEOREM ListedAreEndedHolds == Spec => []ListedAreEnded
<1>1. Inv => ListedAreEnded
    BY DEF Inv, StopperInOrder, ListedAreEnded
<1> QED BY <1>1, InvHolds, PTL

-----------------------------------------------------------------------------
(* What a program that ends by itself leaves behind.                       *)

\* Who holds the terminal: the open screen, or the thread on its way into it;
\* and a program that is over has given back everything.
ScreenInOrder ==
    /\ terminal = "taken" => screenOpen \/ program = "taken"
    /\ program = "given back" => terminal = "plain"
    /\ program = "finished" => terminal = "plain"
    /\ program = "finished" /\ kind = "package" => dir = "gone"
    /\ exit = "own" => program = "finished"
    /\ terminal \in {"plain", "taken"}

\* The program's thread enters the full screen and leaves it in that order, and
\* ends only outside it.
LEMMA ProgramScreen == ScreenInOrder /\ Program => ScreenInOrder'
<1> SUFFICES ASSUME ScreenInOrder, Program PROVE ScreenInOrder'
    OBVIOUS
<1> USE DEF ScreenInOrder, ProgramAt, commandVars, stopVars, screenVars, dirVars
<1>1. CASE RunFile BY Zenon, <1>1 DEF RunFile
<1>2. CASE Unpack BY Zenon, <1>2 DEF Unpack
<1>3. CASE Unpacked BY Zenon, <1>3 DEF Unpacked
<1>4. CASE Finish BY Zenon, <1>4 DEF Finish, RemovedBy
<1>5. CASE ExitOwn BY Zenon, <1>5 DEF ExitOwn
<1>6. CASE Spawn BY Zenon, <1>6 DEF Spawn
<1>7. CASE Register BY Zenon, <1>7 DEF Register
<1>8. CASE Collect BY Zenon, <1>8 DEF Collect
<1>9. CASE LookAtStopping
    <2>1. Released \in {"parked", "going on"}
        BY DEF Released
    <2> QED BY Zenon, <1>9, <2>1 DEF LookAtStopping
<1>10. CASE Unregister BY Zenon, <1>10 DEF Unregister
<1>11. CASE TakeTerminal BY Zenon, <1>11 DEF TakeTerminal
<1>12. CASE ScreenOpened BY Zenon, <1>12 DEF ScreenOpened
<1>13. CASE GiveTerminalBack BY Zenon, <1>13 DEF GiveTerminalBack
<1>14. CASE ScreenClosed BY Zenon, <1>14 DEF ScreenClosed
<1> QED
    BY Zenon, <1>1, <1>2, <1>3, <1>4, <1>5, <1>6, <1>7, <1>8, <1>9, <1>10, <1>11, <1>12, <1>13,
       <1>14 DEF Program

\* The stopper can only put the terminal back and remove the package; a command
\* touches neither.
LEMMA OthersScreen ==
    ScreenInOrder /\ (StopperSteps \/ (\E c \in Commands : CommandEnds(c)) \/ UNCHANGED vars)
        => ScreenInOrder'
<1> USE DEF ScreenInOrder, StopperAt, vars, commandVars, stopVars, screenVars, dirVars
<1>1. ASSUME ScreenInOrder, RestoreTerminal PROVE ScreenInOrder'
    BY Zenon, <1>1 DEF RestoreTerminal
<1>2. ASSUME ScreenInOrder, RemoveExtraction PROVE ScreenInOrder'
    BY Zenon, <1>2 DEF RemoveExtraction
<1>3. ASSUME ScreenInOrder, ExitTimeout PROVE ScreenInOrder'
    BY Zenon, <1>3 DEF ExitTimeout
<1>4. ASSUME ScreenInOrder, UNCHANGED <<kind, program, screenVars, dirVars, exit>>
      PROVE ScreenInOrder'
    BY Zenon, <1>4
<1>5. TimeIsUp \/ ListCommands \/ (\E c \in Commands : Kill(c)) \/ AllKilled
      \/ (\E c \in Commands : CommandEnds(c)) \/ UNCHANGED vars
        => UNCHANGED <<kind, program, screenVars, dirVars, exit>>
    BY Zenon DEF TimeIsUp, ListCommands, Kill, AllKilled, CommandEnds
<1> QED BY Zenon, <1>1, <1>2, <1>3, <1>4, <1>5 DEF StopperSteps

\* For any number of commands, and with the stopper anywhere in its work, a
\* program that ends by itself leaves no command, no full screen and no unpacked
\* package (run_zyp).
THEOREM OwnExitLeavesNothingHolds == Spec => []OwnExitLeavesNothing
<1>1. Init => ScreenInOrder
    BY Zenon DEF Init, ScreenInOrder
<1>2. ScreenInOrder /\ [Next]_vars => ScreenInOrder'
    BY Zenon, ProgramScreen, OthersScreen DEF Next
<1>3. Inv /\ ScreenInOrder => OwnExitLeavesNothing
    BY DEF Inv, Types, CommandsInOrder, ScreenInOrder, OwnExitLeavesNothing
<1> QED BY <1>1, <1>2, <1>3, InvHolds, PTL DEF Spec

-----------------------------------------------------------------------------
(* The types of the variables the argument does not need.                  *)

\* The flags stay Booleans.
LEMMA FlagsKept == Flags /\ [Next]_vars => Flags'
BY Zenon
DEF Flags, Next, Program, StopperSteps, vars, commandVars, stopVars, screenVars, dirVars,
    RunFile, Unpack, Unpacked, Finish, ExitOwn, Spawn, Register, Collect, LookAtStopping,
    Unregister, TakeTerminal, ScreenOpened, GiveTerminalBack, ScreenClosed, TimeIsUp,
    ListCommands, Kill, AllKilled, RestoreTerminal, RemoveExtraction, ExitTimeout, CommandEnds

\* So do the rest of the variables keep their sets.
LEMMA RestKept == Rest /\ [Next]_vars => Rest'
BY DEF Rest, Next, Program, StopperSteps, vars, commandVars, stopVars, screenVars, dirVars,
    RunFile, Unpack, Unpacked, Finish, ExitOwn, Spawn, Register, Collect, LookAtStopping,
    Unregister, TakeTerminal, ScreenOpened, GiveTerminalBack, ScreenClosed, TimeIsUp,
    ListCommands, Kill, AllKilled, RestoreTerminal, RemoveExtraction, ExitTimeout, CommandEnds,
    RemovedBy

\* Every variable keeps its type; in particular the stopper ends only what it
\* has listed.
THEOREM TypeCorrect == Spec => []TypeOK
<1>1. Init => Flags
    BY Zenon DEF Init, Flags
<1>2. Init => Rest
    BY DEF Init, Rest
<1>3. Types /\ Flags /\ Rest => TypeOK
    BY Zenon DEF Types, Flags, Rest, TypeOK
<1>4. Inv => Types
    BY DEF Inv
<1> QED BY <1>1, <1>2, <1>3, <1>4, FlagsKept, RestKept, InvHolds, PTL DEF Spec
=============================================================================
