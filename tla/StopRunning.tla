---------------------------- MODULE StopRunning ----------------------------
(***************************************************************************)
(* `zymbol run --timeout`: the thread that runs the program against the    *)
(* thread that stops it.  The program's thread starts commands (`<\ \>`),  *)
(* opens the full screen (`>>|`) and, for a package, unpacks it and        *)
(* removes it again.  The stopper sleeps, and then ends the commands that  *)
(* are registered, restores the terminal, removes the unpacked package and *)
(* leaves with status 124.  Both threads may end the process.              *)
(*                                                                         *)
(* A step of this module is what one of them does between two points where *)
(* the other one can see it: a lock, an atomic flag, a system call.        *)
(* Only one thread runs the program, so it waits for one command at a time.*)
(* Process ids are never reused here.  `>>|` is not nested here.           *)
(***************************************************************************)
EXTENDS Naturals

CONSTANT MaxCommands    \* how many commands the program starts, at most

ASSUME MaxCommandsAssumption == MaxCommands \in Nat

VARIABLES
    kind,         \* what is run: "file", "package" or "kept" (--keep-temp)
    program,      \* where the program's thread is
    stopper,      \* where the stopper's thread is
    command,      \* the last command started
    process,      \* process[c]: what became of command c
    registered,   \* RUNNING (zymbol-common/src/shell.rs)
    stopping,     \* STOPPING
    listed,       \* the copy of RUNNING the stopper works through
    toKill,       \* what is left of it
    terminal,     \* "plain", or "taken": raw mode, alternate screen
    screenOpen,   \* OPEN > 0 (zymbol-common/src/screen.rs)
    dir,          \* the unpacked package: "none", "there" or "gone"
    extraction,   \* EXTRACTION is set
    exit          \* "no", "own" (the program's status) or "timeout" (124)

commandVars == <<command, process, registered>>
stopVars == <<stopper, stopping, listed, toKill>>
screenVars == <<terminal, screenOpen>>
dirVars == <<dir, extraction>>
vars == <<kind, program, commandVars, stopVars, screenVars, dirVars, exit>>

Commands == 1 .. MaxCommands

TypeOK ==
    /\ kind \in {"file", "package", "kept"}
    /\ program \in {"start", "unpacking", "code", "spawned", "waiting", "collected",
                    "going on", "parked", "taken", "given back", "finished"}
    /\ stopper \in {"asleep", "listing", "killing", "terminal", "removing", "leaving"}
    /\ command \in 0 .. MaxCommands
    /\ process \in [Commands -> {"none", "running", "over", "killed"}]
    /\ registered \in SUBSET Commands
    /\ stopping \in BOOLEAN
    /\ listed \in SUBSET Commands
    /\ toKill \in SUBSET listed
    /\ terminal \in {"plain", "taken"}
    /\ screenOpen \in BOOLEAN
    /\ dir \in {"none", "there", "gone"}
    /\ extraction \in BOOLEAN
    /\ exit \in {"no", "own", "timeout"}

\* The timeout is armed before anything else the command line does.
Init ==
    /\ kind \in {"file", "package", "kept"}
    /\ program = "start"
    /\ stopper = "asleep"
    /\ command = 0
    /\ process = [c \in Commands |-> "none"]
    /\ registered = {}
    /\ stopping = FALSE
    /\ listed = {}
    /\ toKill = {}
    /\ terminal = "plain"
    /\ screenOpen = FALSE
    /\ dir = "none"
    /\ extraction = FALSE
    /\ exit = "no"

\* A thread takes its next step only while the process lives.
ProgramAt(here, there) ==
    /\ exit = "no"
    /\ program = here
    /\ program' = there

StopperAt(here, there) ==
    /\ exit = "no"
    /\ stopper = here
    /\ stopper' = there

-----------------------------------------------------------------------------
(* The program's thread: what is run.                                      *)

RunFile ==
    /\ kind = "file"
    /\ ProgramAt("start", "code")
    /\ UNCHANGED <<kind, commandVars, stopVars, screenVars, dirVars, exit>>

Unpack ==
    /\ kind # "file"
    /\ ProgramAt("start", "unpacking")
    /\ dir' = "there"
    /\ UNCHANGED <<kind, commandVars, stopVars, screenVars, extraction, exit>>

\* Every file is written; only now is the directory known to the stopper.
Unpacked ==
    /\ ProgramAt("unpacking", "code")
    /\ extraction' = TRUE
    /\ UNCHANGED <<kind, commandVars, stopVars, screenVars, dir, exit>>

\* MUTATION of RemovedBy: no `drop` before the process ends.
RemovedByNobody(who) == dir

RemovedBy(who) == IF who = "package" THEN "gone" ELSE dir

\* The program is over: `drop(temp)`, or `keep` and the message.
Finish ==
    /\ ~screenOpen
    /\ ProgramAt("code", "finished")
    /\ dir' = RemovedBy(kind)
    /\ UNCHANGED <<kind, commandVars, stopVars, screenVars, extraction, exit>>

ExitOwn ==
    /\ exit = "no"
    /\ program = "finished"
    /\ exit' = "own"
    /\ UNCHANGED <<kind, program, commandVars, stopVars, screenVars, dirVars>>

-----------------------------------------------------------------------------
(* The program's thread: a command.                                        *)

Spawn ==
    /\ command < MaxCommands
    /\ ProgramAt("code", "spawned")
    /\ command' = command + 1
    /\ process' = [process EXCEPT ![command'] = "running"]
    /\ UNCHANGED <<kind, registered, stopVars, screenVars, dirVars, exit>>

Register ==
    /\ ProgramAt("spawned", "waiting")
    /\ registered' = registered \union {command}
    /\ UNCHANGED <<kind, command, process, stopVars, screenVars, dirVars, exit>>

\* `wait_with_output` returns: the command ended by itself or was ended.
Collect ==
    /\ ProgramAt("waiting", "collected")
    /\ process[command] # "running"
    /\ UNCHANGED <<kind, commandVars, stopVars, screenVars, dirVars, exit>>

\* MUTATION of Released: the flag is not looked at.
ReleasedAlways == "going on"

\* Where the thread goes from there: it parks for ever, or goes on.
Released == IF stopping THEN "parked" ELSE "going on"

LookAtStopping ==
    /\ ProgramAt("collected", Released)
    /\ UNCHANGED <<kind, commandVars, stopVars, screenVars, dirVars, exit>>

Unregister ==
    /\ ProgramAt("going on", "code")
    /\ registered' = registered \ {command}
    /\ UNCHANGED <<kind, command, process, stopVars, screenVars, dirVars, exit>>

\* The command itself: a process of the system's, ending when it likes.
CommandEnds(c) ==
    /\ process[c] = "running"
    /\ exit = "no"
    /\ process' = [process EXCEPT ![c] = "over"]
    /\ UNCHANGED <<kind, program, command, registered, stopVars, screenVars,
                   dirVars, exit>>

-----------------------------------------------------------------------------
(* The program's thread: the full screen.                                  *)

TakeTerminal ==
    /\ ProgramAt("code", "taken")
    /\ terminal' = "taken"
    /\ screenOpen = FALSE
    /\ UNCHANGED <<kind, commandVars, stopVars, screenOpen, dirVars, exit>>

ScreenOpened ==
    /\ ProgramAt("taken", "code")
    /\ screenOpen' = TRUE
    /\ UNCHANGED <<kind, commandVars, stopVars, terminal, dirVars, exit>>

GiveTerminalBack ==
    /\ screenOpen
    /\ ProgramAt("code", "given back")
    /\ terminal' = "plain"
    /\ UNCHANGED <<kind, commandVars, stopVars, screenOpen, dirVars, exit>>

ScreenClosed ==
    /\ ProgramAt("given back", "code")
    /\ screenOpen' = FALSE
    /\ UNCHANGED <<kind, commandVars, stopVars, terminal, dirVars, exit>>

-----------------------------------------------------------------------------
(* The stopper's thread.                                                   *)

TimeIsUp ==
    /\ StopperAt("asleep", "listing")
    /\ stopping' = TRUE
    /\ UNCHANGED <<kind, program, commandVars, listed, toKill, screenVars,
                   dirVars, exit>>

\* MUTATION of ListCommands: waits until no command is registered.
ListWhenIdle ==
    /\ registered = {}
    /\ StopperAt("listing", "killing")
    /\ listed' = registered
    /\ toKill' = registered
    /\ UNCHANGED <<kind, program, commandVars, stopping, screenVars, dirVars, exit>>

ListCommands ==
    /\ StopperAt("listing", "killing")
    /\ listed' = registered
    /\ toKill' = registered
    /\ UNCHANGED <<kind, program, commandVars, stopping, screenVars, dirVars, exit>>

\* MUTATION of Killed: the signal reaches nobody.
KilledNobody(c) == process

\* SIGKILL to the command's group; nothing happens to one that has ended.
Killed(c) == [process EXCEPT ![c] = IF @ = "running" THEN "killed" ELSE @]

Kill(c) ==
    /\ exit = "no"
    /\ stopper = "killing"
    /\ c \in toKill
    /\ process' = Killed(c)
    /\ toKill' = toKill \ {c}
    /\ UNCHANGED <<kind, program, command, registered, stopper, stopping, listed,
                   screenVars, dirVars, exit>>

AllKilled ==
    /\ toKill = {}
    /\ StopperAt("killing", "terminal")
    /\ UNCHANGED <<kind, program, commandVars, stopping, listed, toKill,
                   screenVars, dirVars, exit>>

\* `is_open` is read here, and the terminal is put back only if it says so.
RestoreTerminal ==
    /\ StopperAt("terminal", "removing")
    /\ terminal' = IF screenOpen THEN "plain" ELSE terminal
    /\ UNCHANGED <<kind, program, commandVars, stopping, listed, toKill,
                   screenOpen, dirVars, exit>>

RemoveExtraction ==
    /\ StopperAt("removing", "leaving")
    /\ dir' = IF extraction THEN "gone" ELSE dir
    /\ UNCHANGED <<kind, program, commandVars, stopping, listed, toKill,
                   screenVars, extraction, exit>>

ExitTimeout ==
    /\ exit = "no"
    /\ stopper = "leaving"
    /\ exit' = "timeout"
    /\ UNCHANGED <<kind, program, commandVars, stopVars, screenVars, dirVars>>

-----------------------------------------------------------------------------
Program ==
    \/ RunFile \/ Unpack \/ Unpacked \/ Finish \/ ExitOwn
    \/ Spawn \/ Register \/ Collect \/ LookAtStopping \/ Unregister
    \/ TakeTerminal \/ ScreenOpened \/ GiveTerminalBack \/ ScreenClosed

StopperSteps ==
    \/ TimeIsUp \/ ListCommands
    \/ \E c \in Commands : Kill(c)
    \/ AllKilled \/ RestoreTerminal \/ RemoveExtraction \/ ExitTimeout

Next == Program \/ StopperSteps \/ \E c \in Commands : CommandEnds(c)

\* The system runs the stopper's thread, whatever the program's thread does.
Spec == Init /\ [][Next]_vars /\ WF_vars(StopperSteps)

-----------------------------------------------------------------------------
(* What must hold.                                                         *)

\* A command the stopper ended never lets the program's thread run another
\* statement: it waits for the command, collects it and parks (the park loop
\* of run_command in shell.rs).
KilledReleasesNobody ==
    (\E c \in Commands : process[c] = "killed")
        => program \in {"waiting", "collected", "parked"}

\* When the process ends by the timeout, whatever the stopper found
\* registered has ended (stop_running_commands in shell.rs).
ListedAreEnded ==
    exit = "timeout" => \A c \in listed : process[c] # "running"

\* A program that ends by itself, even with the stopper half-way, leaves no
\* command, no full screen and no unpacked package (run_zyp in main.rs).
OwnExitLeavesNothing ==
    exit = "own" =>
        /\ \A c \in Commands : process[c] # "running"
        /\ terminal = "plain"
        /\ kind = "package" => dir = "gone"

\* Once its time is up the process ends, whatever the program's thread waits
\* for (arm_timeout in main.rs).
StopperExits == (stopper = "listing") ~> (exit # "no")
=============================================================================
