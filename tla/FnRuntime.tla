----------------------------- MODULE FnRuntime -----------------------------
(***************************************************************************)
(* pkg/exec/fnruntime: calls of NewRunner and Run, one per function that a *)
(* pipeline runs in a container or as a command, made by the executors of  *)
(* all reconciles at once.  A call for a container first goes through      *)
(* checkContainerRuntimeOnce, then starts the command line of the runtime  *)
(* and waits for it; the command is killed when the call's context is      *)
(* cancelled and, unless it is a service, after a timeout.                 *)
(*                                                                         *)
(* cmd.Run copies what the command writes from a pipe into a buffer, and   *)
(* returns when the process is gone and the copy has met the pipe's end.   *)
(* A child of the process has the pipe too, and is not killed with it.     *)
(*                                                                         *)
(* A function says what executes it ("image", "command", a "bad command"   *)
(* that does not split into words, or "none"), whether it is a service and *)
(* whether its input can be marshalled.  The runtime's command may appear, *)
(* disappear or change version at any time.                                *)
(***************************************************************************)
EXTENDS Naturals

CONSTANTS
    Call,        \* the calls
    Functions,   \* what they may be called for, [Call -> Function]
    MaxChanges   \* how often the installed runtime may change

VARIABLES
    fn,         \* per call, its function
    runtime,    \* KPT_FN_RUNTIME: docker, podman, nerdctl or unsupported
    installed,  \* the runtime's command: missing, old or supported
    changes,    \* how often it has changed
    once,       \* checkContainerRuntimeOnce: new, running or done
    callPc,     \* per call: new, once, checking, passed, refused, start,
                \* running or returned
    command,    \* per call, its process: none, alive, zero, failed, killed
    held,       \* calls whose command, or check, has a child with the pipe
    callOut,    \* per call, what is in the output buffer: nothing, part, all
    cancelled,  \* calls whose context is cancelled
    answer      \* per call: none, ok or error

envVars == <<fn, runtime, installed, changes>>
callVars == <<callPc, command, held, callOut, answer>>
runtimeVars == <<envVars, once, callVars, cancelled>>

Function == [executor : {"image", "command", "bad command", "none"},
             service : BOOLEAN, input : BOOLEAN]

ASSUME FunctionsAssumption == Functions \subseteq [Call -> Function]
ASSUME MaxChangesAssumption == MaxChanges \in Nat

Runtimes == {"docker", "podman", "nerdctl", "unsupported"}

Container(c) == fn[c].executor = "image"
Service(c)   == fn[c].service

RuntimeInit ==
    /\ fn \in Functions
    /\ runtime \in Runtimes
    /\ installed \in {"missing", "old", "supported"}
    /\ changes = 0
    /\ once = "new"
    /\ callPc = [c \in Call |-> "new"]
    /\ command = [c \in Call |-> "none"]
    /\ held = {}
    /\ callOut = [c \in Call |-> "nothing"]
    /\ cancelled = {}
    /\ answer = [c \in Call |-> "none"]

Goto(c, label) == callPc' = [callPc EXCEPT ![c] = label] /\ UNCHANGED answer
Return(c, a) ==
    /\ callPc' = [callPc EXCEPT ![c] = "returned"]
    /\ answer' = [answer EXCEPT ![c] = a]

-----------------------------------------------------------------------------
\* What NewRunner refuses, an input that does not marshal, and a runtime
\* that StringToContainerRuntime does not know.
Refused(c) ==
    \/ fn[c].executor \in {"none", "bad command"}
    \/ Service(c) /\ ~Container(c)
    \/ ~Service(c) /\ ~fn[c].input
    \/ Container(c) /\ runtime = "unsupported"

(* NewRunner, and Run up to the once-only check, or to the command.        *)
Run(c) ==
    /\ callPc[c] = "new"
    /\ IF Refused(c) THEN Return(c, "error")
       ELSE Goto(c, IF Container(c) THEN "once" ELSE "start")
    /\ UNCHANGED <<envVars, once, command, held, callOut, cancelled>>

(* Once.Do: the first call makes the check, calls that come while it runs  *)
(* wait for it, and later calls go on, with their err still nil.           *)
OnceFirst(c) ==
    /\ callPc[c] = "once" /\ once = "new"
    /\ once' = "running"
    /\ Goto(c, "checking")
    /\ UNCHANGED <<envVars, command, held, callOut, cancelled>>

\* Mutant: a flag that is set before the check.
OncePassesEarly(c) ==
    /\ callPc[c] = "once" /\ once # "new"
    /\ Goto(c, "start")
    /\ UNCHANGED <<envVars, once, command, held, callOut, cancelled>>

OncePasses(c) ==
    /\ callPc[c] = "once" /\ once = "done"
    /\ Goto(c, "start")
    /\ UNCHANGED <<envVars, once, command, held, callOut, cancelled>>

\* dockerCmdAvailable looks at the version, podmanCmdAvailable and
\* nerdctlCmdAvailable only run the command.
Available == installed = "supported" \/ (installed = "old" /\ runtime # "docker")

(* ContainerRuntimeAvailable: the version command exits, or is killed      *)
(* after versionCommandTimeout.  Its context is its own: the call's is not *)
(* looked at.                                                              *)
CheckExits(c, inTime) ==
    /\ callPc[c] = "checking"
    /\ Goto(c, IF inTime /\ Available THEN "passed" ELSE "refused")
    /\ UNCHANGED <<envVars, once, command, held, callOut, cancelled>>

(* ... cmd.Run returns, and with it Once.Do.                               *)
CheckEnds(c) ==
    /\ callPc[c] \in {"passed", "refused"} /\ c \notin held
    /\ once' = "done"
    /\ IF callPc[c] = "passed" THEN Goto(c, "start") ELSE Return(c, "error")
    /\ UNCHANGED <<envVars, command, held, callOut, cancelled>>

-----------------------------------------------------------------------------
(* cmd.Run starts the command, unless the context is already cancelled or  *)
(* there is no such command.                                               *)
Start(c) ==
    /\ callPc[c] = "start"
    /\ c \notin cancelled /\ (Container(c) => installed # "missing")
    /\ command' = [command EXCEPT ![c] = "alive"]
    /\ Goto(c, "running")
    /\ UNCHANGED <<envVars, once, held, callOut, cancelled>>

StartFails(c) ==
    /\ callPc[c] = "start"
    /\ c \in cancelled \/ ~Container(c) \/ installed = "missing"
    /\ Return(c, "error")
    /\ UNCHANGED <<envVars, once, command, held, callOut, cancelled>>

(* The process, or a child of it that has the pipe, writes the answer, in  *)
(* pieces; the process exits with 0 or not.  Or they do nothing of this.   *)
Write(c) ==
    /\ command[c] = "alive" \/ (command[c] # "none" /\ c \in held)
    /\ callOut[c] # "all"
    /\ callOut' = [callOut EXCEPT ![c] = IF @ = "nothing" THEN "part" ELSE "all"]
    /\ UNCHANGED <<envVars, once, callPc, command, held, cancelled, answer>>

Exit(c, code) ==
    /\ command[c] = "alive"
    /\ command' = [command EXCEPT ![c] = code]
    /\ UNCHANGED <<envVars, once, callPc, held, callOut, cancelled, answer>>

(* The command, or that of the check of docker, the one check that reads   *)
(* an output, starts a child; the child, and its own children, end.        *)
Fork(c) ==
    /\ command[c] = "alive" \/ (callPc[c] = "checking" /\ runtime = "docker")
    /\ held' = held \cup {c}
    /\ UNCHANGED <<envVars, once, callPc, command, callOut, cancelled, answer>>

ChildEnds(c) ==
    /\ c \in held
    /\ held' = held \ {c}
    /\ UNCHANGED <<envVars, once, callPc, command, callOut, cancelled, answer>>

\* Mutant: getCmd and FnRun set no timeout.
KillCancelled(c) ==
    /\ command[c] = "alive"
    /\ c \in cancelled
    /\ command' = [command EXCEPT ![c] = "killed"]
    /\ UNCHANGED <<envVars, once, callPc, held, callOut, cancelled, answer>>

(* The context of the command is done: it was cancelled, or, for all but a *)
(* service, defaultLongTimeout is over.                                    *)
Kill(c) ==
    /\ command[c] = "alive"
    /\ c \in cancelled \/ ~Service(c)
    /\ command' = [command EXCEPT ![c] = "killed"]
    /\ UNCHANGED <<envVars, once, callPc, held, callOut, cancelled, answer>>

\* Mutant: the end of the process is waited for, that of its output is not.
FinishEarly(c) ==
    /\ callPc[c] = "running" /\ command[c] # "alive"
    /\ Return(c, IF command[c] = "zero" /\ (Service(c) \/ callOut[c] = "all")
                 THEN "ok" ELSE "error")
    /\ UNCHANGED <<envVars, once, command, held, callOut, cancelled>>

(* cmd.Run returns when the process is gone and nobody has its output      *)
(* open; after an exit with 0 the buffer is unmarshalled.                  *)
Finish(c) ==
    /\ callPc[c] = "running" /\ command[c] # "alive" /\ c \notin held
    /\ Return(c, IF command[c] = "zero" /\ (Service(c) \/ callOut[c] = "all")
                 THEN "ok" ELSE "error")
    /\ UNCHANGED <<envVars, once, command, held, callOut, cancelled>>

-----------------------------------------------------------------------------
(* The caller's context is cancelled; the installed runtime changes.       *)
Cancel(c) ==
    /\ callPc[c] # "returned"
    /\ cancelled' = cancelled \cup {c}
    /\ UNCHANGED <<envVars, once, callVars>>

Install(i) ==
    /\ changes < MaxChanges /\ i # installed
    /\ installed' = i /\ changes' = changes + 1
    /\ UNCHANGED <<fn, runtime, once, callVars, cancelled>>

CallStep(c) ==
    \/ Run(c) \/ OnceFirst(c) \/ OncePasses(c)
    \/ \E inTime \in BOOLEAN : CheckExits(c, inTime)
    \/ CheckEnds(c)
    \/ Start(c) \/ StartFails(c) \/ Finish(c)

ProcessStep(c) ==
    \/ Write(c) \/ Fork(c) \/ ChildEnds(c)
    \/ \E code \in {"zero", "failed"} : Exit(c, code)

RuntimeNext ==
    \/ \E c \in Call : CallStep(c) \/ ProcessStep(c) \/ Kill(c) \/ Cancel(c)
    \/ \E i \in {"missing", "old", "supported"} : Install(i)

RuntimeSpec == RuntimeInit /\ [][RuntimeNext]_runtimeVars

(* Goroutines run and timers fire; a process need never write or exit, and *)
(* its child neither.                                                      *)
FairRuntimeSpec ==
    /\ RuntimeSpec
    /\ \A c \in Call : WF_runtimeVars(CallStep(c)) /\ WF_runtimeVars(Kill(c))

-----------------------------------------------------------------------------
(* Type correctness.                                                       *)
RuntimeTypeOK ==
    /\ fn \in [Call -> Function]
    /\ runtime \in Runtimes
    /\ installed \in {"missing", "old", "supported"}
    /\ changes \in Nat
    /\ once \in {"new", "running", "done"}
    /\ callPc \in [Call -> {"new", "once", "checking", "passed", "refused", "start",
                        "running", "returned"}]
    /\ command \in [Call -> {"none", "alive", "zero", "failed", "killed"}]
    /\ held \subseteq Call
    /\ callOut \in [Call -> {"nothing", "part", "all"}]
    /\ cancelled \subseteq Call
    /\ answer \in [Call -> {"none", "ok", "error"}]

\* The call is inside Once.Do.
Checking(c) == callPc[c] \in {"checking", "passed", "refused"}

(* container.go:24: "we only want to check if container runtime is         *)
(* available once".  Calls do not check side by side, and none starts a    *)
(* container before the check has ended, whoever makes it.                 *)
CheckedFirst ==
    \A c \in Call :
        /\ Container(c) /\ command[c] # "none" => once = "done"
        /\ Checking(c) => \A d \in Call : Checking(d) => d = c

(* The output of a call is final when it returns: neither its command, nor *)
(* a child the timeout has left behind, writes to the buffer that the      *)
(* caller then reads.                                                      *)
OutputIsFinal ==
    [][\A c \in Call : callPc[c] = "returned" => callOut'[c] = callOut[c]]_runtimeVars

\* The call, or the one in whose check it waits, is kept by a child that
\* does not let go of the pipe.
KeptByChild(c) == \E d \in held : d = c \/ (callPc[c] = "once" /\ Checking(d))

(* Every call of a function returns, although its command, or that of the  *)
(* check it waits for, may hang, and that of a service when it is          *)
(* cancelled; but for a child that has the pipe for ever, which no timeout *)
(* reaches.                                                                *)
CallsEnd ==
    \A c \in Call :
        (~Service(c) \/ c \in cancelled) ~> (callPc[c] = "returned" \/ []KeptByChild(c))

-----------------------------------------------------------------------------
(* container.go:68: a function is killed after its timeout, and the call   *)
(* ends.                                                                   *)
CallsAlwaysEnd == \A c \in Call : ~Service(c) ~> (callPc[c] = "returned")

(* container.go:315: "check that the docker command is available and is a  *)
(* supported version".  Only the call that made the check hears of it.     *)
UnsupportedRefused ==
    [][\A c \in Call : Container(c) /\ runtime = "docker" /\ ~Available
         => ~(command[c] = "none" /\ command'[c] = "alive")]_runtimeVars
=============================================================================
