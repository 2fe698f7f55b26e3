---------------------------- MODULE ShellSession ----------------------------
(***************************************************************************)
(* A session at the shell: the bytes that ShellInput brings to             *)
(* shell_handler are keys, and those that end a line start, abort and      *)
(* replace the commands of ShellExec.  The task of the shell has priority  *)
(* over the task of a command (shell_config.h:36,44): the latter takes a   *)
(* step only while the former waits for the semaphore.                     *)
(***************************************************************************)
EXTENDS ShellInput

CONSTANTS MaxLines, NULL, Patient       \* see ShellExec

ASSUME ShellSessionAssumption ==
    MaxLines \in Nat /\ NULL \notin 0..MaxLines /\ Patient \in BOOLEAN

VARIABLES
    exec, lines,        \* see ShellExec
    keys,               \* the keys that were stored and not yet taken
    key,                \* the last key taken
    typed               \* is there something in shell->line?

Exec == INSTANCE ShellExec

allVars == <<vars, exec, lines, keys, key, typed>>

Keys == {"char", "enter", "ctrl_c"}
EndsLine(k) == k \in {"enter", "ctrl_c"}

SessionInit ==
    /\ Init /\ Exec!Init
    /\ keys = <<>> /\ key = "none" /\ typed = FALSE
-----------------------------------------------------------------------------
(* Deviation: the command's task has the priority of the shell's. *)
SamePriority == TRUE

Idle == pc = "wait" /\ ~sem            \* the shell waits for a key

(* A patient user ends a line when the echo of all keys before has come,   *)
(* and no command is still to begin; then waits for the prompt             *)
(* and, the first keys of the new line typed, for their echo.              *)
WaitsFor(k) ==
    /\ EndsLine(k) => Idle /\ Exec!Begun
    /\ \A i \in DOMAIN keys : ~EndsLine(keys[i])
    /\ EndsLine(key) => pc = "wait"

(* A key that finds no space is lost with its byte. *)
Arrive ==
    /\ uart_shell_isr
    /\ IF accepted' = accepted THEN UNCHANGED keys
       ELSE \E k \in Keys : (Patient => WaitsFor(k)) /\ keys' = Append(keys, k)
    /\ UNCHANGED <<exec, lines, key, typed>>

(* shell_handler; a key that is no end of a line is only remembered. *)
shell_handler(k) ==
    /\ key' = k
    /\ typed' = (~EndsLine(k) /\ (k = "char" \/ typed))
    /\ LET s == IF k = "ctrl_c" THEN Exec!Interrupted(exec) ELSE exec IN
       IF EndsLine(k) /\ typed THEN Exec!shell_exec(s)
                               ELSE exec' = s /\ UNCHANGED lines

(* The loop hands each byte to the handler, the one before again when      *)
(* Ring_Buffer_Read_Byte found none.                                       *)
Handle ==
    \/ /\ StoreIndex \/ SecondStore
       /\ keys' = Tail(keys)
       /\ shell_handler(Head(keys))
    \/ /\ ReadNothing
       /\ UNCHANGED keys
       /\ shell_handler(key)

Read ==
    /\ \/ TakeSemaphore \/ LoadMirror \/ LoadIndex \/ StartLoop
       \/ ReadSomething \/ LoadByte \/ FirstStore
    /\ UNCHANGED <<exec, lines, keys, key, typed>>

Command ==
    /\ Idle
    /\ \E n \in 1..MaxLines : Exec!shell_exec_task(n)
    /\ UNCHANGED <<vars, keys, key, typed>>

SessionNext ==
    /\ ~exec.crashed
    /\ Arrive \/ Handle \/ Read \/ Command

(* The scheduler runs the shell task when it can, and the command's task   *)
(* when the shell waits; a command may take for ever.                      *)
SessionSpec ==
    /\ SessionInit /\ [][SessionNext]_allVars
    /\ WF_allVars(~exec.crashed /\ (Handle \/ Read))
-----------------------------------------------------------------------------
(* Every variable has its type. *)
SessionTypeOK ==
    /\ TypeOK /\ Exec!TypeOK
    /\ keys \in Seq(Keys) /\ Len(keys) = Len(accepted) - taken
    /\ key \in Keys \cup {"none"} /\ typed \in BOOLEAN

(* Commands run with the arguments of their own line: ShellExec. *)
OwnArguments == Exec!OwnArguments

(* The shell's task is never deleted, and the others once, unless a line   *)
(* overtook them: ShellExec.                                               *)
DeletedOnce == Exec!DeletedOnce

(* The command that runs is the only one, and can be aborted: ShellExec. *)
Abortable == Exec!Abortable

(* Between the arrival of a key and the handler no command takes a step,   *)
(* so that who waits at the keyboard waits at the handler, too.            *)
Executes == Exec!Spec
=============================================================================
