----------------------------- MODULE ShellExec -----------------------------
(***************************************************************************)
(* The execution of commands by the shell, shell_freertos.c and            *)
(* shell_exec_cmd of shell.c, with CONFIG_SHELL_EXEC_THREAD: each line     *)
(* that names a command starts a task of its own, and aborts the one       *)
(* before.  The shell's task runs above the command's task, so that what   *)
(* it does for a key is one step; the command's task is interrupted        *)
(* between any two of its own.                                             *)
(*                                                                         *)
(* Tasks are known by the number of the line that started them; 0 is the   *)
(* task of the shell.                                                      *)
(***************************************************************************)
EXTENDS Naturals

CONSTANTS MaxLines,     \* bound on the lines that start a command
          NULL,
          Patient       \* does the user wait until a started command has begun?

Commands == 1..MaxLines
Shell == 0
Tasks == 0..MaxLines

VARIABLES
    exec,       \* the state both tasks share, and the tasks
    lines       \* the number of lines that started a command

vars == <<exec, lines>>

States == {"none", "ready", "running", "ended", "deleted"}

(* end, handle and sig are shell_exec_end, shell_exec_handle and whether   *)
(* shell_sig_func is shell_abort_exec; args is the line that               *)
(* shell_exec_argc, shell_exec_argv and shell_exec_line hold; crashed: a   *)
(* task fell out of its function, was deleted twice, or was the shell's.   *)
(* History: overtaken, a command was started while another had returned    *)
(* and not yet deleted its task.                                           *)
Exec == [end : BOOLEAN, handle : Tasks \cup {NULL}, sig : BOOLEAN,
         args : Tasks, tasks : [Tasks -> States], crashed : BOOLEAN,
         overtaken : BOOLEAN]

Init ==
    /\ exec = [end |-> TRUE, handle |-> NULL, sig |-> FALSE, args |-> 0,
               tasks |-> [t \in Tasks |-> IF t = Shell THEN "running" ELSE "none"],
               crashed |-> FALSE, overtaken |-> FALSE]
    /\ lines = 0
-----------------------------------------------------------------------------
(* vTaskDelete(s.handle), called by task t: NULL is t itself. *)
Victim(s, t) == IF s.handle = NULL THEN t ELSE s.handle

vTaskDelete(s, t) ==
    [s EXCEPT !.tasks[Victim(s, t)] = "deleted",
              !.crashed = \/ @ \/ Victim(s, t) = Shell
                           \/ s.tasks[Victim(s, t)] = "deleted"]

(* Deviation: the flag is left to the task. *)
AbortKeepsEnd(s) ==
    IF s.end THEN s ELSE [vTaskDelete(s, Shell) EXCEPT !.handle = NULL]

shell_abort_exec(s) ==
    IF s.end THEN s
    ELSE [vTaskDelete(s, Shell) EXCEPT !.end = TRUE, !.handle = NULL]

Created(s, n) ==
    [s EXCEPT !.handle = n, !.tasks[n] = "ready",
              !.overtaken = @ \/ \E m \in Commands : s.tasks[m] = "ended"]
CreateFails(s) == [s EXCEPT !.end = TRUE]

(* Deviation: the new task does not wait for the old one to go. *)
StartBeside(s, n) ==
    LET given == [s EXCEPT !.args = n] IN {Created(given, n), CreateFails(given)}

(* shell_dup_line and shell_start_exec for line n. *)
Started(s, n) ==
    LET given == [shell_abort_exec(s) EXCEPT !.args = n] IN
    {Created(given, n), CreateFails(given)}

(* Deviation: shell_signal is not called for the line. *)
Unarmed(s) == s

Armed(s) == [s EXCEPT !.sig = TRUE]     \* shell_signal(SHELL_SIGINT, SHELL_SIG_DFL)

(* The end of the line; it may name no command. *)
shell_exec(s) ==
    \/ exec' = s /\ UNCHANGED lines
    \/ /\ lines < MaxLines
       /\ lines' = lines + 1
       /\ exec' \in Started(Armed(s), lines + 1)

(* Ctrl-C calls the function once, and goes on as the end of the line.     *)
Interrupted(s) == IF s.sig THEN [shell_abort_exec(s) EXCEPT !.sig = FALSE] ELSE s
-----------------------------------------------------------------------------
(* No task is still to begin.  A command may return at any time, so that   *)
(* a line may come just before its task deletes itself.                    *)
Begun == \A n \in Commands : exec.tasks[n] # "ready"

Ready == ~exec.crashed /\ (Patient => Begun)

Enter == Ready /\ shell_exec(exec)
CtrlC == Ready /\ shell_exec(Interrupted(exec))
-----------------------------------------------------------------------------
(* The command's task: shell_exec_task. *)
TaskBegins(n) ==
    /\ ~exec.crashed
    /\ exec.tasks[n] = "ready"
    /\ exec' = [exec EXCEPT !.end = FALSE, !.tasks[n] = "running"]
    /\ UNCHANGED lines

CommandReturns(n) ==
    /\ ~exec.crashed
    /\ exec.tasks[n] = "running"
    /\ exec' = [exec EXCEPT !.end = TRUE, !.tasks[n] = "ended"]
    /\ UNCHANGED lines

(* A task that did not delete itself falls out of its function. *)
TaskEnds(n) ==
    /\ ~exec.crashed
    /\ exec.tasks[n] = "ended"
    /\ exec' = IF Victim(exec, n) = n THEN vTaskDelete(exec, n)
               ELSE [vTaskDelete(exec, n) EXCEPT !.handle = NULL, !.crashed = TRUE]
    /\ UNCHANGED lines

shell_exec_task(n) == TaskBegins(n) \/ CommandReturns(n) \/ TaskEnds(n)

Next == Enter \/ CtrlC \/ \E n \in Commands : shell_exec_task(n)

Spec == Init /\ [][Next]_vars
-----------------------------------------------------------------------------
(* Every variable has its type. *)
TypeOK == exec \in Exec /\ lines \in 0..MaxLines

(* A command runs with the arguments of its own line, although there is    *)
(* one copy of them for all lines.                                         *)
OwnArguments == \A n \in Commands : exec.tasks[n] = "running" => exec.args = n

(* The shell never deletes itself, and a task of a command is deleted      *)
(* once, by itself or by an abort, and falls out of its function, only if  *)
(* no line overtook it.  (Overtaken, it deletes the task of that line.)    *)
DeletedOnce ==
    exec.tasks[Shell] = "running" /\ (exec.crashed => exec.overtaken)

(* A command that runs is the only one, and Ctrl-C or the next line will   *)
(* find it: the flag, the handle and the signal agree, also while tasks of *)
(* earlier lines have still to delete themselves.                          *)
Abortable ==
    \A n \in Commands : exec.tasks[n] = "running" =>
        /\ ~exec.end /\ exec.handle = n /\ exec.sig
        /\ \A m \in Commands \ {n} : exec.tasks[m] \notin {"ready", "running"}
=============================================================================
