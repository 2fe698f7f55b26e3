------------------------ MODULE ShellSession_proofs -------------------------
(***************************************************************************)
(* What holds of a session for any size of the ring, any word, any number  *)
(* of bytes and of lines: of the input, for a sender who leaves no more    *)
(* unread than the buffer holds (Paced); of the commands, for a user who   *)
(* also waits for a command to begin (Patient).                            *)
(*                                                                         *)
(* ShellExec.  Abortable and OwnArguments are about commands that run; to  *)
(* be inductive they have to say from when and until when the flag, the    *)
(* handle and the arguments are those of one task (OneTask), that a        *)
(* command that has returned still owns the handle unless a line came      *)
(* between (Leaving), and that a new task finds its place unused (Unborn). *)
(*                                                                         *)
(* ShellInput.  TakenInOrder says what was taken; the invariant says where *)
(* each byte is at each point of a read, with the index stored and the     *)
(* mirror not, or the other way round (BytesInv), what the two loads of    *)
(* the length may have seen (SampleInv), and what the task knows when the  *)
(* semaphore has not been given (WakeInv).                                 *)
(*                                                                         *)
(* ShellSession.  The loop may hand the last key to shell_handler twice;   *)
(* that the key is then never the end of a line needs LineInv, which with  *)
(* the others makes every step a step of ShellExec or none.                *)
(***************************************************************************)
EXTENDS ShellSession, SequenceTheorems, TLAPS
-----------------------------------------------------------------------------
(* The commands, as in ShellExec. *)

Young == {"ready", "running"}

(* The one task that is to run or runs is the one the handle names, with   *)
(* its arguments; shell_exec_end is false exactly while it runs, and       *)
(* Ctrl-C is armed.                                                        *)
OneTask(s) ==
    /\ \A n \in Exec!Commands : s.tasks[n] \in Young =>
          /\ s.handle = n /\ s.args = n /\ s.sig = TRUE
          /\ s.end <=> s.tasks[n] # "running"
          /\ \A m \in Exec!Commands : s.tasks[m] \in Young => m = n
    /\ ~s.end /\ ~s.crashed => \E n \in Exec!Commands : s.tasks[n] = "running"
    /\ s.tasks[Exec!Shell] = "running" /\ s.handle # Exec!Shell

(* No line came while a command returned: the task that still has to       *)
(* delete itself is the one the handle names, and there is no other.       *)
Leaving(s) ==
    /\ ~s.overtaken => \A n \in Exec!Commands : s.tasks[n] = "ended" =>
          /\ s.handle = n
          /\ \A m \in Exec!Commands : s.tasks[m] \in Young \cup {"ended"} => m = n
    /\ s.crashed => s.overtaken = TRUE

Unborn(s, k) == ~s.crashed => \A n \in Exec!Commands : n > k => s.tasks[n] = "none"

Good(s, k) == s \in Exec!Exec /\ OneTask(s) /\ Leaving(s) /\ Unborn(s, k)

ExecInv == Good(exec, lines) /\ lines \in 0..MaxLines

Begun(s) == ~s.crashed /\ \A n \in Exec!Commands : s.tasks[n] # "ready"

(* The constants, and the user who waits. *)
Waiting == MaxLines \in Nat /\ NULL \notin Exec!Tasks /\ Patient = TRUE

LEMMA CommandsAreTasks ==
    ASSUME MaxLines \in Nat
    PROVE  /\ Exec!Commands \subseteq Exec!Tasks
           /\ Exec!Shell \in Exec!Tasks /\ Exec!Shell \notin Exec!Commands
  BY DEF Exec!Commands, Exec!Tasks, Exec!Shell

LEMMA ExecImplications ==
    ASSUME MaxLines \in Nat, ExecInv
    PROVE  Exec!TypeOK /\ Exec!OwnArguments /\ Exec!DeletedOnce /\ Exec!Abortable
  BY DEF ExecInv, Good, OneTask, Leaving, Exec!TypeOK, Exec!OwnArguments, Exec!DeletedOnce,
         Exec!Abortable, Young, Exec!Exec

LEMMA ExecInitInv ==
    ASSUME MaxLines \in Nat, NULL \notin Exec!Tasks, Exec!Init
    PROVE  ExecInv
<1>1. exec \in Exec!Exec
  BY DEF Exec!Init, Exec!Exec, Exec!Tasks, Exec!States, Exec!Shell
<1>2. \A n \in Exec!Commands : exec.tasks[n] = "none"
  BY DEF Exec!Init, Exec!Commands, Exec!Tasks, Exec!Shell
<1>3. /\ exec.tasks[Exec!Shell] = "running" /\ exec.end /\ ~exec.crashed
      /\ exec.handle # Exec!Shell /\ lines = 0
  BY CommandsAreTasks DEF Exec!Init, Exec!Tasks, Exec!Shell
<1> QED
  BY <1>1, <1>2, <1>3 DEF ExecInv, Good, OneTask, Leaving, Unborn, Young
-----------------------------------------------------------------------------
(* No command is to run or runs: the state in which a line may start one. *)
Free(s, k) ==
    /\ s \in Exec!Exec /\ s.end /\ ~s.crashed
    /\ s.tasks[Exec!Shell] = "running" /\ s.handle # Exec!Shell
    /\ \A n \in Exec!Commands : s.tasks[n] \notin Young
    /\ Leaving(s) /\ Unborn(s, k)

LEMMA FreeIsGood ==
    ASSUME NEW s, NEW k, Free(s, k)
    PROVE  Good(s, k) /\ Begun(s)
  BY DEF Free, Good, OneTask, Young, Begun

(* An abort, or a command that has gone by itself, leaves none alive. *)
LEMMA AbortFrees ==
    ASSUME Waiting, NEW k \in 0..MaxLines, NEW s, Good(s, k), Begun(s)
    PROVE  Free(Exec!shell_abort_exec(s), k) /\ Exec!shell_abort_exec(s).sig = s.sig
<1> DEFINE r == Exec!shell_abort_exec(s)
<1>1. s \in Exec!Exec /\ s.tasks \in [Exec!Tasks -> Exec!States] /\ s.crashed = FALSE
  BY DEF Good, Begun, Exec!Exec
<1>2. /\ Exec!Commands \subseteq Exec!Tasks
      /\ Exec!Shell \in Exec!Tasks /\ Exec!Shell \notin Exec!Commands
  BY CommandsAreTasks DEF Waiting
<1>3. CASE s.end
  <2>1. r = s
    BY <1>3 DEF Exec!shell_abort_exec
  <2>2. \A n \in Exec!Commands : s.tasks[n] \notin Young
    BY <1>3 DEF Good, OneTask, Young, Begun
  <2> QED
    BY <2>1, <2>2, <1>1, <1>3 DEF Free, Good, OneTask
<1>4. CASE ~s.end
  <2>1. PICK n \in Exec!Commands : s.tasks[n] = "running"
    BY <1>1, <1>4 DEF Good, OneTask
  <2>2. s.handle = n /\ n # NULL /\ n # Exec!Shell
    BY <2>1, <1>2 DEF Good, OneTask, Young, Waiting
  <2>3. n <= k
    BY <2>1, <1>1 DEF Good, Unborn, Waiting, Exec!Commands
  <2>4. Exec!Victim(s, Exec!Shell) = n
    BY <2>2 DEF Exec!Victim
  <2> DEFINE T == [s.tasks EXCEPT ![n] = "deleted"]
  <2>5. r = [end |-> TRUE, handle |-> NULL, sig |-> s.sig, args |-> s.args,
             tasks |-> T, crashed |-> FALSE, overtaken |-> s.overtaken]
    BY <2>1, <2>2, <2>4, <1>1, <1>4
    DEF Exec!shell_abort_exec, Exec!vTaskDelete, Exec!Exec
  <2>6. /\ T \in [Exec!Tasks -> Exec!States] /\ s.sig \in BOOLEAN /\ s.args \in Exec!Tasks
        /\ s.overtaken \in BOOLEAN
    BY <1>1, <1>2 DEF Exec!Exec, Exec!States
  <2>7. /\ \A m \in Exec!Commands : m # n => s.tasks[m] \notin Young
        /\ ~s.overtaken => \A m \in Exec!Commands : s.tasks[m] # "ended"
    BY <2>1 DEF Good, OneTask, Leaving, Young
  <2>8. /\ \A m \in Exec!Commands : T[m] \notin Young
        /\ ~s.overtaken => \A m \in Exec!Commands : T[m] # "ended"
    BY <2>7, <1>1, <1>2 DEF Young
  <2>9. T[Exec!Shell] = "running" /\ NULL # Exec!Shell
    BY <2>2, <1>1, <1>2 DEF Good, OneTask, Waiting
  <2>10. \A m \in Exec!Commands : m > k => T[m] = "none"
    BY <2>3, <1>1, <1>2 DEF Good, Unborn, Exec!Commands, Waiting
  <2> HIDE DEF T, r
  <2>11. r \in Exec!Exec
    BY <2>5, <2>6 DEF Exec!Exec
  <2>12. Leaving(r)
    BY <2>5, <2>8 DEF Leaving
  <2> QED
    BY <2>5, <2>8, <2>9, <2>10, <2>11, <2>12 DEF Free, Unborn, r
<1> QED
  BY <1>3, <1>4

(* Arming Ctrl-C harms nothing. *)
LEMMA ArmedGood ==
    ASSUME NEW k, NEW s, Good(s, k), Begun(s)
    PROVE  Good(Exec!Armed(s), k) /\ Exec!Armed(s).sig = TRUE /\ Begun(Exec!Armed(s))
<1> DEFINE r == Exec!Armed(s)
<1>1. s \in Exec!Exec
  BY DEF Good
<1>2. r \in Exec!Exec
  BY <1>1 DEF Exec!Armed, Exec!Exec
<1>3. /\ r.handle = s.handle /\ r.sig = TRUE /\ r.args = s.args /\ r.tasks = s.tasks
      /\ r.end = s.end /\ r.crashed = s.crashed /\ r.overtaken = s.overtaken
  BY <1>1 DEF Exec!Armed, Exec!Exec
<1> HIDE DEF r
<1> QED
  BY <1>2, <1>3 DEF Good, OneTask, Leaving, Unborn, Begun, r

(* A line starts its task, or xTaskCreate fails. *)
LEMMA StartedGood ==
    ASSUME Waiting, NEW k \in 0..MaxLines, k < MaxLines, NEW s, Good(s, k), s.sig = TRUE,
           Begun(s), NEW r \in Exec!Started(s, k + 1)
    PROVE  Good(r, k + 1)
<1> DEFINE a == Exec!shell_abort_exec(s)
           n == k + 1
<1>1. Free(a, k) /\ a.sig = TRUE
  BY AbortFrees
<1>2. n \in Exec!Commands /\ n \in Exec!Tasks /\ n # Exec!Shell
  BY DEF Waiting, Exec!Commands, Exec!Tasks, Exec!Shell
<1>3. r \in {Exec!Created([a EXCEPT !.args = n], n), Exec!CreateFails([a EXCEPT !.args = n])}
  BY DEF Exec!Started
<1> HIDE DEF a, n
<1>4. /\ a \in Exec!Exec /\ a.tasks \in [Exec!Tasks -> Exec!States]
      /\ a.end = TRUE /\ a.crashed = FALSE /\ a.overtaken \in BOOLEAN
  BY <1>1 DEF Free, Exec!Exec
<1>5. /\ Exec!Commands \subseteq Exec!Tasks
      /\ Exec!Shell \in Exec!Tasks /\ Exec!Shell \notin Exec!Commands
  BY CommandsAreTasks DEF Waiting
<1>6. CASE r = Exec!Created([a EXCEPT !.args = n], n)
  <2> DEFINE T == [a.tasks EXCEPT ![n] = "ready"]
             o == a.overtaken \/ \E m \in Exec!Commands : a.tasks[m] = "ended"
  <2>1. r = [end |-> TRUE, handle |-> n, sig |-> TRUE, args |-> n,
             tasks |-> T, crashed |-> FALSE, overtaken |-> o]
    <3> DEFINE g == [a EXCEPT !.args = n]
    <3>1. /\ g.end = TRUE /\ g.sig = TRUE /\ g.args = n /\ g.tasks = a.tasks
          /\ g.crashed = FALSE /\ g.overtaken = a.overtaken
      BY <1>1, <1>4 DEF Exec!Exec
    <3>2. g = [end |-> g.end, handle |-> g.handle, sig |-> g.sig, args |-> g.args,
               tasks |-> g.tasks, crashed |-> g.crashed, overtaken |-> g.overtaken]
      BY <1>4 DEF Exec!Exec
    <3>3. r = [g EXCEPT !.handle = n, !.tasks = [g.tasks EXCEPT ![n] = "ready"],
                        !.overtaken = \/ g.overtaken
                                      \/ \E m \in Exec!Commands : g.tasks[m] = "ended"]
      BY <1>6, Zenon DEF Exec!Created
    <3> HIDE DEF g
    <3>4. r = [g EXCEPT !.handle = n, !.tasks = T, !.overtaken = o]
      BY <3>1, <3>3, Zenon
    <3> HIDE DEF T, o
    <3> QED
      BY <3>1, <3>2, <3>4
  <2>2. T \in [Exec!Tasks -> Exec!States]
    BY <1>4 DEF Exec!States
  <2>3. /\ T[n] = "ready" /\ T[Exec!Shell] = "running"
        /\ \A m \in Exec!Commands : m # n => T[m] \notin Young
    BY <1>1, <1>2, <1>4, <1>5 DEF Free
  <2>4. \A m \in Exec!Commands : m > k + 1 => T[m] = "none"
    BY <1>1, <1>2, <1>4, <1>5 DEF Free, Unborn, Waiting, Exec!Commands, n
  <2>5. ~o => \A m \in Exec!Commands : T[m] # "ended"
    BY <1>2, <1>4, <1>5
  <2>6. o \in BOOLEAN
    BY Zenon
  <2> HIDE DEF T, o
  <2>7. r \in Exec!Exec
    BY <2>1, <2>2, <2>6, <1>2 DEF Exec!Exec
  <2>8. Leaving(r)
    BY <2>1, <2>5 DEF Leaving
  <2> QED
    BY <2>1, <2>3, <2>4, <2>7, <2>8, <1>2 DEF Good, OneTask, Unborn, Young
<1>7. CASE r = Exec!CreateFails([a EXCEPT !.args = n])
  <2>1. r = [end |-> TRUE, handle |-> a.handle, sig |-> TRUE, args |-> n,
             tasks |-> a.tasks, crashed |-> FALSE, overtaken |-> a.overtaken]
    BY <1>1, <1>4, <1>7 DEF Exec!CreateFails, Exec!Exec
  <2>2. r \in Exec!Exec
    BY <2>1, <1>2, <1>4 DEF Exec!Exec
  <2>3. \A m \in Exec!Commands : m > k + 1 => a.tasks[m] = "none"
    BY <1>1 DEF Free, Unborn, Waiting, Exec!Commands
  <2>4. Leaving(r)
    BY <2>1, <1>1 DEF Free, Leaving
  <2> QED
    BY <2>1, <2>2, <2>3, <2>4, <1>1 DEF Good, OneTask, Unborn, Free
<1> QED
  BY <1>3, <1>6, <1>7

LEMMA LineGood ==
    ASSUME Waiting, lines \in 0..MaxLines, NEW s, Good(s, lines), Begun(s), Exec!shell_exec(s)
    PROVE  ExecInv'
<1>1. CASE exec' = s /\ UNCHANGED lines
  BY <1>1 DEF ExecInv
<1>2. CASE /\ lines < MaxLines /\ lines' = lines + 1
           /\ exec' \in Exec!Started(Exec!Armed(s), lines + 1)
  <2>1. Good(exec', lines + 1)
    BY <1>2, ArmedGood, StartedGood
  <2> QED
    BY <2>1, <1>2 DEF ExecInv, Waiting
<1> QED
  BY <1>1, <1>2 DEF Exec!shell_exec

(* Ctrl-C aborts what runs. *)
LEMMA InterruptedGood ==
    ASSUME Waiting, NEW k \in 0..MaxLines, NEW s, Good(s, k), Begun(s)
    PROVE  Good(Exec!Interrupted(s), k) /\ Begun(Exec!Interrupted(s))
<1>1. CASE ~s.sig
  BY <1>1 DEF Exec!Interrupted
<1>2. CASE s.sig
  <2> DEFINE a == Exec!shell_abort_exec(s)
             r == Exec!Interrupted(s)
  <2>1. Free(a, k)
    BY AbortFrees
  <2>2. r = [a EXCEPT !.sig = FALSE]
    BY <1>2 DEF Exec!Interrupted
  <2> HIDE DEF a, r
  <2>3. r = [end |-> a.end, handle |-> a.handle, sig |-> FALSE, args |-> a.args,
             tasks |-> a.tasks, crashed |-> a.crashed, overtaken |-> a.overtaken]
    BY <2>1, <2>2 DEF Free, Exec!Exec
  <2>4. r \in Exec!Exec
    BY <2>1, <2>3 DEF Free, Exec!Exec
  <2>5. Free(r, k)
    BY <2>1, <2>3, <2>4 DEF Free, Leaving, Unborn
  <2> QED
    BY <2>5, FreeIsGood DEF r
<1> QED
  BY <1>1, <1>2
-----------------------------------------------------------------------------
(* The steps of the command's task. *)

LEMMA TaskStepGood ==
    ASSUME Waiting, ExecInv, ~exec.crashed, NEW n \in Exec!Commands, NEW e \in BOOLEAN,
           NEW to \in {"running", "ended"},
           exec.tasks[n] \in Young, to = "running" => exec.tasks[n] = "ready",
           e <=> to # "running",
           exec' = [exec EXCEPT !.end = e, !.tasks[n] = to], lines' = lines
    PROVE  ExecInv'
<1> DEFINE U == [exec.tasks EXCEPT ![n] = to]
<1>1. exec \in Exec!Exec /\ exec.tasks \in [Exec!Tasks -> Exec!States]
  BY DEF ExecInv, Good, Exec!Exec
<1>2. /\ Exec!Commands \subseteq Exec!Tasks
      /\ Exec!Shell \in Exec!Tasks /\ Exec!Shell \notin Exec!Commands
  BY CommandsAreTasks DEF Waiting
<1>3. exec' = [end |-> e, handle |-> exec.handle, sig |-> exec.sig, args |-> exec.args,
               tasks |-> U, crashed |-> exec.crashed, overtaken |-> exec.overtaken]
  BY <1>1 DEF Exec!Exec
<1>4. /\ U \in [Exec!Tasks -> Exec!States] /\ U[n] = to
      /\ \A m \in Exec!Tasks : m # n => U[m] = exec.tasks[m]
  BY <1>1, <1>2 DEF Exec!States
<1>5. /\ exec.sig \in BOOLEAN /\ exec.crashed \in BOOLEAN /\ exec.overtaken \in BOOLEAN
      /\ exec.handle \in Exec!Tasks \cup {NULL} /\ exec.args \in Exec!Tasks
  BY <1>1 DEF Exec!Exec
<1> HIDE DEF U
<1>6. exec' \in Exec!Exec
  BY <1>3, <1>4, <1>5 DEF Exec!Exec
<1>7. /\ exec.handle = n /\ exec.args = n /\ exec.sig = TRUE
      /\ \A m \in Exec!Commands : m # n => exec.tasks[m] \notin Young
      /\ ~exec.overtaken => \A m \in Exec!Commands : exec.tasks[m] # "ended"
  BY DEF ExecInv, Good, OneTask, Leaving, Young
<1>8. /\ exec'.tasks = U /\ exec'.handle = n /\ exec'.args = n /\ exec'.sig = TRUE
      /\ exec'.end = e /\ exec'.crashed = exec.crashed /\ exec'.overtaken = exec.overtaken
  BY ONLY <1>3, <1>7
<1>9. \A m \in Exec!Commands : U[m] \in Young => m = n
  BY <1>2, <1>4, <1>7
<1>10. OneTask(exec')
  <2>1. U[Exec!Shell] = "running" /\ n # Exec!Shell
    BY <1>2, <1>4 DEF ExecInv, Good, OneTask
  <2> QED
    BY <1>4, <1>8, <1>9, <2>1 DEF OneTask, Young
<1>11. Leaving(exec')
  <2>1. ~exec.overtaken => \A m \in Exec!Commands : m # n => U[m] \notin Young \cup {"ended"}
    BY <1>2, <1>4, <1>7
  <2> QED
    BY <1>8, <2>1 DEF Leaving
<1>12. Unborn(exec', lines')
  BY <1>2, <1>3, <1>4 DEF Unborn, ExecInv, Good, Young
<1> QED
  BY <1>6, <1>10, <1>11, <1>12 DEF ExecInv, Good

(* A task that has returned deletes itself, or, if a line overtook it, the *)
(* task of that line. *)
LEMMA TaskEndsGood ==
    ASSUME Waiting, ExecInv, NEW n \in Exec!Commands, Exec!TaskEnds(n)
    PROVE  ExecInv'
<1> DEFINE v == Exec!Victim(exec, n)
           U == [exec.tasks EXCEPT ![v] = "deleted"]
<1>1. /\ exec \in Exec!Exec /\ exec.tasks \in [Exec!Tasks -> Exec!States]
      /\ exec.crashed = FALSE /\ lines' = lines /\ exec.tasks[n] = "ended"
  BY DEF ExecInv, Good, Exec!Exec, Exec!TaskEnds
<1>2. /\ Exec!Commands \subseteq Exec!Tasks
      /\ Exec!Shell \in Exec!Tasks /\ Exec!Shell \notin Exec!Commands
  BY CommandsAreTasks DEF Waiting
<1>3. v \in Exec!Tasks /\ v # Exec!Shell /\ v # NULL
  BY <1>1, <1>2 DEF ExecInv, Good, OneTask, Exec!Exec, Exec!Victim, Waiting
<1>4. /\ exec.handle = NULL => v = n
      /\ exec.handle # NULL => v = exec.handle
  BY DEF Exec!Victim
<1>5. /\ U \in [Exec!Tasks -> Exec!States] /\ U[v] = "deleted"
      /\ \A m \in Exec!Tasks : m # v => U[m] = exec.tasks[m]
  BY <1>1, <1>3 DEF Exec!States
<1>6. \A m \in Exec!Commands : exec.tasks[m] \in Young => m = v
  BY <1>2, <1>4 DEF ExecInv, Good, OneTask, Waiting
<1>7. \A m \in Exec!Commands : U[m] \notin Young
  BY <1>2, <1>5, <1>6 DEF Young
<1>8. U[Exec!Shell] = "running"
  BY <1>2, <1>3, <1>5 DEF ExecInv, Good, OneTask
<1>9. v # n => exec.overtaken = TRUE
  BY <1>1, <1>4 DEF ExecInv, Good, Leaving, Exec!Exec
<1>10. CASE v = n
  <2>1. exec' = Exec!vTaskDelete(exec, n)
    BY <1>10 DEF Exec!TaskEnds
  <2>2. exec' = [end |-> exec.end, handle |-> exec.handle, sig |-> exec.sig,
                 args |-> exec.args, tasks |-> U, crashed |-> FALSE,
                 overtaken |-> exec.overtaken]
    BY <1>1, <1>2, <1>10, <2>1 DEF Exec!vTaskDelete, Exec!Exec
  <2>3. exec.end = TRUE
    <3>1. \A m \in Exec!Commands : exec.tasks[m] # "running"
      BY <1>1, <1>6, <1>10 DEF Young
    <3> QED
      BY <1>1, <3>1 DEF ExecInv, Good, OneTask, Exec!Exec
  <2>4. /\ exec.sig \in BOOLEAN /\ exec.args \in Exec!Tasks /\ exec.overtaken \in BOOLEAN
        /\ exec.handle \in Exec!Tasks \cup {NULL} /\ exec.handle # Exec!Shell
    BY <1>1 DEF Exec!Exec, ExecInv, Good, OneTask
  <2>5. ~exec.overtaken => \A m \in Exec!Commands : U[m] # "ended"
    BY <1>1, <1>2, <1>5, <1>10 DEF ExecInv, Good, Leaving
  <2>6. \A m \in Exec!Commands : m > lines => U[m] = "none"
    BY <1>1, <1>2, <1>5, <1>10 DEF ExecInv, Good, Unborn
  <2> HIDE DEF U, v
  <2>7. exec' \in Exec!Exec
    BY <2>2, <2>3, <2>4, <1>5 DEF Exec!Exec
  <2>8. Leaving(exec')
    BY <2>2, <2>5 DEF Leaving
  <2>9. Free(exec', lines')
    BY <1>1, <1>7, <1>8, <2>2, <2>3, <2>4, <2>6, <2>7, <2>8 DEF Free, Unborn
  <2> QED
    BY <1>1, <2>9, FreeIsGood DEF ExecInv
<1>11. CASE v # n
  <2>1. exec' = [Exec!vTaskDelete(exec, n) EXCEPT !.handle = NULL, !.crashed = TRUE]
    BY <1>11 DEF Exec!TaskEnds
  <2>2. exec' = [end |-> exec.end, handle |-> NULL, sig |-> exec.sig,
                 args |-> exec.args, tasks |-> U, crashed |-> TRUE,
                 overtaken |-> TRUE]
    BY <1>1, <1>9, <1>11, <2>1 DEF Exec!vTaskDelete, Exec!Exec
  <2>3. /\ exec.sig \in BOOLEAN /\ exec.args \in Exec!Tasks /\ exec.end \in BOOLEAN
        /\ NULL # Exec!Shell
    BY <1>1, <1>2 DEF Exec!Exec, Waiting
  <2> HIDE DEF U, v
  <2>4. exec' \in Exec!Exec
    BY <2>2, <2>3, <1>5 DEF Exec!Exec
  <2>5. OneTask(exec') /\ Leaving(exec')
    BY <1>7, <1>8, <2>2, <2>3 DEF OneTask, Leaving
  <2> QED
    BY <1>1, <2>2, <2>4, <2>5 DEF ExecInv, Good, Unborn
<1> QED
  BY <1>10, <1>11

LEMMA ExecNextInv ==
    ASSUME Waiting, ExecInv, [Exec!Next]_(Exec!vars)
    PROVE  ExecInv'
<1>1. Good(exec, lines) /\ lines \in 0..MaxLines
  BY DEF ExecInv
<1>2. CASE Exec!Enter
  <2>1. Begun(exec)
    BY <1>2 DEF Exec!Enter, Exec!Ready, Exec!Begun, Waiting, Begun
  <2> QED
    BY <1>1, <1>2, <2>1, LineGood DEF Exec!Enter
<1>3. CASE Exec!CtrlC
  <2>1. Begun(exec)
    BY <1>3 DEF Exec!CtrlC, Exec!Ready, Exec!Begun, Waiting, Begun
  <2>2. Good(Exec!Interrupted(exec), lines) /\ Begun(Exec!Interrupted(exec))
    BY <1>1, <2>1, InterruptedGood
  <2> QED
    BY <1>1, <1>3, <2>2, LineGood DEF Exec!CtrlC
<1>4. ASSUME NEW n \in Exec!Commands, Exec!TaskBegins(n) PROVE ExecInv'
  <2>1. /\ ~exec.crashed /\ exec.tasks[n] = "ready" /\ lines' = lines
        /\ exec' = [exec EXCEPT !.end = FALSE, !.tasks[n] = "running"]
    BY <1>4 DEF Exec!TaskBegins
  <2> QED
    BY <2>1, TaskStepGood DEF Young
<1>5. ASSUME NEW n \in Exec!Commands, Exec!CommandReturns(n) PROVE ExecInv'
  <2>1. /\ ~exec.crashed /\ exec.tasks[n] = "running" /\ lines' = lines
        /\ exec' = [exec EXCEPT !.end = TRUE, !.tasks[n] = "ended"]
    BY <1>5 DEF Exec!CommandReturns
  <2> QED
    BY <2>1, TaskStepGood DEF Young
<1>6. CASE UNCHANGED Exec!vars
  BY <1>1, <1>6 DEF ExecInv, Exec!vars
<1> QED
  BY <1>2, <1>3, <1>4, <1>5, <1>6, TaskEndsGood DEF Exec!Next, Exec!shell_exec_task
-----------------------------------------------------------------------------
LEMMA ExecInductive ==
    ASSUME Waiting
    PROVE  Exec!Spec => []ExecInv
<1>1. Exec!Init => ExecInv
  BY ExecInitInv DEF Waiting
<1>2. ExecInv /\ [Exec!Next]_(Exec!vars) => ExecInv'
  BY ExecNextInv
<1> QED
  BY <1>1, <1>2, PTL DEF Exec!Spec
-----------------------------------------------------------------------------
(* The types alone, for any user. *)
LEMMA DeleteTyped ==
    ASSUME NEW s \in Exec!Exec, NEW t \in Exec!Tasks
    PROVE  Exec!vTaskDelete(s, t) \in Exec!Exec
<1> DEFINE v == Exec!Victim(s, t)
           c == \/ s.crashed \/ v = Exec!Shell
                \/ s.tasks[v] = "deleted"
           T == [s.tasks EXCEPT ![v] = "deleted"]
<1>1. v \in Exec!Tasks
  BY DEF Exec!Victim, Exec!Exec
<1>2. T \in [Exec!Tasks -> Exec!States]
  BY DEF Exec!Exec, Exec!States
<1>3. c \in BOOLEAN
  BY Zenon
<1>4. Exec!vTaskDelete(s, t) = [s EXCEPT !.tasks = T, !.crashed = c]
  BY Zenon DEF Exec!vTaskDelete
<1> HIDE DEF c, T
<1>5. [s EXCEPT !.tasks = T, !.crashed = c] \in Exec!Exec
  BY <1>2, <1>3 DEF Exec!Exec
<1> QED
  BY <1>4, <1>5

LEMMA AbortTyped ==
    ASSUME NEW s \in Exec!Exec
    PROVE  Exec!shell_abort_exec(s) \in Exec!Exec
<1> DEFINE d == Exec!vTaskDelete(s, Exec!Shell)
<1>1. d \in Exec!Exec
  BY DeleteTyped, CommandsAreTasks, ShellSessionAssumption DEF ShellSessionAssumption
<1> HIDE DEF d
<1>2. [d EXCEPT !.end = TRUE, !.handle = NULL] \in Exec!Exec
  BY <1>1 DEF Exec!Exec
<1> QED
  BY <1>2 DEF Exec!shell_abort_exec, d

LEMMA StartedTyped ==
    ASSUME NEW s \in Exec!Exec, NEW n \in Exec!Commands, NEW r \in Exec!Started(s, n)
    PROVE  r \in Exec!Exec
<1> DEFINE a == Exec!shell_abort_exec(s)
           g == [a EXCEPT !.args = n]
<1>1. n \in Exec!Tasks
  BY CommandsAreTasks, ShellSessionAssumption DEF ShellSessionAssumption
<1>2. a \in Exec!Exec
  BY AbortTyped
<1> HIDE DEF a
<1>3. g \in Exec!Exec
  BY <1>1, <1>2 DEF Exec!Exec
<1>4. r \in {Exec!Created(g, n), Exec!CreateFails(g)}
  BY DEF Exec!Started, a
<1> HIDE DEF g
<1>5. Exec!Created(g, n) \in Exec!Exec
  <2> DEFINE T == [g.tasks EXCEPT ![n] = "ready"]
             o == g.overtaken \/ \E m \in Exec!Commands : g.tasks[m] = "ended"
  <2>1. T \in [Exec!Tasks -> Exec!States]
    BY <1>3 DEF Exec!Exec, Exec!States
  <2>2. o \in BOOLEAN
    BY Zenon
  <2>3. Exec!Created(g, n) = [g EXCEPT !.handle = n, !.tasks = T, !.overtaken = o]
    BY Zenon DEF Exec!Created
  <2> HIDE DEF T, o
  <2>4. [g EXCEPT !.handle = n, !.tasks = T, !.overtaken = o] \in Exec!Exec
    BY <1>1, <1>3, <2>1, <2>2 DEF Exec!Exec
  <2> QED
    BY <2>3, <2>4
<1>6. Exec!CreateFails(g) \in Exec!Exec
  BY <1>3 DEF Exec!CreateFails, Exec!Exec
<1> QED
  BY <1>4, <1>5, <1>6

LEMMA LineTyped ==
    ASSUME NEW s \in Exec!Exec, lines \in 0..MaxLines, Exec!shell_exec(s)
    PROVE  Exec!TypeOK'
<1>1. CASE exec' = s /\ UNCHANGED lines
  BY <1>1 DEF Exec!TypeOK
<1>2. CASE /\ lines < MaxLines /\ lines' = lines + 1
           /\ exec' \in Exec!Started(Exec!Armed(s), lines + 1)
  <2>1. Exec!Armed(s) \in Exec!Exec
    BY DEF Exec!Armed, Exec!Exec
  <2>2. lines + 1 \in Exec!Commands /\ lines + 1 \in 0..MaxLines
    BY <1>2, ShellSessionAssumption DEF Exec!Commands, ShellSessionAssumption
  <2> QED
    BY <1>2, <2>1, <2>2, StartedTyped DEF Exec!TypeOK
<1> QED
  BY <1>1, <1>2 DEF Exec!shell_exec

LEMMA InterruptedTyped ==
    ASSUME NEW s \in Exec!Exec
    PROVE  Exec!Interrupted(s) \in Exec!Exec
<1> DEFINE a == Exec!shell_abort_exec(s)
<1>1. a \in Exec!Exec
  BY AbortTyped
<1> HIDE DEF a
<1>2. [a EXCEPT !.sig = FALSE] \in Exec!Exec
  BY <1>1 DEF Exec!Exec
<1> QED
  BY <1>2 DEF Exec!Interrupted, a

LEMMA TaskTyped ==
    ASSUME Exec!TypeOK, NEW n \in Exec!Commands, Exec!shell_exec_task(n)
    PROVE  Exec!TypeOK'
<1>1. exec \in Exec!Exec /\ lines \in 0..MaxLines /\ n \in Exec!Tasks
  BY CommandsAreTasks, ShellSessionAssumption DEF Exec!TypeOK, ShellSessionAssumption
<1>2. ASSUME NEW e \in BOOLEAN, NEW to \in Exec!States,
             exec' = [exec EXCEPT !.end = e, !.tasks[n] = to]
      PROVE  exec' \in Exec!Exec
  <2> DEFINE T == [exec.tasks EXCEPT ![n] = to]
  <2>1. T \in [Exec!Tasks -> Exec!States]
    BY <1>1 DEF Exec!Exec
  <2>2. exec' = [end |-> e, handle |-> exec.handle, sig |-> exec.sig, args |-> exec.args,
                 tasks |-> T, crashed |-> exec.crashed, overtaken |-> exec.overtaken]
    BY <1>1, <1>2 DEF Exec!Exec
  <2> HIDE DEF T
  <2> QED
    BY <1>1, <2>1, <2>2 DEF Exec!Exec
<1>3. CASE Exec!TaskBegins(n) \/ Exec!CommandReturns(n)
  BY <1>1, <1>2, <1>3 DEF Exec!TaskBegins, Exec!CommandReturns, Exec!TypeOK, Exec!States
<1>4. CASE Exec!TaskEnds(n)
  <2> DEFINE d == Exec!vTaskDelete(exec, n)
  <2>1. d \in Exec!Exec
    BY <1>1, DeleteTyped
  <2>2. exec' \in {d, [d EXCEPT !.handle = NULL, !.crashed = TRUE]} /\ UNCHANGED lines
    BY <1>4 DEF Exec!TaskEnds
  <2> HIDE DEF d
  <2>3. [d EXCEPT !.handle = NULL, !.crashed = TRUE] \in Exec!Exec
    BY <2>1 DEF Exec!Exec
  <2> QED
    BY <1>1, <2>1, <2>2, <2>3 DEF Exec!TypeOK
<1> QED
  BY <1>3, <1>4 DEF Exec!shell_exec_task
-----------------------------------------------------------------------------
(* The ring of the shell is a ring buffer that is written and read one     *)
(* byte at a time; the facts of RingBuffer_proofs hold of it.              *)
Buffer == INSTANCE RingBuffer_proofs
            WITH call <- <<>>, got <- <<>>, ret <- 0,
                 MaxLen <- 1, ForceOverwrites <- FALSE

Ordered(b) == Buffer!Ordered(b)

LEMMA BufferAssumptions ==
    Buffer!RingAssumption /\ Buffer!RingBufferAssumption
  BY RingAssumption DEF RingAssumption, Buffer!RingAssumption, Buffer!RingBufferAssumption

LEMMA SameRing ==
    /\ Buffer!Slots = Slots
    /\ Buffer!Ring = Ring
    /\ \A i : Buffer!Slot(i) = Slot(i)
    /\ \A b : Buffer!Ring_Buffer_Get_Length(b) = Ring_Buffer_Get_Length(b)
<1>1. Buffer!Slots = Slots /\ Buffer!Ring = Ring
  BY DEF Slots, Buffer!Slots, Ring, Buffer!Ring
<1>2. \A i : Buffer!Slot(i) = Slot(i)
  BY DEF Slot, Buffer!Slot
<1>3. \A b : Buffer!Ring_Buffer_Get_Length(b) = Ring_Buffer_Get_Length(b)
  BY DEF Ring_Buffer_Get_Length, Buffer!Ring_Buffer_Get_Length,
         LengthOf, Buffer!LengthOf, Wrap, Buffer!Wrap
<1> QED
  BY <1>1, <1>2, <1>3

LEMMA SameSteps ==
    /\ \A b : Buffer!Contents(b) = Contents(b)
    /\ \A b, s : Buffer!Written(b, s) = Written(b, s)
    /\ \A b, n : Buffer!Dropped(b, n) = Dropped(b, n)
<1>1. \A b : Buffer!Contents(b) = Contents(b)
  BY SameRing DEF Contents, Buffer!Contents
<1>2. /\ \A i, n : Buffer!Moved(i, n) = Moved(i, n)
      /\ \A m, i, n : Buffer!Mirrored(m, i, n) = Mirrored(m, i, n)
  BY DEF Moved, Buffer!Moved, Mirrored, Buffer!Mirrored
<1>3. \A b, s : Buffer!Copied(b, s) = Copied(b, s)
  BY SameRing DEF Copied, Buffer!Copied
<1>4. \A b, s : Buffer!Written(b, s) = Written(b, s)
  BY <1>2, <1>3, Zenon DEF Written, Buffer!Written
<1>5. \A b, n : Buffer!Dropped(b, n) = Dropped(b, n)
  BY <1>2, Zenon DEF Dropped, Buffer!Dropped
<1> QED
  BY <1>1, <1>4, <1>5

(* The length of the code is that of the contents, and never wraps. *)
LEMMA LengthFacts ==
    ASSUME NEW b \in Ring, Ordered(b)
    PROVE  /\ Ring_Buffer_Get_Length(b) \in 0..Size
           /\ Contents(b) \in Seq(Data)
           /\ Len(Contents(b)) = Ring_Buffer_Get_Length(b)
           /\ Ring_Buffer_Get_Length(b) > 0 => Contents(b)[1] = b.buf[b.readIndex]
<1>1. b \in Buffer!Ring /\ Buffer!Ordered(b)
  BY SameRing DEF Ordered
<1>2. Buffer!Ring_Buffer_Get_Length(b) \in 0..Size
  BY <1>1, BufferAssumptions, Buffer!LengthBounds
<1>3. /\ Buffer!Contents(b) \in Seq(Data)
      /\ Len(Buffer!Contents(b)) = Buffer!Ring_Buffer_Get_Length(b)
      /\ \A k \in 1..Buffer!Ring_Buffer_Get_Length(b) :
            Buffer!Contents(b)[k] = b.buf[Buffer!Slot(b.readIndex + k - 1)]
  BY <1>1, BufferAssumptions, Buffer!ContentsSeq
<1>4. Ring_Buffer_Get_Length(b) > 0 => Contents(b)[1] = b.buf[Slot(b.readIndex + 1 - 1)]
  BY <1>2, <1>3, SameRing, SameSteps
<1>5. Slot(b.readIndex + 1 - 1) = b.readIndex
  BY RingAssumption DEF RingAssumption, Slot, Ring, Slots
<1> QED
  BY <1>2, <1>3, <1>4, <1>5, SameRing, SameSteps

(* A byte that fits is appended. *)
LEMMA ByteStored ==
    ASSUME NEW b \in Ring, Ordered(b), NEW d \in Data, Len(Contents(b)) < Size
    PROVE  /\ Written(b, <<d>>) \in Ring /\ Ordered(Written(b, <<d>>))
           /\ Contents(Written(b, <<d>>)) = Contents(b) \o <<d>>
<1>1. b \in Buffer!Ring /\ Buffer!Ordered(b) /\ Buffer!Ring_Buffer_Get_Length(b) < Size
  BY LengthFacts, SameRing DEF Ordered
<1>2. /\ Buffer!Written(b, <<d>>) \in Buffer!Ring /\ Buffer!Ordered(Buffer!Written(b, <<d>>))
      /\ Buffer!Contents(Buffer!Written(b, <<d>>)) = Buffer!Contents(b) \o <<d>>
  BY <1>1, BufferAssumptions, Buffer!ByteWritten
<1> QED
  BY <1>2, SameRing, SameSteps DEF Ordered

(* A byte that is there is taken from the front. *)
LEMMA ByteDropped ==
    ASSUME NEW b \in Ring, Ordered(b), Len(Contents(b)) > 0
    PROVE  /\ Dropped(b, 1) \in Ring /\ Ordered(Dropped(b, 1))
           /\ Contents(Dropped(b, 1)) = SubSeq(Contents(b), 2, Len(Contents(b)))
<1>1. /\ b \in Buffer!Ring /\ Buffer!Ordered(b)
      /\ 1 \in Nat /\ 1 <= Buffer!Ring_Buffer_Get_Length(b)
  BY LengthFacts, SameRing DEF Ordered
<1>2. /\ Buffer!Dropped(b, 1) \in Buffer!Ring /\ Buffer!Ordered(Buffer!Dropped(b, 1))
  BY <1>1, BufferAssumptions, Buffer!DroppedKeeps
<1>3. Buffer!Contents(Buffer!Dropped(b, 1)) =
         SubSeq(Buffer!Contents(b), 1 + 1, Len(Buffer!Contents(b)))
  BY <1>1, BufferAssumptions, Buffer!ContentsDropped
<1> QED
  BY <1>2, <1>3, SameRing, SameSteps DEF Ordered

(* Sequences that start later, or end later. *)
LEMMA RestOfRest ==
    ASSUME NEW S, NEW s \in Seq(S), NEW n \in 0..Len(s), n < Len(s),
           NEW r, r = SubSeq(s, n + 1, Len(s))
    PROVE  /\ Len(r) = Len(s) - n /\ r[1] = s[n + 1]
           /\ SubSeq(r, 2, Len(r)) = SubSeq(s, n + 2, Len(s))
<1> DEFINE l == Len(s)
           t == SubSeq(r, 2, Len(r))
           u == SubSeq(s, n + 2, Len(s))
<1>1. l \in Nat /\ n \in Nat /\ n < l
  OBVIOUS
<1>2. r \in Seq(S) /\ Len(r) = l - n /\ \A k \in 1..(l - n) : r[k] = s[n + k]
  OBVIOUS
<1>3. t \in Seq(S) /\ Len(t) = l - n - 1 /\ \A k \in 1..(l - n - 1) : t[k] = r[k + 1]
  BY <1>1, <1>2
<1>4. u \in Seq(S) /\ Len(u) = l - n - 1 /\ \A k \in 1..(l - n - 1) : u[k] = s[n + k + 1]
  BY <1>1
<1>5. \A k \in 1..(l - n - 1) : r[k + 1] = s[n + k + 1]
  BY <1>1, <1>2
<1> HIDE DEF t, u
<1>6. t = u
  BY <1>3, <1>4, <1>5, SeqEqual
<1>7. r[1] = s[n + 1]
  BY <1>1, <1>2
<1> QED
  BY <1>2, <1>6, <1>7 DEF t, u, l

LEMMA RestAppended ==
    ASSUME NEW S, NEW s \in Seq(S), NEW n \in 0..Len(s), NEW d \in S
    PROVE  SubSeq(Append(s, d), n + 1, Len(s) + 1) = SubSeq(s, n + 1, Len(s)) \o <<d>>
<1> DEFINE l == Len(s)
           r == SubSeq(s, n + 1, l)
           t == SubSeq(Append(s, d), n + 1, l + 1)
           u == r \o <<d>>
<1>1. l \in Nat /\ n \in Nat /\ n <= l
  OBVIOUS
<1>2. r \in Seq(S) /\ Len(r) = l - n /\ \A k \in 1..(l - n) : r[k] = s[n + k]
  BY <1>1
<1>3. /\ Append(s, d) \in Seq(S) /\ Len(Append(s, d)) = l + 1
      /\ \A k \in 1..(l + 1) : Append(s, d)[k] = IF k <= l THEN s[k] ELSE d
  OBVIOUS
<1>4. /\ t \in Seq(S) /\ Len(t) = l + 1 - n
      /\ \A k \in 1..(l + 1 - n) : t[k] = IF n + k <= l THEN s[n + k] ELSE d
  BY <1>1, <1>3
<1>5. <<d>> \in Seq(S) /\ Len(<<d>>) = 1 /\ <<d>>[1] = d
  OBVIOUS
<1>6. /\ u \in Seq(S) /\ Len(u) = Len(r) + 1
      /\ \A k \in 1..(Len(r) + 1) : u[k] = IF k <= Len(r) THEN r[k] ELSE <<d>>[k - Len(r)]
  BY <1>2, <1>5, ConcatProperties
<1> HIDE DEF r, t, u, l
<1>7. Len(t) = Len(u) /\ \A k \in 1..Len(t) : t[k] = u[k]
  BY <1>1, <1>2, <1>4, <1>5, <1>6
<1>8. t = u
  BY <1>4, <1>6, <1>7, SeqEqual
<1> QED
  BY <1>8 DEF r, t, u, l
-----------------------------------------------------------------------------
(* The input, for a sender who leaves no more unread than the buffer holds. *)

Unread == Len(accepted) - taken

Torn == pc \in {"index", "mirror"}

(* The bytes that have left the buffer. *)
Removed == taken + (IF Torn THEN 1 ELSE 0)

Reading == {"read", "load", "store", "index", "mirror"}

(* What was loaded of the write end is still so. *)
Exact == seen.mirror \subseteq {rb.writeMirror} /\ seen.index \subseteq {rb.writeIndex}

(* Nothing has arrived that this round of the task does not know of. *)
UpToDate ==
    /\ pc \in {"length", "read"} => Exact
    /\ pc \in Reading => len = Unread

(* The bytes: where they are, at each point of a read. *)
BytesInv ==
    /\ Ordered(Settled)
    /\ Contents(Settled) = SubSeq(accepted, Removed + 1, Len(accepted))
    /\ pc = "index" => rb.readIndex = Size - 1
    /\ pc = "mirror" => rb.readIndex = 0
    /\ pc \in {"load", "store"} \/ Torn => Unread > 0
    /\ pc = "store" \/ Torn => data = accepted[taken + 1]

(* The samples: a read that finds nothing missed an arrival, and one that  *)
(* finds something is right.                                               *)
SampleInv ==
    /\ pc \in Reading => len >= 1
    /\ pc \notin {"length", "read"} => seen = Unseen
    /\ pc \in {"length", "read"} /\ Unread = 0 => Exact

(* The semaphore: without it, everything that is there is being read. *)
WakeInv == ~sem => UpToDate /\ (pc = "wait" => Unread = 0)

InputInv == TypeOK /\ BytesInv /\ SampleInv /\ WakeInv

LEMMA SettledIs ==
    /\ pc = "index" => Settled = [rb EXCEPT !.readIndex = 0]
    /\ pc = "mirror" => Settled = [rb EXCEPT !.readMirror = ~@]
    /\ ~Torn => Settled = rb
  BY DEF Settled, Torn

LEMMA Numbers ==
    /\ Size \in Nat /\ Size > 0 /\ Word \in Nat /\ Word > 2 * Size
    /\ MaxBytes \in Nat /\ Data = 0..MaxBytes
  BY RingAssumption, ShellInputAssumption DEF RingAssumption, ShellInputAssumption

LEMMA InputTypes ==
    ASSUME TypeOK
    PROVE  /\ Settled \in Ring /\ rb \in Ring
           /\ taken \in Nat /\ Len(accepted) \in Nat /\ accepted \in Seq(Data)
           /\ Unread \in Nat /\ Unread = Len(accepted) - taken
           /\ pc \in Points
<1>0. rb \in Ring /\ 0 \in Slots
  BY Numbers DEF TypeOK, Slots
<1>1. [rb EXCEPT !.readIndex = 0] \in Ring
  BY <1>0 DEF Ring
<1>2. [rb EXCEPT !.readMirror = ~@] \in Ring
  BY DEF TypeOK, Ring
<1>3. Settled \in {rb, [rb EXCEPT !.readIndex = 0], [rb EXCEPT !.readMirror = ~@]}
  BY SettledIs DEF Torn
<1>4. accepted \in Seq(Data) /\ Len(accepted) \in Nat /\ taken \in 0..Len(accepted)
  BY DEF TypeOK
<1> QED
  BY <1>1, <1>2, <1>3, <1>4 DEF TypeOK, Unread

(* As many bytes are in the buffer as were accepted and not yet removed. *)
LEMMA BytesThere ==
    ASSUME TypeOK, BytesInv
    PROVE  /\ Removed \in 0..Len(accepted) /\ Removed = taken + (IF Torn THEN 1 ELSE 0)
           /\ Len(Contents(Settled)) = Len(accepted) - Removed
           /\ ~Torn => Settled = rb /\ Removed = taken
           /\ ~Torn => Ring_Buffer_Get_Length(rb) = Unread
<1>1. Removed \in 0..Len(accepted)
  BY InputTypes DEF BytesInv, Removed
<1>2. Len(SubSeq(accepted, Removed + 1, Len(accepted))) = Len(accepted) - Removed
  BY <1>1, InputTypes
<1>3. Len(Contents(Settled)) = Len(accepted) - Removed
  BY <1>2 DEF BytesInv
<1>4. ~Torn => Settled = rb /\ Removed = taken
  BY SettledIs, InputTypes DEF Removed
<1>5. ~Torn => Ring_Buffer_Get_Length(rb) = Unread
  BY <1>3, <1>4, InputTypes, LengthFacts DEF BytesInv
<1> QED
  BY <1>1, <1>3, <1>4, <1>5 DEF Removed

(* A sample that is still right tells how many bytes are unread. *)
LEMMA SampleRight ==
    ASSUME TypeOK, BytesInv, pc \in {"length", "read"}, Exact, NEW n, SampledLength(n)
    PROVE  n = Unread
<1>1. PICK mirror \in seen.mirror, index \in seen.index :
         n = LengthOf(rb.readMirror, mirror, rb.readIndex, index)
  BY DEF SampledLength
<1>2. mirror = rb.writeMirror /\ index = rb.writeIndex
  BY <1>1 DEF Exact
<1>3. n = Ring_Buffer_Get_Length(rb)
  BY <1>1, <1>2 DEF Ring_Buffer_Get_Length
<1>4. ~Torn
  BY DEF Torn
<1> QED
  BY <1>3, <1>4, BytesThere

LEMMA InputInit ==
    ASSUME Init
    PROVE  InputInv
<1>1. rb \in Ring /\ Settled = rb /\ ~Torn /\ pc = "wait"
  BY Numbers, SettledIs DEF Init, Ring, Slots, Torn
<1>2. Ordered(rb)
  BY SameRing DEF Init, Ordered, Buffer!Ordered
<1>3. Ring_Buffer_Get_Length(rb) = 0
  BY DEF Init, Ring_Buffer_Get_Length, LengthOf, Wrap
<1>4. Contents(rb) \in Seq(Data) /\ Len(Contents(rb)) = 0
  BY <1>1, <1>2, <1>3, LengthFacts
<1>5. accepted = <<>> /\ taken = 0 /\ Unread = 0 /\ Removed = 0
  BY <1>1 DEF Init, Unread, Removed
<1>6. TypeOK
  BY <1>1, <1>5, Numbers DEF Init, TypeOK, Points, Unseen
<1>7. Contents(Settled) = SubSeq(accepted, Removed + 1, Len(accepted))
  BY <1>1, <1>4, <1>5
<1>8. BytesInv
  BY <1>1, <1>2, <1>7 DEF BytesInv
<1>9. SampleInv /\ WakeInv
  BY <1>1, <1>5 DEF Init, SampleInv, WakeInv, Reading, UpToDate
<1> QED
  BY <1>6, <1>8, <1>9 DEF InputInv
-----------------------------------------------------------------------------
(* The steps of the task.  Between two reads a step leaves the bytes where *)
(* they are.                                                               *)
LEMMA BytesKept ==
    ASSUME TypeOK, BytesInv, UNCHANGED <<rb, accepted, taken>>, ~Torn, ~Torn',
           pc' = "load" => Unread > 0,
           pc' = "store" => Unread > 0 /\ data' = accepted[taken + 1]
    PROVE  BytesInv' /\ Unread' = Unread
<1>1. Settled = rb /\ Settled' = rb
  BY SettledIs DEF Settled, Torn
<1>2. Removed = taken /\ Removed' = taken
  BY InputTypes DEF Removed
<1>3. Unread' = Unread
  BY DEF Unread
<1>4. Ordered(rb) /\ Contents(rb) = SubSeq(accepted, taken + 1, Len(accepted))
  BY <1>1, <1>2 DEF BytesInv
<1> QED
  BY <1>1, <1>2, <1>3, <1>4 DEF BytesInv, Torn

(* A task step before the stores. *)
LEMMA TaskType ==
    ASSUME TypeOK, UNCHANGED <<rb, sent, accepted, taken>>,
           sem' \in BOOLEAN, pc' \in Points, len' \in 0..(Word - 1), data' \in Data,
           seen' \in [mirror : SUBSET BOOLEAN, index : SUBSET Slots]
    PROVE  TypeOK'
  BY DEF TypeOK

LEMMA TakeSemaphoreInv ==
    ASSUME InputInv, TakeSemaphore
    PROVE  InputInv' /\ (UpToDate => UpToDate')
<1> USE DEF InputInv, TakeSemaphore
<1>1. TypeOK'
  BY TaskType DEF TypeOK, Points
<1>2. BytesInv' /\ Unread' = Unread
  BY BytesKept DEF Torn
<1>3. seen = Unseen /\ Exact'
  BY DEF SampleInv, Exact, Unseen
<1>4. SampleInv'
  BY <1>3 DEF SampleInv, Reading
<1>5. UpToDate' /\ WakeInv'
  BY <1>3 DEF WakeInv, UpToDate, Reading
<1> QED
  BY <1>1, <1>2, <1>4, <1>5

LEMMA LoadInv ==
    ASSUME InputInv, LoadMirror \/ LoadIndex
    PROVE  InputInv' /\ (UpToDate => UpToDate')
<1> USE DEF InputInv
<1>1. /\ UNCHANGED <<rb, sem, pc, len, data, sent, accepted, taken>>
      /\ pc \in {"length", "read"} /\ rb \in Ring
      /\ seen \in [mirror : SUBSET BOOLEAN, index : SUBSET Slots]
      /\ seen' \in {[seen EXCEPT !.mirror = {rb.writeMirror}],
                    [seen EXCEPT !.index = {rb.writeIndex}]}
  BY DEF LoadMirror, LoadIndex, TypeOK
<1>2. /\ seen' \in [mirror : SUBSET BOOLEAN, index : SUBSET Slots]
      /\ Exact => Exact'
  <2>1. {rb.writeMirror} \in SUBSET BOOLEAN /\ {rb.writeIndex} \in SUBSET Slots
    BY <1>1 DEF Ring
  <2>2. CASE seen' = [seen EXCEPT !.mirror = {rb.writeMirror}]
    BY <1>1, <2>1, <2>2 DEF Exact
  <2>3. CASE seen' = [seen EXCEPT !.index = {rb.writeIndex}]
    BY <1>1, <2>1, <2>3 DEF Exact
  <2> QED
    BY <1>1, <2>2, <2>3
<1>3. TypeOK'
  BY <1>1, <1>2 DEF TypeOK
<1>4. BytesInv' /\ Unread' = Unread
  BY <1>1, BytesKept DEF Torn
<1>5. SampleInv'
  BY <1>1, <1>2, <1>4 DEF SampleInv
<1>6. UpToDate => UpToDate'
  BY <1>1, <1>2, <1>4 DEF UpToDate
<1>7. WakeInv'
  BY <1>1, <1>4, <1>6 DEF WakeInv
<1> QED
  BY <1>3, <1>4, <1>5, <1>6, <1>7

(* Nothing is sampled before the task asks. *)
LEMMA UnseenExact ==
    ASSUME seen' = Unseen
    PROVE  Exact' /\ seen' \in [mirror : SUBSET BOOLEAN, index : SUBSET Slots]
  BY DEF Exact, Unseen

LEMMA StartLoopInv ==
    ASSUME InputInv, StartLoop
    PROVE  InputInv' /\ (UpToDate => UpToDate')
<1> USE DEF InputInv
<1>1. /\ UNCHANGED <<rb, sem, data, sent, accepted, taken>>
      /\ pc = "length" /\ seen' = Unseen
      /\ pc' = IF len' = 0 THEN "wait" ELSE "read"
      /\ len' \in 0..(Word - 1) /\ SampledLength(len')
  BY DEF StartLoop
<1>2. Exact' /\ seen' \in [mirror : SUBSET BOOLEAN, index : SUBSET Slots]
  BY <1>1, UnseenExact
<1>3. TypeOK'
  BY <1>1, <1>2 DEF TypeOK, Points
<1>4. BytesInv' /\ Unread' = Unread
  BY <1>1, BytesKept DEF Torn
<1>5. SampleInv'
  BY <1>1, <1>2, Numbers DEF SampleInv, Reading
<1>6. ASSUME UpToDate PROVE UpToDate' /\ (pc' = "wait" => Unread' = 0)
  <2>1. Exact
    BY <1>1, <1>6 DEF UpToDate
  <2>2. len' = Unread
    BY <1>1, <2>1, SampleRight
  <2> QED
    BY <1>1, <1>2, <1>4, <2>2 DEF UpToDate, Reading
<1>7. WakeInv'
  BY <1>1, <1>6 DEF WakeInv
<1> QED
  BY <1>3, <1>4, <1>5, <1>6, <1>7

LEMMA ReadNothingInv ==
    ASSUME InputInv, ReadNothing
    PROVE  InputInv' /\ ~UpToDate
<1> USE DEF InputInv
<1>1. /\ UNCHANGED <<rb, sem, data, sent, accepted, taken>>
      /\ pc = "read" /\ seen' = Unseen /\ SampledLength(0)
      /\ len' = len - 1 /\ pc' = IF len = 1 THEN "wait" ELSE "read"
  BY DEF ReadNothing, EndRound
<1>2. Exact' /\ seen' \in [mirror : SUBSET BOOLEAN, index : SUBSET Slots]
  BY <1>1, UnseenExact
<1>3. len \in 1..(Word - 1)
  BY <1>1, Numbers DEF TypeOK, SampleInv, Reading
<1>4. TypeOK'
  BY <1>1, <1>2, <1>3, Numbers DEF TypeOK, Points
<1>5. BytesInv' /\ Unread' = Unread
  BY <1>1, BytesKept DEF Torn
<1>6. SampleInv'
  BY <1>1, <1>2, <1>3, Numbers DEF SampleInv, Reading
<1>7. ~UpToDate
  <2>1. SUFFICES ASSUME UpToDate PROVE FALSE
    OBVIOUS
  <2>2. Exact /\ len = Unread
    BY <1>1, <2>1 DEF UpToDate, Reading
  <2>3. Unread = 0
    BY <1>1, <2>2, SampleRight
  <2> QED
    BY <1>3, <2>2, <2>3
<1>8. WakeInv'
  BY <1>1, <1>7 DEF WakeInv
<1> QED
  BY <1>4, <1>5, <1>6, <1>7, <1>8

LEMMA ReadSomethingInv ==
    ASSUME InputInv, ReadSomething
    PROVE  InputInv' /\ (UpToDate => UpToDate')
<1> USE DEF InputInv
<1>1. /\ UNCHANGED <<rb, sem, len, data, sent, accepted, taken>>
      /\ pc = "read" /\ seen' = Unseen /\ pc' = "load"
  BY DEF ReadSomething
<1>2. PICK n \in 1..(Word - 1) : SampledLength(n)
  BY DEF ReadSomething
<1>3. Exact' /\ seen' \in [mirror : SUBSET BOOLEAN, index : SUBSET Slots]
  BY <1>1, UnseenExact
<1>4. TypeOK'
  BY <1>1, <1>3 DEF TypeOK, Points
<1>5. Unread > 0
  <2>1. SUFFICES ASSUME Unread = 0 PROVE FALSE
    BY InputTypes
  <2>2. Exact
    BY <1>1, <2>1 DEF SampleInv
  <2>3. n = Unread
    BY <1>1, <1>2, <2>2, SampleRight
  <2> QED
    BY <1>2, <2>1, <2>3
<1>6. BytesInv' /\ Unread' = Unread
  BY <1>1, <1>5, BytesKept DEF Torn
<1>7. SampleInv'
  BY <1>1 DEF SampleInv, Reading
<1>8. (UpToDate => UpToDate') /\ WakeInv'
  BY <1>1, <1>6 DEF WakeInv, UpToDate, Reading
<1> QED
  BY <1>4, <1>6, <1>7, <1>8

LEMMA LoadByteInv ==
    ASSUME InputInv, LoadByte
    PROVE  InputInv' /\ (UpToDate => UpToDate')
<1> USE DEF InputInv
<1>1. /\ UNCHANGED <<rb, sem, seen, len, sent, accepted, taken>>
      /\ pc = "load" /\ pc' = "store" /\ data' = rb.buf[rb.readIndex]
  BY DEF LoadByte
<1>2. rb \in Ring /\ data' \in Data
  BY <1>1, InputTypes DEF Ring
<1>3. TypeOK'
  BY <1>1, <1>2 DEF TypeOK, Points
<1>4. Unread > 0
  BY <1>1 DEF BytesInv
<1>5. data' = accepted[taken + 1]
  <2>1. ~Torn /\ Settled = rb /\ Removed = taken /\ Ring_Buffer_Get_Length(rb) = Unread
    BY <1>1, BytesThere DEF Torn
  <2>2. Contents(rb)[1] = rb.buf[rb.readIndex]
    BY <1>2, <1>4, <2>1, LengthFacts DEF BytesInv
  <2>3. Contents(rb) = SubSeq(accepted, taken + 1, Len(accepted))
    BY <2>1 DEF BytesInv
  <2>4. taken \in 0..Len(accepted) /\ taken < Len(accepted) /\ accepted \in Seq(Data)
    BY <1>4, InputTypes
  <2> QED
    BY <1>1, <2>2, <2>3, <2>4, RestOfRest
<1>6. BytesInv' /\ Unread' = Unread
  BY <1>1, <1>4, <1>5, BytesKept DEF Torn
<1>7. SampleInv'
  BY <1>1 DEF SampleInv, Reading
<1>8. (UpToDate => UpToDate') /\ WakeInv'
  BY <1>1, <1>6 DEF WakeInv, UpToDate, Reading
<1> QED
  BY <1>3, <1>6, <1>7, <1>8
-----------------------------------------------------------------------------
(* The end of a read: one byte less, one round less. *)
LEMMA ReadDone ==
    ASSUME TypeOK, BytesInv, SampleInv, WakeInv,
           pc \in {"store", "index", "mirror"},
           rb' \in Ring, Ordered(rb'),
           Contents(rb') = SubSeq(accepted, taken + 2, Len(accepted)),
           taken' = taken + 1, EndRound, UNCHANGED <<sem, seen, data, sent, accepted>>
    PROVE  InputInv' /\ (UpToDate => UpToDate')
<1>1. /\ seen' = Unseen /\ len \in 1..(Word - 1)
      /\ len' = len - 1 /\ pc' = IF len = 1 THEN "wait" ELSE "read"
  BY Numbers DEF SampleInv, Reading, EndRound, TypeOK
<1>2. Exact' /\ seen' \in [mirror : SUBSET BOOLEAN, index : SUBSET Slots]
  BY <1>1, UnseenExact
<1>3. Unread > 0 /\ Unread' = Unread - 1 /\ taken' \in 0..Len(accepted)
  BY InputTypes DEF BytesInv, Torn, Unread
<1>4. TypeOK'
  BY <1>1, <1>2, <1>3, Numbers DEF TypeOK, Points
<1>5. ~Torn' /\ Settled' = rb' /\ Removed' = taken + 1
  BY <1>1, InputTypes DEF Torn, Settled, Removed
<1>6. BytesInv'
  <2>1. Contents(Settled)' = SubSeq(accepted', Removed' + 1, Len(accepted'))
    BY <1>5, InputTypes
  <2>2. Ordered(Settled)'
    BY <1>5
  <2> QED
    BY <1>1, <1>5, <2>1, <2>2 DEF BytesInv, Torn
<1>7. SampleInv'
  BY <1>1, <1>2, Numbers DEF SampleInv, Reading
<1>8. UpToDate => UpToDate' /\ (pc' = "wait" => Unread' = 0)
  BY <1>1, <1>2, <1>3, InputTypes DEF UpToDate, Reading
<1>9. WakeInv'
  BY <1>8 DEF WakeInv
<1> QED
  BY <1>4, <1>6, <1>7, <1>8, <1>9 DEF InputInv

(* What the two stores, or the one, amount to. *)
LEMMA FrontRemoved ==
    ASSUME TypeOK, BytesInv, pc = "store"
    PROVE  /\ Dropped(rb, 1) \in Ring /\ Ordered(Dropped(rb, 1))
           /\ Contents(Dropped(rb, 1)) = SubSeq(accepted, taken + 2, Len(accepted))
           /\ Dropped(rb, 1) = IF AtEnd THEN [rb EXCEPT !.readIndex = 0, !.readMirror = ~@]
                                        ELSE [rb EXCEPT !.readIndex = @ + 1]
<1>1. ~Torn /\ Settled = rb /\ Removed = taken /\ Unread > 0
  BY BytesThere DEF Torn, BytesInv
<1>2. rb \in Ring /\ Ordered(rb) /\ Contents(rb) = SubSeq(accepted, taken + 1, Len(accepted))
  BY <1>1, InputTypes DEF BytesInv
<1>3. accepted \in Seq(Data) /\ taken \in 0..Len(accepted) /\ taken < Len(accepted)
  BY <1>1, InputTypes
<1>4. /\ Len(Contents(rb)) > 0
      /\ SubSeq(Contents(rb), 2, Len(Contents(rb))) = SubSeq(accepted, taken + 2, Len(accepted))
  <2>1. /\ Len(Contents(rb)) = Len(accepted) - taken
        /\ SubSeq(Contents(rb), 2, Len(Contents(rb))) = SubSeq(accepted, taken + 2, Len(accepted))
    BY <1>2, <1>3, RestOfRest
  <2> QED
    BY <1>3, <2>1
<1>5. Dropped(rb, 1) = IF AtEnd THEN [rb EXCEPT !.readIndex = 0, !.readMirror = ~@]
                                ELSE [rb EXCEPT !.readIndex = @ + 1]
  <2>1. rb.readIndex \in 0..(Size - 1)
    BY <1>2 DEF Ring, Slots
  <2>2. CASE AtEnd
    <3>1. Moved(rb.readIndex, 1) = 0 /\ Mirrored(rb.readMirror, rb.readIndex, 1) = ~rb.readMirror
      BY <2>1, <2>2, Numbers DEF AtEnd, Moved, Mirrored
    <3> QED
      BY <2>2, <3>1, Zenon DEF Dropped
  <2>3. CASE ~AtEnd
    <3>1. /\ Moved(rb.readIndex, 1) = rb.readIndex + 1
          /\ Mirrored(rb.readMirror, rb.readIndex, 1) = rb.readMirror
      BY <2>1, <2>3, Numbers DEF AtEnd, Moved, Mirrored
    <3> QED
      BY <1>2, <2>3, <3>1 DEF Dropped, Ring
  <2> QED
    BY <2>2, <2>3
<1> QED
  BY <1>2, <1>4, <1>5, ByteDropped

LEMMA StoreIndexInv ==
    ASSUME InputInv, StoreIndex
    PROVE  InputInv' /\ (UpToDate => UpToDate')
<1>1. rb' = Dropped(rb, 1)
  BY FrontRemoved DEF StoreIndex, InputInv
<1> QED
  BY <1>1, FrontRemoved, ReadDone DEF StoreIndex, InputInv

LEMMA SecondStoreInv ==
    ASSUME InputInv, SecondStore
    PROVE  InputInv' /\ (UpToDate => UpToDate')
<1>1. rb' = Settled /\ Torn
  BY SettledIs DEF SecondStore, Torn
<1>2. Removed = taken + 1
  BY <1>1 DEF Removed
<1>3. rb' \in Ring /\ Ordered(rb') /\ Contents(rb') = SubSeq(accepted, taken + 2, Len(accepted))
  BY <1>1, <1>2, InputTypes DEF BytesInv, InputInv
<1> QED
  BY <1>3, ReadDone DEF SecondStore, InputInv

LEMMA FirstStoreInv ==
    ASSUME InputInv, FirstStore
    PROVE  InputInv' /\ (UpToDate => UpToDate')
<1> USE DEF InputInv
<1>1. /\ UNCHANGED <<sem, seen, len, data, sent, accepted, taken>>
      /\ pc = "store" /\ AtEnd /\ rb \in Ring
      /\ \/ rb' = [rb EXCEPT !.readIndex = 0] /\ pc' = "mirror"
         \/ rb' = [rb EXCEPT !.readMirror = ~@] /\ pc' = "index"
  BY DEF FirstStore, TypeOK
<1>2. Settled' = [rb EXCEPT !.readIndex = 0, !.readMirror = ~@]
  <2>1. CASE rb' = [rb EXCEPT !.readIndex = 0] /\ pc' = "mirror"
    <3>1. Settled' = [rb' EXCEPT !.readMirror = ~@]
      BY <2>1 DEF Settled
    <3> QED
      BY <1>1, <2>1, <3>1 DEF Ring
  <2>2. CASE rb' = [rb EXCEPT !.readMirror = ~@] /\ pc' = "index"
    <3>1. Settled' = [rb' EXCEPT !.readIndex = 0]
      BY <2>2 DEF Settled
    <3> QED
      BY <1>1, <2>2, <3>1 DEF Ring
  <2> QED
    BY <1>1, <2>1, <2>2
<1>3. Settled' = Dropped(rb, 1)
  BY <1>1, <1>2, FrontRemoved
<1>4. /\ rb' \in Ring /\ Torn' /\ Removed' = taken + 1 /\ Unread' = Unread
      /\ pc' = "index" => rb'.readIndex = Size - 1
      /\ pc' = "mirror" => rb'.readIndex = 0
  <2>1. 0 \in Slots
    BY Numbers DEF Slots
  <2>2. rb' \in Ring
    BY <1>1, <2>1 DEF Ring
  <2>3. /\ pc' = "index" => rb'.readIndex = Size - 1
        /\ pc' = "mirror" => rb'.readIndex = 0
    BY <1>1 DEF Ring, AtEnd
  <2> QED
    BY <1>1, <2>2, <2>3 DEF Torn, Removed, Unread
<1>5. TypeOK'
  BY <1>1, <1>4 DEF TypeOK, Points
<1>6. BytesInv'
  <2>1. Contents(Settled)' = SubSeq(accepted', Removed' + 1, Len(accepted'))
    BY <1>1, <1>3, <1>4, FrontRemoved, InputTypes
  <2>2. Ordered(Settled)'
    BY <1>1, <1>3, FrontRemoved
  <2>3. Unread > 0 /\ data = accepted[taken + 1]
    BY <1>1 DEF BytesInv
  <2> QED
    BY <1>1, <1>4, <2>1, <2>2, <2>3 DEF BytesInv
<1>7. SampleInv' /\ WakeInv' /\ (UpToDate => UpToDate')
  BY <1>1, <1>4 DEF SampleInv, WakeInv, UpToDate, Reading
<1> QED
  BY <1>5, <1>6, <1>7
-----------------------------------------------------------------------------
(* The interrupt. *)

(* It leaves the read end alone, so that it makes no difference whether    *)
(* the task's read is completed before or after.                           *)
LEMMA WrittenFields ==
    ASSUME NEW b \in Ring, NEW s
    PROVE  /\ Written(b, s).buf = Copied(b, s)
           /\ Written(b, s).readMirror = b.readMirror
           /\ Written(b, s).readIndex = b.readIndex
           /\ Written(b, s).writeIndex = Moved(b.writeIndex, Len(s))
           /\ Written(b, s).writeMirror = Mirrored(b.writeMirror, b.writeIndex, Len(s))
  BY DEF Written, Ring

LEMMA SameWriteEnd ==
    ASSUME NEW b \in Ring, NEW c \in Ring, NEW s,
           c.buf = b.buf, c.writeIndex = b.writeIndex, c.writeMirror = b.writeMirror,
           Written(c, s) \in Ring
    PROVE  /\ Written(b, s) \in Ring
           /\ Written(c, s) = [Written(b, s) EXCEPT !.readIndex = c.readIndex,
                                                    !.readMirror = c.readMirror]
<1> DEFINE p == Copied(b, s)
           m == Mirrored(b.writeMirror, b.writeIndex, Len(s))
           i == Moved(b.writeIndex, Len(s))
           w == Written(b, s)
           x == Written(c, s)
<1>1. Copied(c, s) = p
  BY DEF Copied
<1>2. /\ x.buf = p /\ x.writeIndex = i /\ x.writeMirror = m
      /\ x.readIndex = c.readIndex /\ x.readMirror = c.readMirror
  BY <1>1, WrittenFields
<1>3. p \in [Slots -> Data] /\ m \in BOOLEAN /\ i \in Slots
  BY <1>2 DEF Ring
<1>4. w \in Ring
  BY <1>3 DEF Written, Ring
<1>5. w.buf = p /\ w.writeIndex = i /\ w.writeMirror = m
  BY WrittenFields
<1> HIDE DEF p, m, i, w, x
<1>6. x \in Ring
  BY DEF x
<1>7. x = [w EXCEPT !.readIndex = c.readIndex, !.readMirror = c.readMirror]
  BY <1>2, <1>4, <1>5, <1>6 DEF Ring
<1> QED
  BY <1>4, <1>7 DEF w, x

LEMMA InterruptInv ==
    ASSUME Paced = TRUE, InputInv, uart_shell_isr
    PROVE  /\ InputInv' /\ sem' = TRUE
           /\ \/ accepted' = accepted /\ (UpToDate => UpToDate')
              \/ \E d \in Data : accepted' = Append(accepted, d) /\ Unread' = Unread + 1
<1> USE DEF InputInv
<1>1. sem' = TRUE /\ UNCHANGED <<pc, seen, len, data, taken>>
  BY DEF uart_shell_isr
<1>2. CASE UNCHANGED <<rb, accepted>> /\ sent' \in 0..MaxBytes
  <2>1. Settled' = Settled /\ Removed' = Removed /\ Unread' = Unread /\ (Torn <=> Torn')
    BY <1>1, <1>2 DEF Settled, Removed, Unread, Torn
  <2>2. TypeOK'
    BY <1>1, <1>2 DEF TypeOK
  <2>3. BytesInv'
    BY <1>1, <1>2, <2>1 DEF BytesInv
  <2>4. (Exact <=> Exact') /\ (UpToDate <=> UpToDate')
    BY <1>1, <1>2, <2>1 DEF Exact, UpToDate
  <2>5. SampleInv' /\ WakeInv'
    BY <1>1, <2>1, <2>4 DEF SampleInv, WakeInv
  <2> QED
    BY <1>1, <1>2, <2>2, <2>3, <2>4, <2>5
<1>3. ASSUME NEW d \in Data, sent' \in 0..MaxBytes, Unread < Size,
             rb' = Written(rb, <<d>>), accepted' = Append(accepted, d)
      PROVE  InputInv' /\ Unread' = Unread + 1
  <2> DEFINE b == Settled
             w == Written(b, <<d>>)
  <2>1. /\ b \in Ring /\ rb \in Ring /\ taken \in Nat /\ accepted \in Seq(Data)
        /\ Len(accepted) \in Nat /\ Unread \in Nat /\ Unread = Len(accepted) - taken
    BY InputTypes
  <2>2. /\ Removed \in 0..Len(accepted) /\ Removed = taken + (IF Torn THEN 1 ELSE 0)
        /\ Len(Contents(b)) = Len(accepted) - Removed
    BY BytesThere
  <2>3. Len(Contents(b)) < Size
    BY <1>3, <2>1, <2>2, Numbers
  <2>4. w \in Ring /\ Ordered(w) /\ Contents(w) = Contents(b) \o <<d>>
    BY <1>3, <2>1, <2>3, ByteStored DEF BytesInv
  <2>5. /\ b.buf = rb.buf /\ b.writeIndex = rb.writeIndex /\ b.writeMirror = rb.writeMirror
        /\ pc = "index" => b.readIndex = 0 /\ b.readMirror = rb.readMirror
        /\ pc = "mirror" => b.readMirror = ~rb.readMirror /\ b.readIndex = rb.readIndex
        /\ ~Torn => b = rb
    BY <2>1, SettledIs DEF Ring, Torn
  <2> HIDE DEF b
  <2>6. /\ rb' \in Ring
        /\ w = [rb' EXCEPT !.readIndex = b.readIndex, !.readMirror = b.readMirror]
    BY <1>3, <2>1, <2>4, <2>5, SameWriteEnd
  <2>7. rb'.readIndex = rb.readIndex /\ rb'.readMirror = rb.readMirror
    BY <1>3, <2>1, WrittenFields
  <2> HIDE DEF w
  <2>8. Settled' = w
    <3>1. CASE pc = "index"
      <4>1. Settled' = [rb' EXCEPT !.readIndex = 0]
        BY <1>1, <3>1 DEF Settled
      <4> QED
        BY <2>5, <2>6, <2>7, <3>1, <4>1 DEF Ring
    <3>2. CASE pc = "mirror"
      <4>1. Settled' = [rb' EXCEPT !.readMirror = ~@]
        BY <1>1, <3>2 DEF Settled
      <4> QED
        BY <2>5, <2>6, <2>7, <3>2, <4>1 DEF Ring
    <3>3. CASE ~Torn
      BY <1>1, <1>3, <2>5, <3>3 DEF Settled, Torn, w
    <3> QED
      BY <3>1, <3>2, <3>3 DEF Torn
  <2>9. /\ Removed' = Removed /\ (Torn' <=> Torn) /\ Unread' = Unread + 1
        /\ accepted' \in Seq(Data) /\ Len(accepted') = Len(accepted) + 1
    BY <1>1, <1>3, <2>1 DEF Removed, Torn, Unread
  <2>10. TypeOK'
    BY <1>1, <1>3, <2>1, <2>6, <2>9 DEF TypeOK
  <2>11. Contents(Settled)' = SubSeq(accepted', Removed' + 1, Len(accepted'))
    <3>1. Contents(Settled)' = SubSeq(accepted, Removed + 1, Len(accepted)) \o <<d>>
      BY <2>4, <2>8 DEF BytesInv, b
    <3> QED
      BY <1>3, <2>1, <2>2, <2>9, <3>1, RestAppended
  <2>12. Unread > 0 => accepted'[taken + 1] = accepted[taken + 1]
    BY <1>3, <2>1
  <2>13. BytesInv'
    BY <1>1, <2>1, <2>4, <2>7, <2>8, <2>9, <2>11, <2>12 DEF BytesInv
  <2>14. SampleInv' /\ WakeInv'
    BY <1>1, <2>1, <2>9 DEF SampleInv, WakeInv
  <2> QED
    BY <2>9, <2>10, <2>13, <2>14
<1>4. CASE UNCHANGED <<rb, sent, accepted>>
  <2>1. sent' \in 0..MaxBytes
    BY <1>4 DEF TypeOK
  <2> QED
    BY <1>2, <1>4, <2>1
<1>5. CASE /\ sent < MaxBytes /\ (Paced => Len(accepted) - taken < Size)
           /\ sent' = sent + 1 /\ Ring_Buffer_Write_Byte(sent + 1)
  <2>1. sent + 1 \in Data /\ sent' \in 0..MaxBytes /\ Unread < Size
    BY <1>5, Numbers DEF TypeOK, Unread
  <2>2. \/ UNCHANGED <<rb, accepted>>
        \/ rb' = Written(rb, <<sent + 1>>) /\ accepted' = Append(accepted, sent + 1)
    BY <1>5 DEF Ring_Buffer_Write_Byte
  <2>3. CASE UNCHANGED <<rb, accepted>>
    BY <1>2, <2>1, <2>3
  <2>4. CASE rb' = Written(rb, <<sent + 1>>) /\ accepted' = Append(accepted, sent + 1)
    <3>1. InputInv' /\ Unread' = Unread + 1
      BY <1>3, <2>1, <2>4
    <3> QED
      BY <1>1, <2>1, <2>4, <3>1
  <2> QED
    BY <2>2, <2>3, <2>4
<1> QED
  BY <1>4, <1>5 DEF uart_shell_isr
-----------------------------------------------------------------------------
(* The session. *)

(* The keys that were stored are those of the bytes in the buffer. *)
KeysInv ==
    /\ keys \in Seq(Keys) /\ Len(keys) = Unread
    /\ key \in Keys \cup {"none"} /\ typed \in BOOLEAN

(* What a session is for any user. *)
AnyUserInv == InputInv /\ KeysInv /\ Exec!TypeOK

LineEnds == \E i \in DOMAIN keys : EndsLine(keys[i])

(* While the end of a line is on its way, or was the last key, nothing     *)
(* else arrives that could make the task hand it on twice, and the         *)
(* no command is still to begin until it is there.                         *)
LineInv ==
    /\ EndsLine(key) \/ LineEnds => UpToDate
    /\ LineEnds => Len(keys) = 1 /\ Exec!Begun

LEMMA SessionInit_Inv ==
    ASSUME SessionInit
    PROVE  AnyUserInv /\ ExecInv /\ LineInv
<1>1. InputInv /\ ExecInv
  BY InputInit, ExecInitInv, ShellSessionAssumption
  DEF SessionInit, ShellSessionAssumption, Exec!Tasks
<1>2. keys = <<>> /\ key = "none" /\ typed = FALSE /\ Unread = 0
  BY DEF SessionInit, Init, Unread
<1>3. KeysInv
  <2>1. keys \in Seq(Keys) /\ Len(keys) = 0
    BY <1>2
  <2>2. typed \in BOOLEAN
    BY <1>2, Zenon
  <2> QED
    BY <1>2, <2>1, <2>2 DEF KeysInv
<1>4. ~LineEnds /\ ~EndsLine(key)
  BY <1>2 DEF LineEnds, EndsLine
<1>5. Exec!TypeOK
  BY <1>1, ExecImplications, ShellSessionAssumption DEF ShellSessionAssumption
<1> QED
  BY <1>1, <1>3, <1>4, <1>5 DEF AnyUserInv, LineInv

(* What the task does but hand on a key. *)
LEMMA ReadKeeps ==
    ASSUME InputInv, KeysInv, Read
    PROVE  InputInv' /\ KeysInv' /\ (UpToDate => UpToDate')
<1>1. InputInv' /\ (UpToDate => UpToDate')
  BY TakeSemaphoreInv, LoadInv, StartLoopInv, ReadSomethingInv, LoadByteInv, FirstStoreInv
  DEF Read
<1>2. UNCHANGED <<accepted, taken, keys, key, typed>>
  BY DEF Read, TakeSemaphore, LoadMirror, LoadIndex, StartLoop, ReadSomething, LoadByte,
         FirstStore
<1> QED
  BY <1>1, <1>2 DEF KeysInv, Unread

LEMMA ArriveKeeps ==
    ASSUME Paced = TRUE, InputInv, KeysInv, Arrive
    PROVE  /\ InputInv' /\ KeysInv'
           /\ \/ UNCHANGED keys /\ (UpToDate => UpToDate')
              \/ \E k \in Keys : keys' = Append(keys, k) /\ (Patient => WaitsFor(k))
<1>1. /\ InputInv' /\ UNCHANGED <<pc, taken, key, typed>>
      /\ \/ accepted' = accepted /\ (UpToDate => UpToDate')
         \/ \E d \in Data : accepted' = Append(accepted, d) /\ Unread' = Unread + 1
  BY InterruptInv DEF Arrive, uart_shell_isr
<1>2. CASE accepted' = accepted
  <2>1. Unread' = Unread
    BY <1>1, <1>2 DEF Unread
  <2>2. UNCHANGED keys
    BY <1>2 DEF Arrive
  <2>3. UpToDate => UpToDate'
    <3>1. ASSUME NEW d \in Data, accepted' = Append(accepted, d) PROVE FALSE
      <4>1. accepted \in Seq(Data)
        BY InputTypes DEF InputInv
      <4>2. Len(accepted') = Len(accepted) + 1 /\ Len(accepted) \in Nat
        BY <3>1, <4>1
      <4> QED
        BY <1>2, <4>2
    <3> QED
      BY <1>1, <3>1
  <2> QED
    BY <1>1, <2>1, <2>2, <2>3 DEF KeysInv
<1>3. CASE accepted' # accepted
  <2>1. PICK k \in Keys : keys' = Append(keys, k) /\ (Patient => WaitsFor(k))
    BY <1>3 DEF Arrive
  <2>2. Unread' = Unread + 1
    BY <1>1, <1>3
  <2>3. KeysInv'
    BY <1>1, <2>1, <2>2 DEF KeysInv
  <2> QED
    BY <1>1, <2>1, <2>3
<1> QED
  BY <1>2, <1>3

LEMMA HandleKeeps ==
    ASSUME InputInv, KeysInv, Handle
    PROVE  /\ InputInv' /\ KeysInv' /\ (UpToDate => UpToDate')
           /\ \/ /\ keys # <<>> /\ keys' = Tail(keys)
                 /\ shell_handler(Head(keys)) /\ key' = Head(keys)
              \/ /\ ~UpToDate /\ UNCHANGED <<keys, key>> /\ shell_handler(key)
<1>1. typed' \in BOOLEAN
  <2>1. ASSUME NEW k, shell_handler(k) PROVE typed' \in BOOLEAN
    BY <2>1, Zenon DEF shell_handler
  <2> QED
    BY <2>1 DEF Handle
<1>2. CASE /\ StoreIndex \/ SecondStore
           /\ keys' = Tail(keys) /\ shell_handler(Head(keys))
  <2>1. InputInv' /\ (UpToDate => UpToDate')
    BY <1>2, StoreIndexInv, SecondStoreInv
  <2>2. taken' = taken + 1 /\ accepted' = accepted /\ Unread > 0
    BY <1>2 DEF StoreIndex, SecondStore, InputInv, BytesInv, Torn
  <2>3. Unread' = Unread - 1 /\ Unread \in Nat
    BY <2>2, InputTypes DEF InputInv, Unread
  <2>4. keys \in Seq(Keys) /\ keys # <<>>
    BY <2>2 DEF KeysInv
  <2>5. Head(keys) \in Keys /\ keys' \in Seq(Keys) /\ Len(keys') = Len(keys) - 1
    BY <1>2, <2>4
  <2>6. key' = Head(keys)
    BY <1>2 DEF shell_handler
  <2> QED
    BY <1>1, <1>2, <2>1, <2>3, <2>4, <2>5, <2>6 DEF KeysInv
<1>3. CASE ReadNothing /\ UNCHANGED keys /\ shell_handler(key)
  <2>1. InputInv' /\ ~UpToDate
    BY <1>3, ReadNothingInv
  <2>2. key' = key /\ Unread' = Unread
    BY <1>3 DEF ReadNothing, shell_handler, Unread
  <2> QED
    BY <1>1, <1>3, <2>1, <2>2 DEF KeysInv
<1> QED
  BY <1>2, <1>3 DEF Handle

LEMMA StandStill ==
    ASSUME InputInv, KeysInv, UNCHANGED <<vars, keys, key, typed>>
    PROVE  InputInv' /\ KeysInv' /\ (UpToDate <=> UpToDate')
<1>1. /\ Settled' = Settled /\ Removed' = Removed /\ Unread' = Unread /\ (Torn <=> Torn')
      /\ (Exact <=> Exact')
  BY DEF vars, Settled, Removed, Unread, Torn, Exact
<1>2. UpToDate <=> UpToDate'
  BY <1>1 DEF vars, UpToDate
<1> QED
  BY <1>1, <1>2 DEF vars, InputInv, TypeOK, BytesInv, SampleInv, WakeInv, KeysInv
-----------------------------------------------------------------------------
(* Any user. *)
LEMMA AnyUserStep ==
    ASSUME Paced = TRUE, AnyUserInv, [SessionNext]_allVars
    PROVE  AnyUserInv'
<1> USE DEF AnyUserInv
<1>1. exec \in Exec!Exec /\ lines \in 0..MaxLines
  BY DEF Exec!TypeOK
<1>2. ASSUME NEW k, shell_handler(k) PROVE Exec!TypeOK'
  <2> DEFINE s == IF k = "ctrl_c" THEN Exec!Interrupted(exec) ELSE exec
  <2>1. s \in Exec!Exec
    BY <1>1, InterruptedTyped
  <2>2. Exec!shell_exec(s) \/ (exec' = s /\ UNCHANGED lines)
    BY <1>2, Zenon DEF shell_handler
  <2> HIDE DEF s
  <2> QED
    BY <1>1, <2>1, <2>2, LineTyped DEF Exec!TypeOK
<1>3. CASE Arrive
  BY <1>3, ArriveKeeps DEF Arrive, Exec!TypeOK
<1>4. CASE Handle
  <2>1. Exec!TypeOK'
    BY <1>2, <1>4 DEF Handle
  <2> QED
    BY <1>4, <2>1, HandleKeeps
<1>5. CASE Read
  BY <1>5, ReadKeeps DEF Read, Exec!TypeOK
<1>6. CASE Command
  <2>1. Exec!TypeOK'
    BY <1>6, TaskTyped DEF Command, Exec!Commands
  <2> QED
    BY <1>6, <2>1, StandStill DEF Command
<1>7. CASE UNCHANGED allVars
  BY <1>7, StandStill DEF allVars, Exec!TypeOK
<1> QED
  BY <1>3, <1>4, <1>5, <1>6, <1>7 DEF SessionNext
-----------------------------------------------------------------------------
(* A patient user: every step of the session is one of the commands, or    *)
(* none.                                                                   *)
SessionInv == InputInv /\ KeysInv /\ LineInv /\ ExecInv

(* A handler that is called when no command is still to begin does what    *)
(* Enter and Ctrl-C do.                                                    *)
LEMMA HandlerStep ==
    ASSUME ~exec.crashed, NEW k, EndsLine(k) => Exec!Begun, shell_handler(k)
    PROVE  [Exec!Next]_(Exec!vars)
<1> DEFINE s == IF k = "ctrl_c" THEN Exec!Interrupted(exec) ELSE exec
<1>1. /\ EndsLine(k) /\ typed => Exec!shell_exec(s)
      /\ ~(EndsLine(k) /\ typed) => exec' = s /\ UNCHANGED lines
  BY Zenon DEF shell_handler
<1>2. CASE ~EndsLine(k)
  BY <1>1, <1>2 DEF EndsLine, Exec!vars
<1>3. CASE k = "enter"
  <2>1. Exec!Ready /\ s = exec
    BY <1>3 DEF Exec!Ready, EndsLine
  <2> QED
    BY <1>1, <2>1 DEF Exec!Enter, Exec!Next, Exec!vars
<1>4. CASE k = "ctrl_c"
  <2>1. Exec!Ready /\ s = Exec!Interrupted(exec)
    BY <1>4 DEF Exec!Ready, EndsLine
  <2> HIDE DEF s
  <2>2. Exec!shell_exec(s)
    BY <1>1 DEF Exec!shell_exec
  <2> QED
    BY <2>1, <2>2 DEF Exec!CtrlC, Exec!Next
<1> QED
  BY <1>2, <1>3, <1>4 DEF EndsLine

LEMMA SessionStep ==
    ASSUME Paced = TRUE, Waiting, SessionInv, SessionNext
    PROVE  InputInv' /\ KeysInv' /\ LineInv' /\ [Exec!Next]_(Exec!vars)
<1> USE DEF SessionInv
<1>1. ~exec.crashed /\ keys \in Seq(Keys) /\ Len(keys) = Unread
  BY DEF SessionNext, KeysInv
<1>2. CASE Arrive
  <2>1. UNCHANGED <<exec, lines, key>> /\ pc' = pc
    BY <1>2 DEF Arrive, uart_shell_isr
  <2>2. Exec!Begun' <=> Exec!Begun
    BY <2>1 DEF Exec!Begun
  <2>3. CASE UNCHANGED keys /\ (UpToDate => UpToDate')
    <3>1. LineEnds' <=> LineEnds
      BY <2>3 DEF LineEnds
    <3> QED
      BY <1>2, <2>1, <2>2, <2>3, <3>1, ArriveKeeps DEF LineInv, Exec!vars
  <2>4. ASSUME NEW k \in Keys, keys' = Append(keys, k), WaitsFor(k)
        PROVE  LineInv'
    <3>1. /\ ~LineEnds
          /\ EndsLine(k) => Idle /\ Exec!Begun
          /\ EndsLine(key) => pc = "wait"
      BY <2>4 DEF WaitsFor, LineEnds
    <3>0. /\ keys' \in Seq(Keys) /\ Len(keys) \in Nat /\ Len(keys') = Len(keys) + 1
          /\ DOMAIN keys = 1..Len(keys) /\ DOMAIN keys' = 1..Len(keys')
      BY <1>1, <2>4
    <3>2. LineEnds' => EndsLine(k)
      <4>1. Len(keys') = Len(keys) + 1 /\ \A i \in 1..Len(keys) : keys'[i] = keys[i]
        BY <1>1, <2>4
      <4>2. keys'[Len(keys) + 1] = k
        BY <1>1, <2>4
      <4>3. ASSUME NEW i \in DOMAIN keys', EndsLine(keys'[i]) PROVE EndsLine(k)
        <5>1. i \in 1..Len(keys) \/ i = Len(keys) + 1
          BY <3>0, <4>3
        <5>2. i \notin DOMAIN keys
          BY <3>0, <3>1, <4>1, <4>3 DEF LineEnds
        <5> QED
          BY <3>0, <4>2, <4>3, <5>1, <5>2
      <4> QED
        BY <4>3 DEF LineEnds
    <3>3. pc = "wait" => UpToDate'
      BY <2>1 DEF UpToDate, Reading
    <3>4. Idle => Unread = 0
      BY DEF Idle, InputInv, WakeInv
    <3>5. Unread = 0 => Len(keys') = 1
      BY <1>1, <3>0
    <3>6. EndsLine(key') \/ LineEnds' => UpToDate'
      BY <2>1, <3>1, <3>2, <3>3 DEF Idle
    <3>7. LineEnds' => Len(keys') = 1 /\ Exec!Begun'
      BY <2>2, <3>1, <3>2, <3>4, <3>5
    <3> QED
      BY <3>6, <3>7 DEF LineInv
  <2>5. ASSUME NEW k \in Keys, keys' = Append(keys, k), Patient => WaitsFor(k)
        PROVE  LineInv'
    BY <2>4, <2>5 DEF Waiting
  <2> QED
    BY <1>2, <2>1, <2>3, <2>5, ArriveKeeps DEF Exec!vars
<1>3. CASE Handle
  <2>1. InputInv' /\ KeysInv' /\ (UpToDate => UpToDate')
    BY <1>3, HandleKeeps
  <2>2. CASE /\ keys # <<>> /\ keys' = Tail(keys)
             /\ shell_handler(Head(keys)) /\ key' = Head(keys)
    <3>1. EndsLine(Head(keys)) => LineEnds
      <4>1. Head(keys) = keys[1] /\ 1 \in DOMAIN keys
        BY <1>1, <2>2
      <4> QED
        BY <4>1 DEF LineEnds
    <3>2. ~LineEnds'
      <4>1. SUFFICES ASSUME NEW i \in DOMAIN keys', EndsLine(keys'[i]) PROVE FALSE
        BY DEF LineEnds
      <4>2. i + 1 \in DOMAIN keys /\ keys'[i] = keys[i + 1] /\ Len(keys) # 1
        BY <1>1, <2>2, <4>1
      <4>3. LineEnds
        BY <4>1, <4>2 DEF LineEnds
      <4> QED
        BY <4>2, <4>3 DEF LineInv
    <3>3. LineInv'
      BY <2>1, <2>2, <3>1, <3>2 DEF LineInv
    <3>4. [Exec!Next]_(Exec!vars)
      BY <1>1, <2>2, <3>1, HandlerStep DEF LineInv
    <3> QED
      BY <2>1, <3>3, <3>4
  <2>3. CASE ~UpToDate /\ UNCHANGED <<keys, key>> /\ shell_handler(key)
    <3>1. ~EndsLine(key) /\ ~LineEnds
      BY <2>3 DEF LineInv
    <3>2. ~EndsLine(key') /\ ~LineEnds'
      BY <2>3, <3>1 DEF LineEnds
    <3>3. [Exec!Next]_(Exec!vars)
      BY <1>1, <2>3, <3>1, HandlerStep
    <3> QED
      BY <2>1, <3>2, <3>3 DEF LineInv
  <2> QED
    BY <1>3, <2>2, <2>3, HandleKeeps
<1>4. CASE Read
  <2>1. UNCHANGED <<exec, lines, keys, key>>
    BY <1>4 DEF Read
  <2>2. (LineEnds' <=> LineEnds) /\ (Exec!Begun' <=> Exec!Begun)
    BY <2>1 DEF LineEnds, Exec!Begun
  <2> QED
    BY <1>4, <2>1, <2>2, ReadKeeps DEF LineInv, Exec!vars
<1>5. CASE Command
  <2>1. UNCHANGED <<vars, keys, key, typed>> /\ Idle
    BY <1>5 DEF Command
  <2>2. Len(keys) = 0
    BY <1>1, <2>1 DEF Idle, InputInv, WakeInv
  <2>3. ~LineEnds'
    BY <1>1, <2>1, <2>2 DEF LineEnds
  <2>4. Exec!Next
    BY <1>5 DEF Command, Exec!Next, Exec!Commands
  <2> QED
    BY <2>1, <2>3, <2>4, StandStill DEF LineInv
<1> QED
  BY <1>2, <1>3, <1>4, <1>5 DEF SessionNext

LEMMA SessionInductive ==
    ASSUME Paced = TRUE, Waiting, SessionInv, [SessionNext]_allVars
    PROVE  SessionInv' /\ [Exec!Next]_(Exec!vars)
<1>1. CASE SessionNext
  <2>1. InputInv' /\ KeysInv' /\ LineInv' /\ [Exec!Next]_(Exec!vars)
    BY <1>1, SessionStep
  <2>2. ExecInv'
    BY <2>1, ExecNextInv DEF SessionInv
  <2> QED
    BY <2>1, <2>2 DEF SessionInv
<1>2. CASE UNCHANGED allVars
  <2>1. (LineEnds' <=> LineEnds) /\ (Exec!Begun' <=> Exec!Begun) /\ UNCHANGED Exec!vars
    BY <1>2 DEF allVars, LineEnds, Exec!Begun, Exec!vars
  <2>2. InputInv' /\ KeysInv' /\ (UpToDate <=> UpToDate')
    BY <1>2, StandStill DEF allVars, SessionInv
  <2>3. ExecInv'
    BY <2>1, ExecNextInv DEF SessionInv
  <2> QED
    BY <1>2, <2>1, <2>2, <2>3 DEF SessionInv, LineInv, allVars
<1> QED
  BY <1>1, <1>2
-----------------------------------------------------------------------------
LEMMA AnyUser ==
    ASSUME Paced = TRUE
    PROVE  SessionSpec => []AnyUserInv
<1>1. SessionInit => AnyUserInv
  BY SessionInit_Inv
<1>2. AnyUserInv /\ [SessionNext]_allVars => AnyUserInv'
  BY AnyUserStep
<1> QED
  BY <1>1, <1>2, PTL DEF SessionSpec

LEMMA AnyUserImplications ==
    ASSUME AnyUserInv
    PROVE  SessionTypeOK /\ TakenInOrder /\ NoLostWakeup
<1>1. SessionTypeOK
  BY DEF AnyUserInv, InputInv, KeysInv, SessionTypeOK, Unread
<1>2. TakenInOrder
  BY DEF AnyUserInv, InputInv, BytesInv, Removed, Torn, TakenInOrder
<1>3. NoLostWakeup
  <2>1. pc = "wait" /\ Unread = 0 => Ring_Buffer_Get_Length(rb) = 0
    BY BytesThere DEF AnyUserInv, InputInv, Torn
  <2> QED
    BY <2>1 DEF AnyUserInv, InputInv, WakeInv, NoLostWakeup
<1> QED
  BY <1>1, <1>2, <1>3

(* The ring and the flags of shell_freertos.c keep their types, and there  *)
(* is a key for every byte between the interrupt and shell_handler.        *)
THEOREM SessionTypeCorrect ==
    ASSUME Paced = TRUE
    PROVE  SessionSpec => []SessionTypeOK
<1>1. AnyUserInv => SessionTypeOK
  BY AnyUserImplications
<1> QED
  BY <1>1, AnyUser, PTL

(* Wherever uart_shell_isr interrupts the task, and in whichever order the *)
(* compiler has put the two stores of Ring_Buffer_Read_Byte, the task      *)
(* takes the bytes that were stored, each once and in their order.         *)
THEOREM BytesInOrder ==
    ASSUME Paced = TRUE
    PROVE  SessionSpec => []TakenInOrder
<1>1. AnyUserInv => TakenInOrder
  BY AnyUserImplications
<1> QED
  BY <1>1, AnyUser, PTL

(* shell_task never waits for sem_shell with a byte in the buffer that     *)
(* shell_release_sem has not told it of.                                   *)
THEOREM WakeUpsKept ==
    ASSUME Paced = TRUE
    PROVE  SessionSpec => []NoLostWakeup
<1>1. AnyUserInv => NoLostWakeup
  BY AnyUserImplications
<1> QED
  BY <1>1, AnyUser, PTL
-----------------------------------------------------------------------------
LEMMA PatientWaits ==
    ASSUME Patient = TRUE
    PROVE  Waiting
  BY ShellSessionAssumption DEF ShellSessionAssumption, Waiting, Exec!Tasks

(* The commands alone: shell_start_exec, shell_abort_exec and              *)
(* shell_exec_task keep the flag, the handle, the signal and the arguments *)
(* of the task that runs together, as long as no line ends while a task    *)
(* begins; one that ends while a task has still to delete itself does no   *)
(* harm to the new task as long as the old one has not gone on.            *)
THEOREM CommandsSafe ==
    ASSUME Patient = TRUE
    PROVE  Exec!Spec => [](/\ Exec!TypeOK /\ Exec!OwnArguments
                           /\ Exec!DeletedOnce /\ Exec!Abortable)
<1>1. Waiting
  BY PatientWaits
<1>2. ExecInv => Exec!TypeOK /\ Exec!OwnArguments /\ Exec!DeletedOnce /\ Exec!Abortable
  BY <1>1, ExecImplications DEF Waiting
<1> QED
  BY <1>1, <1>2, ExecInductive, PTL

(* What shell_task does with the keys between the interrupt and the        *)
(* handler, one byte at a time and unlocked, amounts to lines that are     *)
(* entered and aborted while no command is still to begin.                 *)
THEOREM SessionImplements ==
    ASSUME Paced = TRUE, Patient = TRUE
    PROVE  SessionSpec => Executes
<1>1. Waiting
  BY PatientWaits
<1>2. SessionInit => SessionInv /\ Exec!Init
  BY SessionInit_Inv DEF SessionInit, SessionInv, AnyUserInv
<1>3. SessionInv /\ [SessionNext]_allVars => SessionInv' /\ [Exec!Next]_(Exec!vars)
  BY <1>1, SessionInductive
<1> QED
  BY <1>2, <1>3, PTL DEF SessionSpec, Executes, Exec!Spec

(* In the session, a command runs with the arguments of its own line,      *)
(* although shell_exec_argc and shell_exec_argv exist once.                *)
THEOREM ArgumentsCorrect ==
    ASSUME Paced = TRUE, Patient = TRUE
    PROVE  SessionSpec => []OwnArguments
<1>1. Exec!OwnArguments => OwnArguments
  BY DEF OwnArguments
<1> QED
  BY <1>1, SessionImplements, CommandsSafe, PTL DEF Executes

(* In the session, shell_exec_task and shell_abort_exec never delete the   *)
(* shell's task, and delete the same task or leave one to fall out of its  *)
(* function only after a line came between the two statements that end a   *)
(* command.                                                                *)
THEOREM TasksDeletedOnce ==
    ASSUME Paced = TRUE, Patient = TRUE
    PROVE  SessionSpec => []DeletedOnce
<1>1. Exec!DeletedOnce => DeletedOnce
  BY DEF DeletedOnce
<1> QED
  BY <1>1, SessionImplements, CommandsSafe, PTL DEF Executes

(* In the session, a command that runs is the only one, and Ctrl-C or the  *)
(* next line finds it, whatever tasks of earlier lines have still to end.  *)
THEOREM CommandsAbortable ==
    ASSUME Paced = TRUE, Patient = TRUE
    PROVE  SessionSpec => []Abortable
<1>1. Exec!Abortable => Abortable
  BY DEF Abortable
<1> QED
  BY <1>1, SessionImplements, CommandsSafe, PTL DEF Executes
=============================================================================
