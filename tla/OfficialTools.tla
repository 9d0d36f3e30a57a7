--------------------------- MODULE OfficialTools ---------------------------
(***************************************************************************)
(* The tools of official_tools.py, called by the runs of one process. They *)
(* share an event loop, a console and the file system. A handler that does *)
(* not await keeps the loop; the console is read on threads and a command  *)
(* runs in processes of its own, which cancelling a call leaves alone.     *)
(*                                                                         *)
(* A file is told by its texts, one for each run to edit. Of a command the *)
(* model has the shell, one process the shell starts, and whether they     *)
(* hold the pipe whose end communicate() waits for.                        *)
(***************************************************************************)
EXTENDS Naturals, FiniteSets

CONSTANTS
  Runs,     \* the runs of the process
  MaxCalls, \* bound on the calls made
  MaxLines  \* bound on the lines the user types

ASSUME ToolsAssumption == IsFiniteSet(Runs) /\ MaxCalls \in Nat /\ MaxLines \in Nat

VARIABLES
  loop,    \* the run whose handler holds the event loop, if any
  pc,      \* where the call of each run is
  cur,     \* the number of each run's current or last call, 0 before one
  calls,   \* calls made
  result,  \* how each call ended
  file,    \* the texts of the file the runs edit
  draft,   \* what an edit has read
  procs,   \* the processes alive, of any call
  printed, \* calls whose command has printed something communicate() holds
  lost,    \* calls whose output was read and dropped
  threads, \* the threads waiting for a line
  lines,   \* lines typed
  yeses    \* of which an agreement

loopVars == <<loop, pc, cur, calls, result>>
fileVars == <<file, draft>>
shellVars == <<procs, printed, lost>>
consoleVars == <<threads, lines, yeses>>
toolVars == <<loop, pc, cur, calls, result, file, draft, procs, printed, lost,
              threads, lines, yeses>>

Calls == 1..MaxCalls
Places == {"idle", "editing", "shell", "draining", "confirm", "elicit"}
Results == {"none", "edited", "completed", "timed_out", "consent", "refusal",
            "answer", "error", "cancelled"}
Process == [call : Calls, kind : {"sh", "kid"}, pipe : BOOLEAN, killed : BOOLEAN]
Thread == [call : Calls, asks : {"confirm", "elicit"}, tries : {1, 2}]

ProcessesOf(c) == {p \in procs : p.call = c}
\* communicate() ends when the shell is gone and nobody holds its pipe.
Over(c) == \A p \in ProcessesOf(c) : p.kind = "kid" /\ ~p.pipe

Returns(r, how) ==
  /\ pc' = [pc EXCEPT ![r] = "idle"]
  /\ result' = [result EXCEPT ![cur[r]] = how]

\* The runtime calls the handler; its checks of arguments and path come first.
Call(r, where) ==
  /\ loop = {}
  /\ pc[r] = "idle"
  /\ calls < MaxCalls
  /\ calls' = calls + 1
  /\ cur' = [cur EXCEPT ![r] = calls']
  /\ pc' = [pc EXCEPT ![r] = where]
  /\ UNCHANGED result

-----------------------------------------------------------------------------
(* edit_file: read_text, then write_bytes, with no await in between *)

\* Faulty variant of EditRead: the file is read in a thread the handler awaits.
EditRead_Awaits(r) ==
  /\ Call(r, "editing")
  /\ draft' = [draft EXCEPT ![r] = file]
  /\ UNCHANGED <<loop, file, shellVars, consoleVars>>
EditRead(r) ==
  /\ Call(r, "editing")
  /\ loop' = {r}
  /\ draft' = [draft EXCEPT ![r] = file]
  /\ UNCHANGED <<file, shellVars, consoleVars>>

EditWrite(r) ==
  /\ pc[r] = "editing"
  /\ loop \subseteq {r}
  /\ loop' = {}
  /\ IF draft[r][r] = "old"
     THEN file' = [draft[r] EXCEPT ![r] = "new"] /\ Returns(r, "edited")
     ELSE Returns(r, "error") /\ UNCHANGED file
  /\ UNCHANGED <<cur, calls, draft, shellVars, consoleVars>>

\* write_file replaces all the texts in one go; read_file changes nothing.
WriteFile(r) ==
  /\ loop = {} /\ pc[r] = "idle" /\ calls < MaxCalls
  /\ calls' = calls + 1
  /\ cur' = [cur EXCEPT ![r] = calls']
  /\ file' = [x \in Runs |-> "new"]
  /\ result' = [result EXCEPT ![calls'] = "edited"]
  /\ UNCHANGED <<loop, pc, draft, shellVars, consoleVars>>

-----------------------------------------------------------------------------
(* run_shell *)

Spawn(r) ==
  /\ Call(r, "shell")
  /\ procs' = procs \union {[call |-> calls', kind |-> "sh", pipe |-> TRUE, killed |-> FALSE]}
  /\ UNCHANGED <<loop, fileVars, printed, lost, consoleVars>>

\* What the processes of a command do: nothing here waits for the runtime.
Fork(p) ==
  /\ p.kind = "sh" /\ ~p.killed
  /\ ~\E q \in ProcessesOf(p.call) : q.kind = "kid"
  /\ \E held \in BOOLEAN :
       procs' = procs \union {[call |-> p.call, kind |-> "kid", pipe |-> held, killed |-> FALSE]}
  /\ UNCHANGED <<loopVars, fileVars, printed, lost, consoleVars>>

PrintOut(p) ==
  /\ p.pipe /\ ~p.killed
  /\ printed' = printed \union {p.call}
  /\ UNCHANGED <<loopVars, fileVars, procs, lost, consoleVars>>

Overwrite(p) ==
  /\ ~p.killed
  /\ \E r \in Runs : file' = [file EXCEPT ![r] = "child"]
  /\ UNCHANGED <<loopVars, draft, shellVars, consoleVars>>

Exit(p) ==
  /\ procs' = procs \ {p}
  /\ UNCHANGED <<loopVars, fileVars, printed, lost, consoleVars>>

\* communicate() returns in time.
Completed(r) ==
  /\ loop = {} /\ pc[r] = "shell"
  /\ Over(cur[r])
  /\ Returns(r, "completed")
  /\ UNCHANGED <<loop, cur, calls, fileVars, shellVars, consoleVars>>

\* Faulty variant of TimedOut: the shell is left running.
TimedOut_NoKill(r) ==
  /\ loop = {} /\ pc[r] = "shell"
  /\ pc' = [pc EXCEPT ![r] = "draining"]
  /\ lost' = lost \union (printed \intersect {cur[r]})
  /\ UNCHANGED <<loop, cur, calls, result, fileVars, procs, printed, consoleVars>>
\* wait_for drops the communicate() that has read so far, the shell is killed
\* and a second communicate() begins, which has no timeout.
TimedOut(r) ==
  /\ loop = {} /\ pc[r] = "shell"
  /\ pc' = [pc EXCEPT ![r] = "draining"]
  /\ lost' = lost \union (printed \intersect {cur[r]})
  /\ procs' = {[p EXCEPT !.killed = p.killed \/ (p.call = cur[r] /\ p.kind = "sh")] : p \in procs}
  /\ UNCHANGED <<loop, cur, calls, result, fileVars, printed, consoleVars>>

Drained(r) ==
  /\ loop = {} /\ pc[r] = "draining"
  /\ Over(cur[r])
  /\ Returns(r, "timed_out")
  /\ UNCHANGED <<loop, cur, calls, fileVars, shellVars, consoleVars>>

-----------------------------------------------------------------------------
(* ask_user and confirm_user: input() on a thread *)

Prompt(r, asks) ==
  /\ Call(r, asks)
  /\ threads' = threads \union {[call |-> calls', asks |-> asks, tries |-> 2]}
  /\ UNCHANGED <<loop, fileVars, shellVars, lines, yeses>>

\* What a line typed comes to. "other" is what neither tool accepts.
Answer(t, line) ==
  CASE line = "eof" -> "error"
    [] line = "yes" /\ t.asks = "confirm" -> "consent"
    [] line = "no" /\ t.asks = "confirm" -> "refusal"
    [] line \in {"yes", "no"} -> "answer"
    [] OTHER -> IF t.tries = 2 THEN "again"
                ELSE IF t.asks = "confirm" THEN "refusal" ELSE "error"

\* A line goes to any of the threads that wait. The call may be gone.
Type(t, line) ==
  /\ lines < MaxLines
  /\ lines' = lines + 1
  /\ yeses' = yeses + (IF line = "yes" THEN 1 ELSE 0)
  /\ IF Answer(t, line) = "again"
     THEN /\ threads' = (threads \ {t}) \union {[t EXCEPT !.tries = 1]}
          /\ UNCHANGED <<pc, result>>
     ELSE /\ threads' = threads \ {t}
          /\ IF \E r \in Runs : cur[r] = t.call /\ pc[r] = t.asks
             THEN Returns(CHOOSE r \in Runs : cur[r] = t.call, Answer(t, line))
             ELSE UNCHANGED <<pc, result>>
  /\ UNCHANGED <<loop, cur, calls, fileVars, shellVars>>

-----------------------------------------------------------------------------
\* A run is cancelled where its handler awaits: its processes and its thread
\* go on.
Cancel(r) ==
  /\ loop = {}
  /\ pc[r] \in {"shell", "draining", "confirm", "elicit"}
  /\ Returns(r, "cancelled")
  /\ UNCHANGED <<loop, cur, calls, fileVars, shellVars, consoleVars>>

ToolsInit ==
  /\ loop = {}
  /\ pc = [r \in Runs |-> "idle"]
  /\ cur = [r \in Runs |-> 0]
  /\ calls = 0
  /\ result = [c \in Calls |-> "none"]
  /\ file = [r \in Runs |-> "old"]
  /\ draft = [r \in Runs |-> file]
  /\ procs = {} /\ printed = {} /\ lost = {}
  /\ threads = {} /\ lines = 0 /\ yeses = 0

ShellStep(r) == Completed(r) \/ Drained(r) \/ TimedOut(r)
Command(p) == Fork(p) \/ PrintOut(p) \/ Overwrite(p) \/ Exit(p)
User == \E t \in threads, line \in {"yes", "no", "other", "eof"} : Type(t, line)
Begin(r) == EditRead(r) \/ WriteFile(r) \/ Spawn(r) \/ Prompt(r, "confirm") \/ Prompt(r, "elicit")

ToolsNext ==
  \/ \E r \in Runs : Begin(r) \/ EditWrite(r) \/ ShellStep(r) \/ Cancel(r)
  \/ \E p \in procs : Command(p)
  \/ User

ToolsSpec == ToolsInit /\ [][ToolsNext]_toolVars

\* The loop runs what is ready, the timer fires and a killed process dies.
\* Nothing makes a command end, a user answer or a caller cancel.
ToolsFairSpec ==
  /\ ToolsSpec
  /\ \A r \in Runs : WF_toolVars(EditWrite(r)) /\ WF_toolVars(ShellStep(r))
  /\ \A c \in Calls : WF_toolVars(\E p \in ProcessesOf(c) : p.killed /\ Exit(p))

-----------------------------------------------------------------------------
(* Correctness *)

(* Everything has its place: a run that is idle has ended its call, threads  *)
(* and processes belong to calls that were made.                             *)
ToolsTypeOK ==
  /\ loop \subseteq Runs /\ pc \in [Runs -> Places]
  /\ cur \in [Runs -> 0..calls] /\ calls \in 0..MaxCalls
  /\ result \in [Calls -> Results]
  /\ file \in [Runs -> {"old", "new", "child"}] /\ draft \in [Runs -> [Runs -> {"old", "new", "child"}]]
  /\ procs \subseteq Process /\ printed \subseteq 1..calls /\ lost \subseteq printed
  /\ threads \subseteq Thread /\ lines \in 0..MaxLines /\ yeses \in 0..lines
  /\ \A r \in Runs : pc[r] = "idle" /\ cur[r] # 0 => result[cur[r]] # "none"

(* When run_shell returns, timed out or not, nothing that writes into its    *)
(* output is alive: what it returned is all there will be.                   *)
ReturnedMeansQuiet ==
  \A p \in procs : p.pipe => result[p.call] \notin {"completed", "timed_out"}

(* confirm_user gives consent only for a yes, and no yes serves two prompts:  *)
(* there are never more consents than agreements typed. Which prompt a line  *)
(* was typed for is not known, neither here nor in the code; see             *)
(* QuestionGetsItsAnswer.                                                    *)
ConsentNeedsYes == Cardinality({c \in Calls : result[c] = "consent"}) <= yeses

(* An edit that was made is not undone by another run's edit of the same     *)
(* file: edit_file reads and writes without letting the loop go. What a      *)
(* command writes in between is lost, and what it writes later may undo.     *)
EditsLast ==
  \A r \in Runs : (pc[r] = "idle" /\ cur[r] # 0 /\ result[cur[r]] = "edited")
                    => file[r] # "old"

(* What a call returned stands, however the calls of several runs interleave  *)
(* on one loop, one console and one file: no output comes after the result of *)
(* run_shell, no consent without an agreement of its own, no edit is undone   *)
(* by an edit.                                                                *)
ResultsStand == ToolsTypeOK /\ ReturnedMeansQuiet /\ ConsentNeedsYes /\ EditsLast

(* A shell call ends, whatever the command does, unless a process that the   *)
(* shell left behind holds the pipe.                                         *)
EndsOrHeld ==
  \A r \in Runs : pc[r] = "shell" ~>
    (pc[r] = "idle" \/ \E p \in ProcessesOf(cur[r]) : p.kind = "kid" /\ p.pipe)

(* run_shell's "Clamp timeout to a sane maximum": every call of it ends      *)
(* within its timeout, so it ends.                                           *)
TimeoutEnds == \A r \in Runs : pc[r] = "shell" ~> pc[r] = "idle"

(* ask_user's "Ask the user a question and return their answer": when one     *)
(* call waits for the user, the line typed is read for that call. A call that *)
(* was cancelled leaves its thread in input().                                *)
QuestionGetsItsAnswer ==
  [][\A r \in Runs :
       lines' # lines /\ {s \in Runs : pc[s] \in {"confirm", "elicit"}} = {r}
         => \A t \in threads \ threads' : t.call = cur[r]]_toolVars

(* "Run a shell command and return stdout, stderr, and exit code": what the  *)
(* command printed is in the result.                                         *)
OutputIsReturned == \A c \in lost : result[c] \notin {"completed", "timed_out"}
=============================================================================
