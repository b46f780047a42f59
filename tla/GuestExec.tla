----------------------------- MODULE GuestExec -----------------------------
(***************************************************************************)
(* One Exec in a guest (beand/server.go, buffer.go, proc_unix.go): a       *)
(* command in a process group of its own, under a deadline, its output     *)
(* kept up to a limit. A descendant of it may hold the output pipe, in the *)
(* group or out of it, after the command has exited. exec.Cmd is external: *)
(* its context watcher stops when Wait has seen the command exit.          *)
(* The agent's own steps take no time.                                     *)
(***************************************************************************)
EXTENDS Integers

CONSTANTS
    ExecTimeout,    \* the request's timeout, in ticks
    WaitDelay,      \* cmd.WaitDelay, in ticks
    MaxKept,        \* the request's MaxOutputBytes
    MaxWrites       \* bound: bytes written in all

VARIABLES
    elapsed,    \* ticks since the command was started
    ctxErr,     \* the context: "none", "deadline", "canceled"
    cmdState,   \* the command: "running", or how it ended: "exit0", "exit1", "killed"
    heir,       \* a descendant holding the pipe: "none", "group" or "session"
    watcher,    \* "on", "canceled" once it killed the group, "off"
    cmdWaited,     \* Process.Wait has returned
    delay,      \* ticks left of WaitDelay, or -1
    wrote,      \* bytes the copying goroutine gave to the buffer
    kept, truncated,    \* cappedBuffer
    reply       \* "none", or what Exec returned

execVars == <<elapsed, ctxErr, cmdState, heir, watcher, cmdWaited, delay, wrote, kept, truncated, reply>>

ExecInit ==
    /\ elapsed = 0 /\ ctxErr = "none" /\ cmdState = "running" /\ heir = "none" /\ watcher = "on"
    /\ cmdWaited = FALSE /\ delay = -1 /\ wrote = 0 /\ kept = 0 /\ truncated = FALSE /\ reply = "none"

Ongoing == reply = "none"

-----------------------------------------------------------------------------
\* What the command, its descendant and the caller do

\* cappedBuffer.Write drops what is beyond the limit and says so.
CappedWrite ==
    /\ Ongoing /\ (heir = "none" => cmdState = "running")
    /\ wrote < MaxWrites /\ wrote' = wrote + 1
    /\ IF kept < MaxKept THEN kept' = kept + 1 /\ UNCHANGED truncated ELSE truncated' = TRUE /\ UNCHANGED kept
    /\ UNCHANGED <<elapsed, ctxErr, cmdState, heir, watcher, cmdWaited, delay, reply>>
CmdExits ==
    /\ Ongoing /\ cmdState = "running" /\ cmdState' \in {"exit0", "exit1"}
    /\ UNCHANGED <<elapsed, ctxErr, heir, watcher, cmdWaited, delay, wrote, kept, truncated, reply>>
HeirChanges ==
    /\ Ongoing
    /\ \/ cmdState = "running" /\ heir = "none" /\ heir' \in {"group", "session"}
       \/ heir # "none" /\ heir' = "none"
    /\ UNCHANGED <<elapsed, ctxErr, cmdState, watcher, cmdWaited, delay, wrote, kept, truncated, reply>>
CallerGone ==
    /\ Ongoing /\ ctxErr = "none" /\ ctxErr' = "canceled"
    /\ UNCHANGED <<elapsed, cmdState, heir, watcher, cmdWaited, delay, wrote, kept, truncated, reply>>

-----------------------------------------------------------------------------
\* exec.Cmd and Exec

KillGroup ==
    /\ cmdState' = (IF cmdState = "running" THEN "killed" ELSE cmdState)
    /\ heir' = IF heir = "group" THEN "none" ELSE heir

Cancel ==
    /\ Ongoing /\ watcher = "on" /\ ctxErr # "none"
    /\ KillGroup /\ watcher' = "canceled" /\ delay' = WaitDelay
    /\ UNCHANGED <<elapsed, ctxErr, cmdWaited, wrote, kept, truncated, reply>>
ProcessWaited ==
    /\ Ongoing /\ ~cmdWaited /\ cmdState # "running" /\ cmdWaited' = TRUE
    /\ watcher' = (IF watcher = "on" THEN "off" ELSE watcher)
    /\ delay' = IF delay = -1 THEN WaitDelay ELSE delay
    /\ UNCHANGED <<elapsed, ctxErr, cmdState, heir, wrote, kept, truncated, reply>>

\* The copying goroutines end with the pipe, or their pipe is closed when the delay is over.
OutputDone == cmdWaited /\ (heir # "none" => delay = 0)

ExecAnswer ==
    CASE ctxErr = "deadline" -> "timeout"
      [] ctxErr # "deadline" /\ cmdState = "exit1" -> "code1"
      [] ctxErr # "deadline" /\ cmdState = "killed" -> "code-1"
      [] ctxErr # "deadline" /\ cmdState = "exit0" /\ watcher = "canceled" -> "internal"
      [] ctxErr # "deadline" /\ cmdState = "exit0" /\ watcher # "canceled" ->
            IF heir = "none" THEN "code0" ELSE "internal"
ExecReturns ==
    /\ Ongoing /\ OutputDone /\ reply' = ExecAnswer
    /\ UNCHANGED <<elapsed, ctxErr, cmdState, heir, watcher, cmdWaited, delay, wrote, kept, truncated>>

\* Time passes when the agent has nothing to do.
ExecTick ==
    /\ Ongoing /\ elapsed <= ExecTimeout + WaitDelay
    /\ ~(watcher = "on" /\ ctxErr # "none") /\ ~(~cmdWaited /\ cmdState # "running") /\ ~OutputDone
    /\ elapsed' = elapsed + 1
    /\ ctxErr' = (IF elapsed' = ExecTimeout /\ ctxErr = "none" THEN "deadline" ELSE ctxErr)
    /\ delay' = IF delay > 0 THEN delay - 1 ELSE delay
    /\ UNCHANGED <<cmdState, heir, watcher, cmdWaited, wrote, kept, truncated, reply>>

ExecNext ==
    \/ CappedWrite \/ CmdExits \/ HeirChanges \/ CallerGone
    \/ Cancel \/ ProcessWaited \/ ExecReturns \/ ExecTick
ExecSpec == ExecInit /\ [][ExecNext]_execVars

-----------------------------------------------------------------------------

\* Exec: "kill the whole group on timeout".
TimeoutKillsGroup == reply = "timeout" => heir # "group"
=============================================================================
