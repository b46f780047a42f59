---------------------------- MODULE GuestProcess ----------------------------
(***************************************************************************)
(* A guest's user process (beand/server.go: StartUserProcess, its reaper,  *)
(* UserExitCode, GetLogs) and the ring that keeps the end of its output    *)
(* (beand/buffer.go). The process writes to a pipe a goroutine copies to   *)
(* the ring; descendants may hold the pipe after it has exited, and Wait   *)
(* returns when the process is gone and the pipe at its end.               *)
(***************************************************************************)
EXTENDS Integers, Sequences, FiniteSets, SequencesExt

CONSTANTS
    LogSize,      \* RingBuffer.size, in bytes
    MaxStarts,    \* bound: StartUserProcess calls
    MaxOutput     \* bound: bytes all processes write

VARIABLES
    ring,       \* [buf, w, full]
    userProc,   \* Server.userProc is set
    userExit,   \* Server.userExitCode: of which process it is, 0 for nil
    process,    \* "none", "running" or "exited"
    kin,        \* a descendant of the process holds its pipe
    inPipe,     \* bytes in the pipe
    reaper,     \* "none", "wait", "log", "clear"
    starts,     \* calls so far; the number of the current process
    runs,        \* processes started
    said        \* everything ever written to the ring, in order

procVars == <<ring, userProc, userExit, process, kin, inPipe, reaper, starts, runs, said>>

\* A byte: of which process, and whether it ends a line, and whether beand wrote it.
Byte(g, nl, ours) == [gen |-> g, nl |-> nl, ours |-> ours]
Blank == Byte(0, FALSE, FALSE)
ExitLine(g) == <<Byte(g, TRUE, TRUE), Byte(g, TRUE, TRUE)>>

-----------------------------------------------------------------------------
\* RingBuffer

NewRing == [buf |-> [i \in 0..(LogSize - 1) |-> Blank], w |-> 0, full |-> FALSE]

\* Mutant of RingWrite: a write that ends where the ring ends does not fill it.
RingWriteShort(r, p) ==
    LET n == Len(p)
    IN  IF n >= LogSize
        THEN [buf |-> [i \in 0..(LogSize - 1) |-> p[n - LogSize + i + 1]], w |-> 0, full |-> TRUE]
        ELSE [buf |-> [i \in 0..(LogSize - 1) |->
                         LET off == (i - r.w + LogSize) % LogSize IN IF off < n THEN p[off + 1] ELSE r.buf[i]],
              w |-> (r.w + n) % LogSize, full |-> r.full \/ r.w + n > LogSize]
\* A write longer than the ring leaves its end; a shorter one may wrap.
RingWrite(r, p) ==
    LET n == Len(p)
    IN  IF n >= LogSize
        THEN [buf |-> [i \in 0..(LogSize - 1) |-> p[n - LogSize + i + 1]], w |-> 0, full |-> TRUE]
        ELSE [buf |-> [i \in 0..(LogSize - 1) |->
                         LET off == (i - r.w + LogSize) % LogSize IN IF off < n THEN p[off + 1] ELSE r.buf[i]],
              w |-> (r.w + n) % LogSize, full |-> r.full \/ r.w + n >= LogSize]
Snapshot(r) ==
    IF r.full THEN [i \in 1..LogSize |-> r.buf[(r.w + i - 1) % LogSize]]
    ELSE [i \in 1..r.w |-> r.buf[i - 1]]

\* tailLines counts line ends from the end and cuts after the one too many.
LineEnds(data) == Cardinality({i \in 1..Len(data) : data[i].nl})
TailLines(data, n) ==
    LET cuts == {i \in 1..Len(data) : data[i].nl /\ LineEnds(SubSeq(data, i, Len(data))) > n}
    IN  IF cuts = {} THEN data ELSE SubSeq(data, (CHOOSE i \in cuts : \A j \in cuts : j <= i) + 1, Len(data))

GetLogs(n) == TailLines(Snapshot(ring), n)

ToRing(p) == ring' = RingWrite(ring, p) /\ said' = said \o p

-----------------------------------------------------------------------------
ProcInit ==
    /\ ring = NewRing /\ userProc = FALSE /\ userExit = 0 /\ process = "none" /\ kin = FALSE
    /\ inPipe = <<>> /\ reaper = "none" /\ starts = 0 /\ runs = 0 /\ said = <<>>

\* Under the mutex: refused while a process is set, or the start fails, or it runs.
StartUserProcess ==
    /\ starts < MaxStarts /\ starts' = starts + 1
    /\ \/ /\ ~userProc /\ userProc' = TRUE /\ process' = "running" /\ reaper' = "wait"
          /\ runs' = runs + 1 /\ UNCHANGED <<kin, inPipe>>
       \/ UNCHANGED <<userProc, process, reaper, runs, kin, inPipe>>
    /\ UNCHANGED <<ring, userExit, said>>

\* The process, or a descendant, writes a byte to its pipe.
Output(nl) ==
    /\ ~kin => process = "running"
    /\ Len(SelectSeq(said, LAMBDA b : ~b.ours)) + Len(inPipe) < MaxOutput
    /\ inPipe' = Append(inPipe, Byte(runs, nl, FALSE))
    /\ UNCHANGED <<ring, userProc, userExit, process, kin, reaper, starts, runs, said>>
ForkKin ==
    /\ process = "running" /\ ~kin /\ kin' = TRUE
    /\ UNCHANGED <<ring, userProc, userExit, process, inPipe, reaper, starts, runs, said>>
KinExits ==
    /\ kin /\ kin' = FALSE
    /\ UNCHANGED <<ring, userProc, userExit, process, inPipe, reaper, starts, runs, said>>
ProcessExits ==
    /\ process = "running" /\ process' = "exited"
    /\ UNCHANGED <<ring, userProc, userExit, kin, inPipe, reaper, starts, runs, said>>

\* exec's goroutine copies what it finds in the pipe.
CopyOutput ==
    /\ \E n \in 1..Len(inPipe) :
          ToRing(SubSeq(inPipe, 1, n)) /\ inPipe' = SubSeq(inPipe, n + 1, Len(inPipe))
    /\ UNCHANGED <<userProc, userExit, process, kin, reaper, starts, runs>>

\* cmd.Wait: the process is gone, and the pipe read to its end.
WaitReturns ==
    /\ reaper = "wait" /\ process = "exited" /\ ~kin /\ inPipe = <<>> /\ reaper' = "log"
    /\ UNCHANGED <<ring, userProc, userExit, process, kin, inPipe, starts, runs, said>>
LogExit ==
    /\ reaper = "log" /\ ToRing(ExitLine(runs)) /\ reaper' = "clear"
    /\ UNCHANGED <<userProc, userExit, process, kin, inPipe, starts, runs>>
ClearUserProc ==
    /\ reaper = "clear" /\ reaper' = "none" /\ userProc' = FALSE /\ userExit' = runs
    /\ UNCHANGED <<ring, process, kin, inPipe, starts, runs, said>>

ProcNext ==
    \/ StartUserProcess \/ ForkKin \/ KinExits \/ ProcessExits
    \/ \E nl \in BOOLEAN : Output(nl)
    \/ CopyOutput \/ WaitReturns \/ LogExit \/ ClearUserProc
ProcSpec == ProcInit /\ [][ProcNext]_procVars /\ WF_procVars(WaitReturns \/ LogExit \/ ClearUserProc)

-----------------------------------------------------------------------------
\* GetLogs: the ring holds the end of everything written to it, across its wrap-around; one
\* process after another, each closed by the line that says it exited, before the next is
\* let in; and a tail is whole lines, as many as asked for.
LogsKept ==
    LET data == Snapshot(ring)
    IN  /\ data = SubSeq(said, Len(said) - Len(data) + 1, Len(said))
        /\ Len(data) = IF Len(said) < LogSize THEN Len(said) ELSE LogSize
        /\ \A i, j \in 1..Len(said) : i < j =>
              IF said[i].gen = said[j].gen THEN said[i].ours => said[j].ours
              ELSE said[i].gen < said[j].gen /\ \E k \in i..j : said[k].ours
        /\ userProc => userExit = runs - 1
        /\ \A n \in 1..2 :
              LET tail == GetLogs(n)
              IN  /\ tail = SubSeq(data, Len(data) - Len(tail) + 1, Len(data)) /\ LineEnds(tail) <= n
                  /\ Len(tail) < Len(data) => data[Len(data) - Len(tail)].nl /\ LineEnds(tail) = n

\* StartUserProcess's reaper: "so a crashed user process can be restarted".
CrashedRestartable == process = "exited" ~> ~userProc
=============================================================================
