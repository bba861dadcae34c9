----------------------------- MODULE ImageStream -----------------------------
(***************************************************************************)
(* `k3d image import --mode direct`: one goroutine copies a stream of        *)
(* images to a pipe per node (io.MultiWriter over io.Pipe), and a goroutine  *)
(* per node executes `ctr image import -` there, with another one that       *)
(* pumps the pipe into the process.  The pipes have no buffer, so the copier *)
(* goes at the pace of the slowest node; an error group joins them.          *)
(***************************************************************************)
EXTENDS Naturals

CONSTANTS
  N,      \* the number of server and agent nodes
  Chunks  \* bound: the length of the stream

ASSUME ImageStreamAssumption == N \in Nat \ {0} /\ Chunks \in Nat \ {0}

Node == 1..N

VARIABLES
  copier,  \* the copying goroutine: "copying", "ok" or "failed"
  written, \* chunks that it has written to all the pipes
  at,      \* the pipe to which it writes the next chunk now
  execs,    \* ExecInNodeWithStdin of each node
  proc,    \* the process in each node
  got,     \* chunks that the process has received
  pump,    \* the goroutine between pipe and process: "none", "reading", "sending", "ended"
  main,    \* loadImageFromStream: "waiting", "ok" or "failed"
  fault    \* history: what has failed last outside the code, or "none"

importVars == <<copier, written, at, execs, proc, got, pump, main, fault>>

ImportInit ==
  /\ copier = "copying" /\ written = 0 /\ at = 1
  /\ execs = [n \in Node |-> "exec"] /\ proc = [n \in Node |-> "none"]
  /\ got = [n \in Node |-> 0] /\ pump = [n \in Node |-> "none"]
  /\ main = "waiting" /\ fault = "none"
-----------------------------------------------------------------------------
Set(f, n, v) == [f EXCEPT ![n] = v]

\* Mutated form of Exec: the stream is to be copied by the call itself, after its loop.
ExecThenCopy(n) ==
  /\ execs[n] = "exec" /\ execs' = Set(execs, n, "poll") /\ proc' = Set(proc, n, "running")
  /\ UNCHANGED <<copier, written, at, got, pump, main, fault>>

\* executeInNode creates the process, attaches to it and starts the pump.
Exec(n) ==
  /\ execs[n] = "exec" /\ execs' = Set(execs, n, "poll") /\ proc' = Set(proc, n, "running")
  /\ pump' = Set(pump, n, "reading")
  /\ UNCHANGED <<copier, written, at, got, main, fault>>

\* When that fails nobody ever reads the node's pipe, nor closes it.
ExecFails(n) ==
  /\ execs[n] = "exec" /\ execs' = Set(execs, n, "failed") /\ fault' = "exec"
  /\ UNCHANGED <<copier, written, at, proc, got, pump, main>>

\* Mutated form of HandOver: the copier goes on to the next pipe before the reader is ready.
HandOverAtOnce(n) ==
  /\ copier = "copying" /\ written < Chunks /\ at = n
  /\ pump[n] \in {"reading", "sending"} /\ pump' = Set(pump, n, "sending")
  /\ IF n = N THEN at' = 1 /\ written' = written + 1 ELSE at' = n + 1 /\ UNCHANGED written
  /\ UNCHANGED <<copier, execs, proc, got, main, fault>>

\* A write to a pipe returns when the reader has taken the chunk.
HandOver(n) ==
  /\ copier = "copying" /\ written < Chunks /\ at = n
  /\ pump[n] = "reading" /\ pump' = Set(pump, n, "sending")
  /\ IF n = N THEN at' = 1 /\ written' = written + 1 ELSE at' = n + 1 /\ UNCHANGED written
  /\ UNCHANGED <<copier, execs, proc, got, main, fault>>

\* The call has not closed the connection to the process yet.
Connected(n) == execs[n] \in {"poll", "logs"}

\* The pump writes to the connection; that fails when the call has closed it, and may fail when
\* the process has ended.  Then the pump closes the pipe.
Send(n) ==
  /\ pump[n] = "sending"
  /\ \/ /\ Connected(n) /\ pump' = Set(pump, n, "reading")
        /\ got' = IF proc[n] = "running" THEN Set(got, n, got[n] + 1) ELSE got
     \/ /\ ~Connected(n) \/ proc[n] # "running"
        /\ pump' = Set(pump, n, "ended") /\ UNCHANGED got
  /\ UNCHANGED <<copier, written, at, execs, proc, main, fault>>

\* `ctr image import` ends with the archive's end mark, for its input is never closed ...
ProcEnds(n) ==
  /\ proc[n] = "running" /\ got[n] = Chunks /\ proc' = Set(proc, n, "ok")
  /\ UNCHANGED <<copier, written, at, execs, got, pump, main, fault>>

\* ... or fails.
ProcFails(n) ==
  /\ proc[n] = "running" /\ proc' = Set(proc, n, "failed") /\ fault' = "process"
  /\ UNCHANGED <<copier, written, at, execs, got, pump, main>>

\* Mutated form of Poll: the exit code is not looked at.
PollEnd(n) ==
  /\ execs[n] = "poll" /\ proc[n] # "running" /\ execs' = Set(execs, n, "ok")
  /\ UNCHANGED <<copier, written, at, proc, got, pump, main, fault>>

\* The loop of executeInNode sees that the process has ended, and how.
Poll(n) ==
  /\ execs[n] = "poll" /\ proc[n] # "running"
  /\ execs' = Set(execs, n, IF proc[n] = "ok" THEN "ok" ELSE "logs")
  /\ UNCHANGED <<copier, written, at, proc, got, pump, main, fault>>

InspectFails(n) ==
  /\ execs[n] = "poll" /\ execs' = Set(execs, n, "logs") /\ fault' = "inspection"
  /\ UNCHANGED <<copier, written, at, proc, got, pump, main>>

\* After an error execInNode reads what the process prints until it ends, and closes
\* the connection.
Logs(n) ==
  /\ execs[n] = "logs" /\ proc[n] # "running" /\ execs' = Set(execs, n, "failed")
  /\ UNCHANGED <<copier, written, at, proc, got, pump, main, fault>>

\* The copier is done, or finds the pipe closed by its reader.  It does not close the pipes.
CopierEnds ==
  /\ copier = "copying"
  /\ \/ written = Chunks /\ copier' = "ok"
     \/ written < Chunks /\ pump[at] = "ended" /\ copier' = "failed"
  /\ UNCHANGED <<written, at, execs, proc, got, pump, main, fault>>

\* Between two chunks it fails to read the stream, or in the end to close it.
StreamFails ==
  /\ copier = "copying" /\ at = 1 /\ copier' = "failed" /\ fault' = "stream"
  /\ UNCHANGED <<written, at, execs, proc, got, pump, main>>

Results == {copier} \cup {execs[n] : n \in Node}

\* errorGroup.Wait: a group without a context waits for all and returns the first error.
Wait ==
  /\ main = "waiting" /\ Results \subseteq {"ok", "failed"}
  /\ main' = IF "failed" \in Results THEN "failed" ELSE "ok"
  /\ UNCHANGED <<copier, written, at, execs, proc, got, pump, fault>>
-----------------------------------------------------------------------------
Works(n) == Exec(n) \/ HandOver(n) \/ Send(n) \/ ProcEnds(n) \/ Poll(n) \/ Logs(n)
Breaks(n) == ExecFails(n) \/ ProcFails(n) \/ InspectFails(n)
ImportNext == (\E n \in Node : Works(n) \/ Breaks(n)) \/ CopierEnds \/ StreamFails \/ Wait
ImportSpec == ImportInit /\ [][ImportNext]_importVars
\* Goroutines run, runtime calls return, and a process that has all of the archive ends.  A
\* failure is never forced.
FairImport ==
  /\ ImportSpec /\ WF_importVars(CopierEnds) /\ WF_importVars(Wait)
  /\ \A n \in Node : /\ WF_importVars(Exec(n)) /\ WF_importVars(HandOver(n)) /\ WF_importVars(Send(n))
                     /\ WF_importVars(ProcEnds(n)) /\ WF_importVars(Poll(n)) /\ WF_importVars(Logs(n))
-----------------------------------------------------------------------------
\* The goroutines' and processes' state keep their types.
ImportTypes ==
  /\ copier \in {"copying", "ok", "failed"} /\ written \in 0..Chunks /\ at \in Node
  /\ execs \in [Node -> {"exec", "poll", "logs", "ok", "failed"}]
  /\ proc \in [Node -> {"none", "running", "ok", "failed"}]
  /\ got \in [Node -> 0..Chunks] /\ pump \in [Node -> {"none", "reading", "sending", "ended"}]
  /\ main \in {"waiting", "ok", "failed"}
  /\ fault \in {"none", "exec", "process", "inspection", "stream"}

\* Success means that every node has imported the whole stream.
SuccessMeansImported == main = "ok" => \A n \in Node : proc[n] = "ok" /\ got[n] = Chunks

\* The nodes move in lockstep: as long as a node's process takes what it is sent, it has had
\* exactly the chunks the copier has written to its pipe, but for the one in the pump.
Lockstep ==
  \A n \in Node : proc[n] = "running" /\ Connected(n) =>
    got[n] + (IF pump[n] = "sending" THEN 1 ELSE 0) = written + (IF n < at THEN 1 ELSE 0)

\* If nothing fails the import ends, and well: the goroutines do not wait in a circle.
ImportEnds == <>(fault # "none" \/ main = "ok")

\* The text that loadImageFromStream returns, "error loading image to cluster, first error":
\* when a node fails the import ends with that error.
FailureReported == \A n \in Node : execs[n] = "failed" ~> main = "failed"
=============================================================================
