------------------------------- MODULE Magick --------------------------------
(* ImageMagick as a child process: the session-wide gate of decode.rs, shared by  *)
(* every process through a named semaphore, and the calls of decode/magick.rs that *)
(* decode through a child's pipes or let it encode into a file. A call feeds the   *)
(* child's stdin and drains its stdout on threads of their own, bounds the child   *)
(* by a deadline, kills it and joins the threads. The child does as it likes; the  *)
(* process of a call may be killed at any step, and its permit is lost. The third  *)
(* thread of a call, which drains stderr, ends whenever the child has, so that the *)
(* child never waits on stderr; it is not modelled.                                *)
EXTENDS Naturals, FiniteSets

CONSTANTS
    Decodes,  \* calls of decode_via_magick_spec_alloc, each in a process of its own
    Encodes,  \* calls of encode_via_magick
    MAX,      \* magick_gate::MAX
    Chunks    \* the length of a whole output

Calls == Decodes \union Encodes

ASSUME CallsAssumption == Decodes \intersect Encodes = {} /\ IsFiniteSet(Calls)
ASSUME SizesAssumption == MAX \in Nat /\ Chunks \in Nat \ {0}

VARIABLES
    permits, \* the count of the semaphore
    leaked,  \* history: permits that died with their process
    call,    \* the state of each call
    child,   \* its child process
    pipe,    \* the child's ends of its pipes
    thread   \* the threads that feed and drain them

vars == <<permits, leaked, call, child, pipe, thread>>

CallState == [
    pc       : {"idle", "gate", "spawn", "wait", "poll", "kill", "reap", "join", "dead"},
    permit   : BOOLEAN,
    uncapped : BOOLEAN,                    \* history: it goes on without a permit
    expired  : BOOLEAN,                    \* timed_out
    blind    : BOOLEAN,                    \* wait_failed
    status   : {"none", "ok", "failed"},   \* the exit status it has seen
    result   : {"none", "ok", "err"}]      \* what the last call returned

ChildState == [
    is    : {"none", "running", "ok", "failed"}, \* not started, or how it ended
    wrote : 0..Chunks]                           \* its output: on stdout, or in the file

Pipes == {"stdin", "stdout"}
PipeState == [
    taken : BOOLEAN,                             \* has the child, or the pipe, room for all its input?
    open  : SUBSET Pipes]                        \* the child's ends

ThreadState == [
    running : SUBSET {"writer", "reader"},
    sent    : BOOLEAN]                           \* has the reader seen the end of stdout?

NewCall == [pc |-> "idle", permit |-> FALSE, uncapped |-> FALSE, expired |-> FALSE,
            blind |-> FALSE, status |-> "none", result |-> "none"]
NoChild == [is |-> "none", wrote |-> 0]
NoPipes == [taken |-> FALSE, open |-> {}]
NoThreads == [running |-> {}, sent |-> FALSE]

Init ==
    /\ permits = MAX /\ leaked = 0
    /\ call = [c \in Calls |-> NewCall]
    /\ child = [c \in Calls |-> NoChild]
    /\ pipe = [c \in Calls |-> NoPipes]
    /\ thread = [c \in Calls |-> NoThreads]

-----------------------------------------------------------------------------
At(c, pc) == call[c].pc = pc
Alive(c) == ~At(c, "dead")
Running(c) == child[c].is = "running"
gate == <<permits, leaked>>

-----------------------------------------------------------------------------
(* The gate *)

Begin(c) ==
    /\ At(c, "idle")
    /\ call' = [call EXCEPT ![c] = [NewCall EXCEPT !.pc = "gate"]]
    /\ child' = [child EXCEPT ![c] = NoChild]
    /\ UNCHANGED <<gate, pipe, thread>>

acquire(c) ==
    /\ At(c, "gate") /\ permits > 0
    /\ permits' = permits - 1
    /\ call' = [call EXCEPT ![c].permit = TRUE, ![c].pc = "spawn"]
    /\ UNCHANGED <<leaked, child, pipe, thread>>

\* the semaphore could not be created, or GATE_WAIT_MS passed without a slot
acquire_gives_up(c) ==
    /\ At(c, "gate")
    /\ call' = [call EXCEPT ![c].uncapped = TRUE, ![c].pc = "spawn"]
    /\ UNCHANGED <<gate, child, pipe, thread>>


\* the call returns and its permit, if it has one, is dropped
Return(c, result) ==
    /\ call' = [call EXCEPT ![c] = [NewCall EXCEPT !.result = result]]
    /\ permits' = permits + (IF call[c].permit THEN 1 ELSE 0)

-----------------------------------------------------------------------------
(* The call *)

SpawnFails(c) ==
    /\ At(c, "spawn")
    /\ Return(c, "err")
    /\ UNCHANGED <<leaked, child, pipe, thread>>


\* the child and its threads start; a small input fits into the pipe
Spawn(c) ==
    /\ At(c, "spawn")
    /\ call' = [call EXCEPT ![c].pc = "wait"]
    /\ child' = [child EXCEPT ![c].is = "running"]
    /\ \E fits \in BOOLEAN : pipe' = [pipe EXCEPT ![c] = [taken |-> fits, open |-> Pipes]]
    /\ thread' = [thread EXCEPT ![c].running = {"writer", "reader"}]
    /\ UNCHANGED gate

\* mutant: an encode joins its writer as soon as stdout has ended
GotJoiningWriter(c) ==
    /\ At(c, "wait") /\ thread[c].sent
    /\ c \in Encodes => "writer" \notin thread[c].running
    /\ call' = [call EXCEPT ![c].pc = IF c \in Decodes THEN "kill" ELSE "poll"]
    /\ UNCHANGED <<gate, child, pipe, thread>>

\* recv_timeout has an answer. A decode has all it wants and kills the child; an
\* encode waits for the child itself, within the same deadline.
Got(c) ==
    /\ At(c, "wait") /\ thread[c].sent
    /\ call' = [call EXCEPT ![c].pc = IF c \in Decodes THEN "kill" ELSE "poll"]
    /\ UNCHANGED <<gate, child, pipe, thread>>

Expires(c) ==
    /\ (At(c, "wait") /\ ~thread[c].sent) \/ At(c, "poll")
    /\ call' = [call EXCEPT ![c].expired = TRUE, ![c].pc = "kill"]
    /\ UNCHANGED <<gate, child, pipe, thread>>

\* try_wait
PollExited(c) ==
    /\ At(c, "poll") /\ ~Running(c)
    /\ call' = [call EXCEPT ![c].status = child[c].is, ![c].pc = "join"]
    /\ UNCHANGED <<gate, child, pipe, thread>>

PollFails(c) ==
    /\ At(c, "poll")
    /\ call' = [call EXCEPT ![c].blind = TRUE, ![c].pc = "kill"]
    /\ UNCHANGED <<gate, child, pipe, thread>>

\* a killed child leaves its pipes; kill on a child that has ended does nothing
Kill(c) ==
    /\ At(c, "kill")
    /\ call' = [call EXCEPT ![c].pc = IF c \in Decodes THEN "join" ELSE "reap"]
    /\ IF Running(c)
       THEN /\ child' = [child EXCEPT ![c].is = "failed"]
            /\ pipe' = [pipe EXCEPT ![c].open = {}]
       ELSE UNCHANGED <<child, pipe>>
    /\ UNCHANGED <<gate, thread>>

Reap(c) ==
    /\ At(c, "reap") /\ ~Running(c)
    /\ call' = [call EXCEPT ![c].status = child[c].is, ![c].pc = "join"]
    /\ UNCHANGED <<gate, child, pipe, thread>>

\* the PNG on stdout decodes; the encoded file is there and the child ended well
DecodeWorked(c) == ~call[c].expired /\ child[c].wrote = Chunks

EncodeWorked(c) ==
    ~call[c].expired /\ ~call[c].blind /\ child[c].wrote > 0 /\ call[c].status = "ok"

\* the threads are joined; a failed encode removes its file
Join(c) ==
    /\ At(c, "join") /\ thread[c].running = {}
    /\ LET ok == IF c \in Decodes THEN DecodeWorked(c) ELSE EncodeWorked(c)
       IN /\ Return(c, IF ok THEN "ok" ELSE "err")
          /\ child' = [child EXCEPT ![c].wrote = IF ok THEN @ ELSE 0]
    /\ pipe' = [pipe EXCEPT ![c] = NoPipes]
    /\ thread' = [thread EXCEPT ![c] = NoThreads]
    /\ UNCHANGED leaked

-----------------------------------------------------------------------------
(* Its threads *)

EndThread(c, t) == thread' = [thread EXCEPT ![c].running = @ \ {t}]

\* write_all ends when the input is in the pipe or the child has closed its end
Writes(c) ==
    /\ "writer" \in thread[c].running /\ (pipe[c].taken \/ "stdin" \notin pipe[c].open)
    /\ EndThread(c, "writer")
    /\ UNCHANGED <<gate, call, child, pipe>>

\* read_to_end has what the child wrote once the child has closed its end; then the send
Reads(c) ==
    /\ "reader" \in thread[c].running /\ "stdout" \notin pipe[c].open
    /\ thread' = [thread EXCEPT ![c].running = @ \ {"reader"}, ![c].sent = TRUE]
    /\ UNCHANGED <<gate, call, child, pipe>>

-----------------------------------------------------------------------------
(* ImageMagick, which reads, writes, closes a pipe, ends, or does none of these *)

\* it reads enough of its input for the rest to fit into the pipe
ChildReads(c) ==
    /\ Running(c) /\ "stdin" \in pipe[c].open /\ ~pipe[c].taken
    /\ pipe' = [pipe EXCEPT ![c].taken = TRUE]
    /\ UNCHANGED <<gate, call, child, thread>>

\* a decoding child writes to stdout, an encoding one to the file
ChildWrites(c) ==
    /\ Running(c) /\ child[c].wrote < Chunks
    /\ c \in Decodes => "stdout" \in pipe[c].open
    /\ child' = [child EXCEPT ![c].wrote = @ + 1]
    /\ UNCHANGED <<gate, call, pipe, thread>>

ChildCloses(c) ==
    /\ Running(c)
    /\ \E p \in pipe[c].open : pipe' = [pipe EXCEPT ![c].open = @ \ {p}]
    /\ UNCHANGED <<gate, call, child, thread>>

\* it reports success only for a whole output
ChildExits(c) ==
    /\ Running(c)
    /\ \E how \in {"ok", "failed"} :
        /\ how = "ok" => child[c].wrote = Chunks
        /\ child' = [child EXCEPT ![c].is = how]
    /\ pipe' = [pipe EXCEPT ![c].open = {}]
    /\ UNCHANGED <<gate, call, thread>>

\* the process of the call is killed; Windows does not give its permit back
ProcessDies(c) ==
    /\ ~At(c, "idle") /\ Alive(c)
    /\ leaked' = leaked + (IF call[c].permit THEN 1 ELSE 0)
    /\ call' = [call EXCEPT ![c] = [NewCall EXCEPT !.pc = "dead"]]
    /\ pipe' = [pipe EXCEPT ![c] = NoPipes]
    /\ thread' = [thread EXCEPT ![c] = NoThreads]
    /\ UNCHANGED <<permits, child>>

-----------------------------------------------------------------------------
CallStep(c) ==
    \/ acquire(c) \/ acquire_gives_up(c) \/ SpawnFails(c) \/ Spawn(c)
    \/ Got(c) \/ Expires(c) \/ PollExited(c) \/ PollFails(c)
    \/ Kill(c) \/ Reap(c) \/ Join(c)

ChildStep(c) ==
    ChildReads(c) \/ ChildWrites(c) \/ ChildCloses(c) \/ ChildExits(c)

Next ==
    \E c \in Calls :
        \/ Begin(c) \/ CallStep(c) \/ ProcessDies(c)
        \/ Writes(c) \/ Reads(c)
        \/ ChildStep(c)

Spec == Init /\ [][Next]_vars

\* A thread that can run does, and a wait with a time limit ends. The child owes nothing.
FairSpec ==
    /\ Spec
    /\ \A c \in Calls :
        /\ WF_vars(CallStep(c)) /\ WF_vars(Writes(c))
        /\ WF_vars(Reads(c))

-----------------------------------------------------------------------------
(* Properties *)

\* The semaphore, the calls, their children, pipes and threads are well formed.
TypeOK ==
    /\ permits \in 0..MAX /\ leaked \in 0..MAX
    /\ call \in [Calls -> CallState]
    /\ child \in [Calls -> ChildState]
    /\ pipe \in [Calls -> PipeState]
    /\ thread \in [Calls -> ThreadState]

\* Every permit is in the semaphore, held by one call, or lost with its process: no early
\* return, time-out or failure takes one twice or gives one back twice (Permit::drop).
PermitsConserved ==
    permits + leaked + Cardinality({c \in Calls : call[c].permit}) = MAX

\* "Session-wide cap on concurrent ImageMagick child processes": the children of calls that
\* neither gave up on the gate nor were killed never outnumber it, and leaks only lower it.
SessionCap ==
    Cardinality({c \in Calls : Running(c) /\ Alive(c) /\ ~call[c].uncapped}) <= MAX - leaked

\* A call that has returned left no child running and no thread behind.
NothingLeftRunning ==
    \A c \in Calls : At(c, "idle") => ~Running(c) /\ thread[c].running = {}

\* "A partial file or an unavailable coder must never be reported as a successful convert",
\* and a failed encode leaves no file, not even one its child writes afterwards.
EncodeReportsTruly ==
    \A c \in Encodes : At(c, "idle") =>
        /\ call[c].result = "ok" => child[c].wrote = Chunks
        /\ call[c].result = "err" => child[c].wrote = 0

\* Every call ends, whatever the child does with its pipes and however many permits were
\* leaked: "a hostile/looping input can't hang ... our host".
EveryCallEnds == \A c \in Calls : ~At(c, "idle") ~> At(c, "idle") \/ At(c, "dead")
=============================================================================
