---------------------------- MODULE ConvertDialog ----------------------------
(* The Convert dialog of bin/app/convert.rs: the window procedure, the thread of *)
(* each run, and the pool that converts the files. LAST_OUTPUT, CONVERT_RUNNING  *)
(* and CONVERT_CANCEL are statics of the process, one of each for all runs.      *)
(* The message box is modal: its loop still dispatches what the runs post.       *)
EXTENDS ParallelMap, FiniteSets

CONSTANTS
    Some,  \* the closure returns an Option: Some stands for a file written,
    Skip   \* the other result for one that failed or was skipped

ASSUME OptionAssumption == Results = {Some, Skip} /\ Some # Skip
ASSUME NoneAssumption == None \notin {"x", "cancel", "answer"}

VARIABLES
    ui,             \* what the window's thread is in, see Screens
    gone_by,        \* history: what destroyed the window
    ok_enabled,     \* is the Convert button enabled?
    cancel_enabled, \* is the Cancel button enabled?
    running,        \* CONVERT_RUNNING
    cancel,         \* CONVERT_CANCEL
    last,           \* LAST_OUTPUT: the call and index of an output, or None
    run,            \* the place of the thread of each run
    posted,         \* the WM_CONVERT_DONE messages in the queue
    box,            \* what the message box says, or None
    converting,     \* the workers that are converting a file
    written         \* history: the files written, by call and index

buttons == <<ok_enabled, cancel_enabled>>
flags == <<running, cancel, last>>
window == <<ui, gone_by, buttons, box>>
files == <<converting, written>>
vars == <<poolVars, window, flags, run, posted, files>>

\* At its loop, inside the message box, blocked on LAST_OUTPUT, over: WM_DESTROY ends
\* the pump and so the process, and what the threads do until then reaches nobody.
Screens == {"open", "box", "stuck", "gone"}

Outputs == Calls \X Items
Started == {c \in Calls : run[c] # "off"}
OneRun == \A c, d \in Started : c = d

Init ==
    /\ PoolInit
    /\ ui = "open" /\ gone_by = None /\ box = None
    /\ ok_enabled \in BOOLEAN /\ cancel_enabled = TRUE
    /\ running = FALSE /\ cancel = FALSE /\ last = None
    /\ run = [c \in Calls |-> "off"]
    /\ posted = <<>>
    /\ converting = {} /\ written = {}

\* IDOK: the statics are reset and the thread of the run starts its pool
start_convert(c) ==
    /\ ui = "open" /\ ok_enabled
    /\ run[c] = "off"
    /\ ok_enabled' = FALSE
    /\ last' = None /\ cancel' = FALSE /\ running' = TRUE
    /\ run' = [run EXCEPT ![c] = "map"]
    /\ SpawnWorkers(c)
    /\ UNCHANGED <<ui, gone_by, cancel_enabled, box, posted, files>>

\* Another format or resize: update_ok_enabled looks at the selection, not at the run.
update_ok_enabled ==
    /\ ui = "open"
    /\ ok_enabled' \in BOOLEAN
    /\ UNCHANGED <<ui, gone_by, cancel_enabled, box, flags, poolVars, run, posted, files>>

Destroy(by) ==
    /\ ui' = "gone"
    /\ gone_by' = by

\* IDCANCEL while a batch runs
CancelRun ==
    /\ ui = "open" /\ cancel_enabled /\ running
    /\ cancel' = TRUE
    /\ cancel_enabled' = FALSE
    /\ UNCHANGED <<ui, gone_by, ok_enabled, box, running, last, poolVars, run, posted, files>>

\* IDCANCEL otherwise
CancelDialog ==
    /\ ui = "open" /\ cancel_enabled /\ ~running
    /\ Destroy("cancel")
    /\ UNCHANGED <<buttons, box, flags, poolVars, run, posted, files>>

\* WM_CLOSE: the X of the title bar
CloseWindow ==
    /\ ui = "open"
    /\ Destroy("x")
    /\ UNCHANGED <<buttons, box, flags, poolVars, run, posted, files>>

\* The closure of the pool: a cancelled run skips the file.
SkipFile(c, w) ==
    /\ cancel
    /\ <<c, w>> \notin converting
    /\ Computed(c, w, Skip)
    /\ UNCHANGED <<window, flags, run, posted, files>>

StartFile(c, w) ==
    /\ ~cancel
    /\ worker[c][w].pc = "f" /\ <<c, w>> \notin converting
    /\ converting' = converting \union {<<c, w>>}
    /\ UNCHANGED <<poolVars, window, flags, run, posted, written>>

\* The conversion has written its output, or failed.
FinishFile(c, w, r) ==
    /\ <<c, w>> \in converting
    /\ Computed(c, w, r)
    /\ converting' = converting \ {<<c, w>>}
    /\ written' = IF r = Some THEN written \union {<<c, worker[c][w].i>>} ELSE written
    /\ UNCHANGED <<window, flags, run, posted>>

TakeIndex(c, w) ==
    /\ Fetch(c, w) \/ Exhausted(c, w)
    /\ UNCHANGED <<window, flags, run, posted, files>>

MapReturns(c) ==
    /\ run[c] = "map"
    /\ Join(c)
    /\ run' = [run EXCEPT ![c] = "count"]
    /\ UNCHANGED <<window, flags, posted, files>>

Ok(c) == {k \in 1..N : answer[c][k] = Some}

\* mutant: the output that was written last in the list
first_output_last(c) == CHOOSE k \in Ok(c) : \A l \in Ok(c) : k >= l

first_output(c) == CHOOSE k \in Ok(c) : \A l \in Ok(c) : k <= l

\* LAST_OUTPUT is written if there is one; the box holds its lock while it is up.
RememberOutput(c) ==
    /\ run[c] = "count"
    /\ Ok(c) # {} => ui = "open"
    /\ last' = IF Ok(c) # {} THEN <<c, first_output(c) - 1>> ELSE last
    /\ run' = [run EXCEPT ![c] = "post"]
    /\ UNCHANGED <<window, running, cancel, poolVars, posted, files>>

\* mutant: nothing is said of a run that wrote nothing
PostDoneIfAny(c) ==
    /\ run[c] = "post"
    /\ run' = [run EXCEPT ![c] = "done"]
    /\ posted' = IF Ok(c) = {} THEN posted
                 ELSE Append(posted, [call |-> c, ok |-> Cardinality(Ok(c))])
    /\ UNCHANGED <<window, flags, poolVars, files>>

\* WM_CONVERT_DONE carries the count
PostDone(c) ==
    /\ run[c] = "post"
    /\ run' = [run EXCEPT ![c] = "done"]
    /\ posted' = Append(posted, [call |-> c, ok |-> Cardinality(Ok(c))])
    /\ UNCHANGED <<window, flags, poolVars, files>>

\* WM_CONVERT_DONE at the dialog's own loop: the guard of LAST_OUTPUT, a temporary of
\* the match, lives until the box is answered.
HandleDone ==
    /\ ui = "open" /\ posted # <<>>
    /\ running' = FALSE
    /\ LET m == Head(posted) IN
       box' = [call |-> m.call, ok |-> m.ok, reveal |-> IF m.ok > 0 THEN last ELSE None]
    /\ ui' = "box"
    /\ posted' = Tail(posted)
    /\ UNCHANGED <<gone_by, buttons, cancel, last, poolVars, run, files>>

\* WM_CONVERT_DONE of another run, dispatched by the box's loop, waits for the lock
\* its own thread holds.
HandleDoneInBox ==
    /\ ui = "box" /\ posted # <<>>
    /\ running' = FALSE
    /\ ui' = "stuck"
    /\ posted' = Tail(posted)
    /\ UNCHANGED <<gone_by, buttons, box, cancel, last, poolVars, run, files>>

AnswerBox ==
    /\ ui = "box"
    /\ Destroy("answer")
    /\ UNCHANGED <<buttons, box, flags, poolVars, run, posted, files>>

\* A step of a run's threads, as long as there is a process.
RunStep(c) ==
    /\ ui # "gone"
    /\ \/ \E w \in 1..W : TakeIndex(c, w) \/ SkipFile(c, w) \/ StartFile(c, w)
       \/ \E w \in 1..W, r \in Results : FinishFile(c, w, r)
       \/ MapReturns(c)
       \/ RememberOutput(c)
       \/ PostDone(c)

Next ==
    \/ \E c \in Calls : start_convert(c) \/ RunStep(c)
    \/ update_ok_enabled
    \/ CancelRun \/ CancelDialog \/ CloseWindow
    \/ HandleDone \/ HandleDoneInBox \/ AnswerBox

Spec == Init /\ [][Next]_vars

\* Threads that can run do, a conversion ends, and the window's thread handles what
\* is posted. The user owes nothing.
FairSpec ==
    /\ Spec
    /\ \A c \in Calls :
        /\ WF_vars(ui # "gone" /\ (MapReturns(c) \/ RememberOutput(c) \/ PostDone(c)))
        /\ \A w \in 1..W : WF_vars(ui # "gone" /\
                (\/ TakeIndex(c, w) \/ SkipFile(c, w) \/ StartFile(c, w)
                 \/ \E r \in Results : FinishFile(c, w, r)))
    /\ WF_vars(HandleDone \/ HandleDoneInBox)

-----------------------------------------------------------------------------
(* Properties *)

\* The state of the pools, the threads, the statics and the window is well formed.
TypeOK ==
    /\ PoolTypeOK
    /\ ui \in Screens /\ gone_by \in {None, "x", "cancel", "answer"}
    /\ buttons \in BOOLEAN \X BOOLEAN
    /\ running \in BOOLEAN /\ cancel \in BOOLEAN
    /\ last \in Outputs \union {None}
    /\ run \in [Calls -> {"off", "map", "count", "post", "done"}]
    /\ posted \in Seq([call : Calls, ok : 0..N])
    /\ box \in {None} \union [call : Calls, ok : 0..N, reveal : Outputs \union {None}]
    /\ converting \subseteq Calls \X (1..W)
    /\ written \subseteq Outputs

Indices(c) == {i \in Items : <<c, i>> \in written}

\* The box counts the files its run wrote, and offers the first of the selection that
\* was written (convert.rs:766), in whatever order the workers finished; a second run
\* in one dialog may change what is offered.
ReportsTruly ==
    box # None =>
        /\ box.ok = Cardinality(Indices(box.call))
        /\ OneRun => box.reveal =
            IF Indices(box.call) = {} THEN None
            ELSE <<box.call, CHOOSE i \in Indices(box.call) : \A j \in Indices(box.call) : i <= j>>

\* Of a single run, neither Cancel nor the end of the run closes the window, and with it
\* the process, over a file being converted (convert.rs:72, "in-flight files finish").
InFlightFinish ==
    OneRun /\ gone_by \in {"cancel", "answer"} => converting = {}

\* CONVERT_RUNNING is "set true while a batch is running" (convert.rs:68): as long as
\* the dialog is there and a run has not posted its end.
RunningWhileConverting ==
    ui \in {"open", "box"} /\ (\E c \in Calls : run[c] \in {"map", "count", "post"}) => running

\* A single run is reported in the box, cancelled or not and whatever failed, unless the
\* user closes the window first.
RunIsReported ==
    []OneRun => \A c \in Calls :
        run[c] = "map" ~> (gone_by = "x" \/ (box # None /\ box.call = c))
=============================================================================
