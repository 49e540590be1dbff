# SageThumbs 2K: a TLA+ model

This directory models the parts of SageThumbs 2K whose correctness depends on the order in
which things happen: threads started from Explorer callbacks, windows fed by several threads,
settings shared by several writers, files published by several processes, a registry shared
with other programs. Every module is a translation of the Rust sources; `PROJECT.json` maps
each definition to the lines it stands for. Paths below are relative to the repository's
`src/` crate directory.

## 1. The system

SageThumbs 2K is a Windows shell extension and its companion programs.

| part | sources | state it keeps | interacts with |
|---|---|---|---|
| The DLL's lifetime | `lib.rs`, `factory.rs` | `MODULE_REFS`, the class factories, lock counts | the shell (COM), every detached worker |
| Thumbnail provider | `thumbprovider.rs`, `streamsrc.rs`, `vstream.rs` | the host's stream and its cursor, one block cache with its budget and deadline per video | the host's `IStream`, Media Foundation, the decode cascade |
| Decode cascade | `decode.rs`, `decode/*`, `container/*` | budgets; four cross-process permits for ImageMagick; one child process per decode | WIC, ImageMagick, pdfium |
| Property store, menu preview, video grabs | `propstore.rs`, `contextmenu/thumb.rs`, `video.rs` | counters of live detached workers | the shell, the decode cascade |
| Context menu | `contextmenu*.rs`, `verbs/menu.rs`, `command.rs` | the selection, the id-to-verb map of one menu, the preview being decoded | the shell; the settings; the verbs |
| Verbs | `verbs/actions.rs`, `verbs/encode*`, `fsutil.rs` | reserved output names, temporary siblings | the file system; helper processes; the converter dialog |
| Folder verbs | `verbs/fileops.rs`, the renaming of `verbs/actions.rs` | the folders and names one run has taken | the file system, another run on the same selection |
| Lossless turn of a JPEG | `jpegtran.rs`, `transform_file` of `verbs/encode.rs` | none between calls | the pixel encoders it falls back to |
| Parallel map | `parallel.rs` | one cursor, one vector per worker | the batch verbs, the conversion dialog |
| Conversion dialog | `bin/app/convert.rs` | `CONVERT_RUNNING`, `CONVERT_CANCEL`, `LAST_OUTPUT`, two buttons | the parallel map; the verbs' encoders |
| Preview pane | `previewhandler.rs` | a render generation, the posted bitmap | the host's window |
| Quick Look window | `bin/app/preview/*` | the current file, content generations, a switch or a close put off | loader threads, a follower of Explorer's selection, the web view's message loop |
| Space hook | `screenshot/spacehook.rs` | the hook, its latch and its tick | the daemon, the viewer processes |
| Daemon | `screenshot/{daemon,enable}.rs` | a mutex, hotkeys, the tray icon, two timers | Explorer, the settings, autostart |
| Capture | `screenshot/overlay.rs`, `overlay/*`, `tools.rs`, `output.rs` | region, annotations, undo and redo, the text being typed | helper processes that take the picture |
| Settings dialog | `bin/app/settings_dlg/*` | the ticks of the formats, the rows of the menu list, a drag | the registry, the elevated `regsvr32`, the sync |
| Registration | `register.rs` | per extension: slots, property lists, perceived type, keys | the registry, other programs |
| Settings sync | `settings_dlg/sync.rs`, `sync_client.rs`, `oauth.rs`, `cred_store.rs` | the pending marker, `PUSH_WORKERS`, `SYNC_LOCK`, `STORE_CACHE`, the refresh token | the identity service, the app-data store, other devices |
| Network clients | `bin/app/{update,sponsors,feedback,http}.rs`, `screenshot/upload.rs` | small disk caches | their servers |
| Command line, MCP server | `cli.rs`, `mcp.rs` | the outputs of one batch | the verbs, the parallel map |

What is hard here, by part:

* **DLL lifetime.** Explorer unloads the DLL whenever `DllCanUnloadNow` says it may. Workers
  outlive the calls that start them, and four kinds of worker pin the DLL in different ways.
  Correct means: the count is exact, whatever still needs the DLL keeps it mapped, worker
  caps hold, and places in the caps come back.
* **Preview pane and Quick Look window.** Results arrive for a file that is no longer shown, on a
  window that is gone or is inside somebody else's message loop. Correct means: what is shown
  is of the file asked for, every load ends in something shown, nothing leaks, and every call
  and every process ends.
* **Context menus.** One menu is drawn from the settings of one moment and clicked at another;
  its ids are bare numbers in a range the host grants; a second menu says the same by
  other means. Correct means: a click runs its title, the preview is of the selection, and the
  two menus agree.
* **Thumbnail source.** A cascade of probes shares one cursor over a stream that fails, falls
  short or grows. Correct means: what is decoded as a file is the file, in order.
* **Space hook and viewer processes.** The system drops the hook in the middle of a key press;
  launches race for one mutex. Correct means: one press is one toggle, one window, and no
  process stays behind.
* **Daemon.** Hotkeys and the icon disappear without a word, and several writers start, stop and
  nudge the process. Correct means: what the settings want comes back.
* **Capture.** Keys arrive in the middle of drags. Correct means: annotations are kept in order,
  the grabbed one is the one that moves, and what is handed out is what is on the screen.
* **Settings dialog and registration.** Lists are rebuilt under the user's hands, an elevated
  process may fail half-way or late, slots are shared with other programs. Correct means: a
  Save stores what is shown, what is ours goes and what is not ours stays.
* **Settings sync.** A Save only *promises* the cloud copy: the upload runs on a thread, may
  lose its request or its reply, may conflict with another device, and the process may end.
  Correct means: the promise (the pending marker) survives until it is kept; a pull never
  overwrites a value that is still owed; nothing is written to an account that is signed out;
  a cached document is never taken for another account's; the one lock is always released.
* **Outputs of verbs.** Several verbs, processes and foreign programs race for names in one
  folder. Correct means: two conversions never publish to the same name, a foreign file is
  never replaced, and an abandoned slot leaves nothing.
* **Folder verbs and the batch.** The same verb may run twice over one selection; names are chosen
  before they are written, and fold their case. Correct means: no selected file is lost, and the
  report counts what happened.
* **Lossless turn.** A scan is read to its coefficients, rearranged and written again with other tables,
  and what is out of scope must be noticed. Correct means: the edited file shows what
  turning its pixels would show, after any number of turns.
* **ImageMagick.** Permits shared by processes that can be killed, a child that blocks on its
  pipes, a deadline. Correct means: permits are conserved, and every decode ends.
* **Parallel map and conversion dialog.** Workers take files from one cursor and finish in any
  order; the dialog's thread, the thread of a run and the workers share three statics. Correct
  means: each file is taken once, results come back in order, the report is true and always
  comes, and the process does not end over a file being written.

`PROJECT.json` lists the hazards at their lines and the properties that watch them.

## 2. Modules

| module | models | kind |
|---|---|---|
| `ModuleLifetime` | `lib.rs`, `factory.rs` and the workers of `verbs/actions.rs`, `contextmenu/thumb.rs`, `propstore.rs`, `video.rs` | state machine |
| `PreviewPane` | `previewhandler.rs` | state machine |
| `Menu` | `contextmenu.rs`, `contextmenu/{com,thumb}.rs`, `verbs/menu.rs`, `command.rs` | state machine |
| `ThumbSource` | `thumbprovider.rs`, `streamsrc.rs`, `streamsrc/*` | state machine |
| `FileStream` | what a stream over a file promises its reader | abstract specification |
| `BlockStream` | `vstream.rs` | state machine, implements `FileStream` |
| `WindowLife` | what the Quick Look window promises the processes around it | abstract specification |
| `Viewer` | `bin/app/preview/{window,loader,content}.rs`, `preview/window/*` | state machine, implements `WindowLife` |
| `QuickLook` | `screenshot/spacehook.rs`, `preview/mod.rs`, `preview/window/command.rs`, the daemon's part in them | state machine, built on `WindowLife` |
| `HotkeyDaemon` | `screenshot/daemon.rs`, `screenshot/enable.rs` | state machine |
| `CaptureEditor` | `screenshot/overlay.rs`, `overlay/*`, `tools.rs`, `output.rs` | state machine |
| `SettingsSync` | `sync_client.rs` with the dialog's `sync.rs` and Save, `cred_store.rs`, `oauth.rs` | state machine |
| `SettingsDialog` | the lists of `settings_dlg/mod.rs`, Save, Import and Repair of `values.rs` | state machine |
| `Registration` | `register.rs` | state machine |
| `Sifting` | the loops of `verbs/menu.rs` and `settings_dlg/list.rs` that copy some rows of a list | operator |
| `UniqueOutputs` | what the file-producing verbs promise about a folder | abstract specification |
| `OutputSlots` | `verbs/encode/slots.rs`, `fsutil.rs`, the routed verbs of `verbs/actions.rs`, `move_into`/`copy_into` of `verbs/fileops.rs` | state machine, implements `UniqueOutputs` |
| `FolderVerbs` | `verbs/fileops.rs` and the renaming of `verbs/actions.rs` | state machine |
| `Batch` | the batch of `cli.rs` | state machine |
| `BlockMap` | where `jpegtran.rs` puts a block, and what it does to its coefficients | operators |
| `LosslessTransform` | `jpegtran.rs` and `transform_file` of `verbs/encode.rs`, on top of `BlockMap` | state machine |
| `Magick` | `decode.rs` (`magick_gate`), `decode/magick.rs` | state machine |
| `InOrderMap` | what the parallel map promises | abstract specification |
| `ParallelMap` | `parallel.rs` | state machine, implements `InOrderMap` |
| `ConvertDialog` | `bin/app/convert.rs`, on top of `ParallelMap` | state machine |
| `MCShell` | `ModuleLifetime`, `PreviewPane`, `Menu`, `ThumbSource`, `BlockStream` in one instance | for TLC |
| `MCQuickLook` | `Viewer`, `QuickLook`, `HotkeyDaemon`, `CaptureEditor` in one instance | for TLC |
| `MCSettings` | `SettingsSync`, `SettingsDialog`, `Registration` in one instance | for TLC |
| `MCFiles` | `OutputSlots`, `FolderVerbs`, `Batch`, `LosslessTransform` in one instance | for TLC |
| `MCModuleLifetime`, `MCSettingsSync`, `MCViewer`, `MCOutputSlots`, `MCMagick`, `MCConvertDialog` | instances of one module each | for TLC |
| `Shell_proofs` | theorems about `ModuleLifetime`, `Menu`, `ThumbSource`, `BlockStream` | proofs |
| `PreviewPane_proofs` | theorems about `PreviewPane` | proofs |
| `Desktop_proofs` | theorems about `Viewer`, `QuickLook`, `CaptureEditor`, `HotkeyDaemon` | proofs |
| `Settings_proofs` | theorems about `SettingsSync`, `SettingsDialog`, `Registration` | proofs |
| `Files_proofs` | theorems about `FolderVerbs`, `Batch`, `BlockMap`, `LosslessTransform`, `Magick` | proofs |
| `OutputSlots_proofs` | theorems about `OutputSlots` | proofs |
| `ConvertDialog_proofs` | theorems about `ParallelMap`, `ConvertDialog` | proofs |
| `ListLemmas` | what flattening and sifting a list yields and how sums over finite sets change, for the proof modules | lemmas |

Four abstract specifications say what a component promises, and the detailed module is shown to
implement each: `FileStream`, `WindowLife`, `UniqueOutputs`, `InOrderMap`. `QuickLook` is not
built on the window itself but on `WindowLife`, so the window can be checked alone and the
processes without the window's inside.

### ModuleLifetime

State: `MODULE_REFS`, the loaded flag of the DLL (which only the host changes), the live
factories, objects and locks, and a set of workers, each with a kind and a place in its life
(reserved, spawned, pinned, finished). The actions are `DllGetClassObject`,
`CreateInstance`, `LockServer`, the drops, the reservation and spawn of each kind of worker
(a spawn may fail where the code handles it), the pin as the first statement of the new
thread, the unpin and the exit, and the host's unload. A worker's decode is one step: only
its beginning and its end touch the state.

The four kinds differ where the code differs. Menu previews and property probes reserve a
place in a cap before they are spawned; the caller waits for them only for a while
(`CallerReturns`), so the object that started a worker may be gone before the worker pins the
DLL. A verb's worker has no cap and its caller never waits.

### PreviewPane

State: the fields of the handler (`stream`, `bg`, `hwnd`, `ui_thread`, `pixels`), the frame
of `DoPreview` and of the call that is joining a thread, and for each window its thread, its
message queue, its `RenderData`, and what is on the screen. Actions are the host's calls, the
answers of the decode worker within its budget, late answers, and the window procedure's
messages. Payloads on the heap and DIB sections are counted. While `DoPreview` reads the
host's marshaled stream, the apartment lets other calls in, so
`SetWindow`, `SetBackgroundColor`, `Detach` and `Unload` are enabled there; an `Unload` then
borrows the stream a second time, which panics and ends the process (`aborted`). The host's
protocol is assumed: one `Initialize` per `Unload`, one `DoPreview` per `Initialize`. The
host may destroy the pane under the window at any time; a payload still queued for that
window is lost, and not counted any more.

### Menu

State: the settings, one classic object (`sel`, whether it is eligible, the preview being
decoded, the preview it holds, whether an id map exists), the menu on the screen with the settings
and the grant it was drawn from, and the last click. `MENU` is the tree of `verbs/menu.rs` with its leaves in
order; `order_top_level_with` places saved keys, appends what is missing, drops what is unknown
or repeated, and keeps separators where the code keeps them. `QueryContextMenu` draws the part of
the tree that fits the ids granted, where a leaf keeps the id of its place in the whole tree
whatever else is drawn (`build_menu_into`), and shows or prepares the preview; `InvokeCommand` receives a bare offset. The host may
initialise the same object for another selection, ask for the flyout, dismiss it, or click
later. `ModernTops` and `root_state` are the modern handler's view of the same selection and
settings; it has no ids, so it is a function of the state.

### ThumbSource, BlockStream, FileStream

`ThumbSource` follows one provider: `Initialize`, then `GetThumbnail` once or more, and in it one
probe after the other (`TryVideo`, `TryAudio`, `TryExr`, `TryArchive`, `TryHead`, `TryRaw`, the
choice, the drain) on one cursor (`place`). A probe claims the file, misses and leaves the stream as
the code leaves it, or fails; the first read of a probe that fails looks like a miss. The
stream may refuse `Stat`, answer short, fail, and the file may change its size between two
reads. The bytes are the numbers of their places, so that a gap, a repeat or a wrong start shows.

`BlockStream` is the `IStream` given to Media Foundation: whole blocks are read on demand and
kept, `blocks_read` is charged before the read, and no block is read after the deadline or past the
budget; a read answers what it has. `FileStream` is what the demuxer relies on, and
`ReadsLikeAFile` the refinement.

### Viewer and WindowLife

State: the window and whether `WM_QUIT` waits, the fields of `ViewerState` (`path`, `kind`, what
each slot holds and of which file and page, `gen`, `grace`, `shown`, `busy`, the switch or close put
off), the loader threads with the message each will post, the thread that follows
Explorer's selection, and the switches in the queue. A handler is one step, except `load` of a
file that needs a web view: creating it runs a message loop inside, so `RequestLoad` begins it and
`CreateWebEnds` ends it, and everything else may come between. Files have one of nine classes,
which choose the path through `load` (`Outcomes`). Every answer of a loader (`PictureLands`,
`AnimationLands`, `CountLands`, `RemoteLands`) compares the generation it was started for, as the code does, and
installs or drops its result.

`WindowLife` is what other processes see of it: whether there is a window, whether it is busy, in
its grace, or about to close. `KeepsWindowLife` is the refinement, with the liveness: a close put
off does happen, and a process whose window is gone ends.

### QuickLook

State: the hook and the state of the key, the latch with its tick (`latched`, `aged`), the messages in
the daemon's queue, what the daemon is sending and to whom, and where each viewer process is: it
starts, finds the mutex taken and forwards its command, takes it and resolves the file, or runs a
window (whose state is `WindowLife`'s). Windows may drop the hook at any moment; the daemon
installs it again with its timer. A process may be started by hand with a path, and may die.

### HotkeyDaemon

State: the settings the daemon depends on, the autostart entry, where each daemon process is
(its mutex, its window, its loop), its queue, what is registered (`armed`), the icon and the retry
timer, Explorer's taskbar, and a Save that has written and not reconciled yet. The actions are `reconcile`,
`heal_if_wanted`, the pull of the sync, the daemon's start in its steps, its messages
(reload, close, `TaskbarCreated`), its two timers, Explorer's end and start, and the system
dropping any registration.

### CaptureEditor

State: the overlay, the fields of `Shot` (region, tool, `shapes`, `redo`, the drag, the text being
typed, the selected annotation), and what becomes of the picture: on the disk, a helper's, or left.
Annotations are numbered, so that their order and identity can be compared. `Press`, `Move`,
`Release` and the keys are enabled whenever the code handles them, also in the middle of a drag, and a release may never come.

### SettingsSync

State: the registry's values (`local`), the controls of the open dialog, the pending marker, the
account signed in, `PUSH_WORKERS`, `SYNC_LOCK`, `STORE_CACHE`, one document with its version
for each account, and the threads of the process as records: what kind of job, where it is in
that job, the token, snapshot and base version it has read. The dialog's thread is the
actions of the user: open, edit, Save, the Sync button, OK/Cancel, close. The worker threads are
`connect`, `pull_on_open`, `push` and `disconnect`, cut at each network call; the retry loop
of `push_snapshot` keeps its three counters. `ProcessEnds` may happen anywhere.
A request may succeed, be refused, be throttled, conflict, be lost before the server or lose its reply
after it.

Two ghost variables record what no variable of the program does: that a Save is stored and not
marked yet (`unsent`), and that a marked Save is still owed to the cloud (`owed`).

The constant `Patient` restricts the *user*, not the program: a patient user saves only while
no sync thread is alive. Every property that needs it says so.

### SettingsDialog

State: what HKCU holds (`saved`: flags, menu order, shown items), what HKCR has hooked, the dialog
(`page`: the model of the ticks, the rows a search shows with their check boxes, the menu rows, a drag),
what its thread is in the middle of, and the elevated `regsvr32`. `populate_list` deletes and
inserts all rows for every key in the search box, and the notifications of the list feed the
model; `normalize_rows` and `menu_rows_from_tokens` are folds over the rows. A Save stores the
menu, then the flags, then runs `regsvr32` elevated and waits for it. `regsvr32` visits the formats one by one
(`Visit`), each by its flag as it is then, in the registry of the account that answered the prompt; a key that refuses stops its own
format only (`Registers`). It may be declined, fail before, between or after the formats, time out and go on working
afterwards (`LateRegisters`), beside a later one; another program may take a format over at any time (`TakenOver`). A Save
that fails puts the flags back (`RolledBack`). A history variable, `unsure`, names the formats of which nothing can be said when
`regsvr32` succeeds: those that refused or were taken over since it started, or all of them if another account answered or one that was
given up was still at work. A pull may store another order while the dialog is open, and the process may end.

### Registration

State: the formats of the installed build, the flags, and per extension what the registry holds:
the thumbnail and preview slots at both of its places, the property handler and its lists,
the perceived type and the mark beside it, and whether the keys above them exist and hold other
values. Each helper of `register.rs` is an operator on the keys of one extension
(`hook_ext`, `unhook_ext`, `prune_empty_parents` and so on), and `register` and `unregister`
apply them in the code's order. Other programs take and give up slots in between; an update may
drop a format, which registering then sweeps.

### OutputSlots and UniqueOutputs

State: the folder (`dir`, one file or none for each name: who made it, and whether it is a
placeholder, empty, half-written or whole), the temporaries beside the names (`tmp`), and a
record for each job: the verb, the place in it, the process that takes the next step, the
candidate in hand, the output path, the slot of the current frame (`slot`) and the slot a
host keeps while its helper runs (`outer`). The verbs differ as in the code: an in-process
conversion reserves and encodes; a routed one reserves in the host and encodes in `st2k`; a
routed rotate only *predicts* in the host and reserves in `st2k`; a move or copy lands an
existing file on its placeholder and releases the slot. A helper that cannot start sends
the job back to `reserve` while the first slot is still held. `OutSlot::drop` is two
steps (look at the length, remove), as is the write (`WriteTmp`, `EncodeEnds`) before the rename.
Hosts and helpers may be killed at any step; a helper survives its host. Other programs create
and delete files.

A folder may refuse a job's files (`barred`); `reserve` then hands out the name unreserved, and
the write is refused too. Other programs leave alone the files a running job is using.

`UniqueOutputs` sees only files that are somebody's: each job publishes at most one,
under a name nobody was using. `Promised!Spec` is checked as a property of `OutputSlots` and
proved.

### FolderVerbs

State: the files and folders there are, and for each run its verb, the file it is at, what it has
read of all of them, the folder and name it wants, the slot it holds, and its counts. A run reads the dimensions or
tags of all its files first, as the code does, and then takes one file after the other:
make the folder, reserve a name in it, land the file on the slot, or give the slot up. "Files to
folder" looks for a new folder name and creates it in two steps, so two runs may agree on one. A
source may have been moved away by the other run; other programs save files under any name.

### Batch

State: the command, the outputs chosen, how far each file is, the disk under case-folded
names, the temporary siblings, and the report. `Choose` is serial and compares a name with the disk
and with the names already chosen; the files are then written in any order, each
through its temporary and a rename, or straight into the output, as the format does it.

### BlockMap and LosslessTransform

`BlockMap` has the arithmetic: the place a block goes to under each turn (`turn_blocks`), and the
swaps and signs inside it (`xform_block`), for blocks of any size. `LosslessTransform` has the code around it:
the segments of the header, what puts a file out of scope, the Huffman tables, the scan with its
stuffing and restart markers, the edges that are not whole MCUs, and the segments written out. `transform_file`
is the one action: read, turn, write, or decode to pixels and encode anew. `wanted` follows
the picture the user should see through any number of turns.

### Magick

State: the count of the named semaphore, the permits that died with their process (a history
variable), and for each call its place, the child process, the child's ends of its two pipes
and the two threads that feed and drain them. A decode returns when its reader has answered
and kills the child; an encode polls the child's exit under one deadline, kills it
if it is late or cannot be asked, and judges the file by the child's status. The child
may stop reading, close a pipe early, write a part, hang, or end. It reports success
only for a whole output: that is what the code asks of it (`clean_exit`). Going on without a
permit stands both for a wait that timed out and for a semaphore that could not be created.
The drain of stderr ends with the child and is left out.

### ParallelMap, InOrderMap and ConvertDialog

`ParallelMap` is the pool of one or several calls of `map_indexed`: the cursor, and for each
worker its place, the index in hand and its local vector. `Fetch` and `Exhausted` are the two
outcomes of the one `fetch_add`; `Join` concatenates the locals and sorts them by index, as the
code does (`ByIndex`, the one arrangement of the pairs that a stable sort by index gives). `InOrderMap` says what callers may rely on; `MapsInOrder` is the refinement.

`ConvertDialog` EXTENDS it. The closure of the pool is cut in two: the look at `CONVERT_CANCEL`
(`SkipFile`, `StartFile`) and the end of the conversion (`FinishFile`). The thread of a run
joins its pool, writes `LAST_OUTPUT` and posts `WM_CONVERT_DONE`, in that order. The window's
thread is in its own loop or inside the message box, whose loop dispatches
messages too. The guard of `LAST_OUTPUT` is a temporary of the `match` that shows the box, so it is
held until the user answers: a second run waits for it, and a second `WM_CONVERT_DONE`
handled inside the box blocks its own thread (`stuck`). Destroying the window ends the
process, and with it every worker. Two runs can overlap because a change of the format enables the
Convert button whether or not a run is going on.

### Instances that hold several modules

`MCShell`, `MCQuickLook`, `MCSettings` and `MCFiles` put components that share no state into one instance. A
behaviour chooses one part at its start and runs only that; the others rest at one initial
state. TLC so explores the union of the parts, never a product, and the fairness of a part
is vacuous in the behaviours in which it rests, because none of its steps is enabled there. In
`MCSettings` the dialog's lists are two parts (`formats` and `menu`): while one list is used, the other
rests.

## 3. What is checked

Run a configuration with `tlc -workers 2 -config <cfg> <module>`; `PROJECT.json` names both.

| run | question | result |
|---|---|---|
| `shell` | Inside Explorer and its hosts: does what needs the DLL keep it loaded, and do worker places come back; does the pane ever keep a bitmap or a window too long, show another file's picture, or hold a call; does a menu's click run its title, is its preview of the selection, do the two menus agree; is what is decoded as a file the file? | holds |
| `lifetime_unpinned_action` | Does a verb's worker keep the DLL from the moment it is started? (`verbs/actions.rs:550`) | violated |
| `quicklook` | Does the window show its file and every load end in something shown; is there one viewer, one toggle for a press, and no process left behind; do hotkeys and icon come back; does the capture keep its annotations and hand out what is on the screen? | holds |
| `quicklook_last_switch` | Does the last switch win while a web view is created, as `preview/window.rs:299` says? | violated |
| `settings` | Can a Save be forgotten or overwritten, a retry hold `SYNC_LOCK` for ever, a signed-out account be written, a cached document be another's; do the ticks survive searching and the menu list read back as it was stored, and does a Save store what is shown; does the uninstaller take out all that is ours and nothing else? | holds |
| `sync_marker_lost` | Is every Save retried until it succeeds, as `settings_dlg/sync.rs:158` says? | violated |
| `perceived_type` | Is a perceived type that another program set later left alone, as `register.rs:211` says? | violated |
| `files` | Is `UniqueOutputs` implemented, is anything half-written left over, does a verb report what it wrote; is a selected file ever lost, are the counts of a folder verb and the report of a batch true; does a turned JPEG show what its turned pixels would? | holds |
| `slots_predicted` | Is a predicted name the right one, as `verbs/actions.rs:240` says? | violated |
| `magick` | Does every call end, when processes die, children hang and pipes fill? | holds |
| `dialog` | Are the results in the order of the files, is the report true, and is a single run always reported? | holds |
| `dialog_second_run` | Is `CONVERT_RUNNING` set while a batch runs, as `convert.rs:68` says? | violated |

The violations are described under "findings" in `PROJECT.json`. In short:

1. The verb worker's `ModuleRef` is created *inside* the new thread, after `spawn` has
   returned; the host may unload the DLL in between.
2. `pull_on_open` clears the marker for whatever it has just pushed, also when a newer Save
   has set the marker since.
3. Two selected files with one stem whose extensions are both edited into `png` predict the
   same output for their rotations; one of them reports the other's file.
4. Changing the format or the resize during a run enables the Convert button, and a second run can
   start. The end of the first clears `CONVERT_RUNNING` and closes the dialog, and the
   process, over the second.
5. While a web view is created for A, a switch to B is put off. A switch back to A is compared
   with A and dropped, so the window ends on B while A is selected.
6. The mark beside a perceived type stays when another program overwrites the value, and
   uninstalling then removes the other program's value.

### Modelled, and not as the comments say

The model has these behaviours. Since they contradict comments of the repository no property claims the opposite, and
they have no run of their own.

* `values.rs:393-396` takes the flags of a Save that failed back to keep them "consistent with the (unchanged) hooks", and
  `values.rs:416-417` says of any outcome but `Ok` that "the HKCR hooks do NOT match the flags we just wrote". Both fail for
  a `regsvr32` that has visited formats before it fails, or that outlives the 60 seconds:
  `StoreMenu`, `StoreFlags`, `Launch`, `Registers` for the formats, then `Exits` as failed (after the formats, at the context menu's
  class) or no exit at all, and `ReturnsOtherwise`. The hooks are those of the flags just written, and `RolledBack` puts the others
  back. A `regsvr32` that was given up may also go on and hook more (`LateRegisters`).
* `values.rs:602-603` says that the run "reads the per-extension flags we just wrote, so this brings the HKCR `shellex` keys in line".
  `register` drops the result of each `hook_ext` (`register.rs:91-97`), so a key that refuses leaves its format as it was, and
  regsvr32 and `reregister_elevated` report success (`Registers`, its second disjunct). And where a prompt is answered
  by another account, the flags are read from that account's HKCU (`register.rs:73-77`; `Launch`, "another").
* Import does not look at the outcome of `reregister_elevated` (`values.rs:498`), whose flags and hooks may then differ until the next
  run that succeeds.

### Seen while modelling, without a run of their own

They concern code that the modules abstract or cases that a stated assumption or an instance leaves out (a comment that
they contradict is quoted), or nothing in the repository speaks of them.

* A custom-action hotkey is synced and `ScreenshotEnabled` is not (`sync_client.rs:91`).
* The modern menu's quick verbs do not look at the visibility of the single items (`command.rs:434`).
* An `Unload` that comes while `DoPreview` reads the marshaled stream borrows it a second time and
  ends the process (`previewhandler.rs:242`; the state `aborted` of `PreviewPane`).
* Preview workers that outlive their budget are not limited in number (`previewhandler.rs:738`).
* A rotated refresh token is lost if the process ends before it is stored (`sync_client.rs:451`).
* The quality of AVIF and JPEG XL is read when each file starts, the other settings once
  (`convert.rs:729`).
* Import reads the lists anew but not the combo boxes, so that the next Save writes their old values back;
  and it shows all formats again while the search text stays.
* The sweep of `REMOVED_EXTENSIONS` prunes before `unhook_ext_propstore`, in the opposite order of
  `unregister`, and can leave an empty key behind.

* The lossless path keeps an EXIF orientation verbatim, so a flip or quarter turn of a tagged photo is
  seen in another direction than the pixel path, which applies the tag first (`jpegtran.rs:13`,
  `docs/FEATURES.md:156-160`). `PlainAsTurned` therefore speaks of files without such a tag, or with a half turn.
* A scan of one component whose sampling factors are not one is in raster order, and `jpegtran.rs` reads it
  in MCU order.
* Two inputs of a batch with `--out` whose names differ in case only choose one output
  (`cli.rs:413`, "never races on a name"); a file another program creates between the choice and the write is replaced; a
  thumbnail whose encoder fails half-way leaves its half.
* Two runs of "Files to folder" may share one folder, because `exists` and `create_dir_all` are two calls (`fileops.rs:204-212`,
  "never silently merge"). If one then removes the folder it made, the other's slot
  is gone, and what another program saves there meanwhile can be replaced (`fileops.rs:121-125`).
* Renaming a file already called "x (2)" to "x" makes "x (3)", and again each time. Moving tagged files into the
  folder they are in counts them as done.
* An upload configuration that cannot be read falls through to the built-in servers; a capture is deleted
  before it is uploaded; the text of a feedback is lost if the dialog is closed while it sends (`feedback.rs:16`).
* The orientation of RAW files whose header is not TIFF (RAF, ORF, RW2, CR3) is never applied (`decode.rs:13`), and a PSD
  whose composite fails without a baked preview is given to ImageMagick twice (`decode.rs:396`).

### Bounds, and why they are enough

* `ModuleLifetime`: one factory, two objects, one lock and three workers; caps of the source where
  they are that small. A fault of the count needs two holders of different
  kinds and one release in a wrong place; three workers overfill a cap of two.
* `PreviewPane`: three files, one of which cannot be painted, two window handles, three posted
  payloads and two decodes at a time: a late decode, a newer one, and one more after it.
* `Menu`: four files of the four classes and the five selections that take different paths; no saved
  order, a short one, and one with unknown, repeated and misplaced tokens; grants of one id less than
  the tree and its preview need, exactly enough, and far fewer; one change of the settings, two selections
  for one object. The tree is the program's own.
* `ThumbSource`: all ten kinds of head, files of up to five bytes where four may be read whole and
  two are a RAW prefix, and one failing read: every limit has sizes below, at and above it.
* `BlockStream`: five bytes in blocks of two (a short last block), a budget of two blocks, requests within,
  across and beyond them, positions up to two past the end.
* `Viewer`: five files, one of each class that has threads or a web view of its own, of which Explorer's
  selection visits two; two loads or page turns (`MaxGen`), one switch that waits in the queue (`MaxLag`), one animation
  whose bitmaps cannot be made (`MaxShort`): one late answer and one newer load. The
  `quicklook_last_switch` run needs three loads.
* `QuickLook`: two processes, one of which loses each race, and one message of the hook waiting
  (`MaxPosts`); a second one is posted when the first is taken.
* `HotkeyDaemon`: two daemons, the one that runs and the one that comes too early or takes over, and
  one waiting message (`MaxQueue`).
* `CaptureEditor`: two places, which may hold several annotations each, and three annotations: a
  middle one can be grabbed, deleted, undone.
* `SettingsSync`: one key with two values, two sync threads (the most that can matter, since they
  take turns under one lock and a third only waits), cloud versions up to 2, and
  retry limits of two conflicts and one transient error (the source has three and two, which
  `sync_marker_lost` uses): each counter is used, exceeded, and mixed with the others. Two
  accounts; names of threads and of accounts are taken in one order. Only the first thread is throttled. While the second account is
  in use one thread runs at a time, no conflict or throttling is retried and each account is written once;
  the theorems cover what is left out there. `settings` has a patient user, `sync_marker_lost` any.
* `SettingsDialog`: two formats, of which a search finds one or both; three menu items with
  dividers, and orders that are short or hold repeated, unknown and misplaced tokens; one import or
  pull. Any number of `regsvr32` may be given up; they are one set of visits. Where the menu list is explored only one item's
  tick changes and the hooks stay as they are.
* `Registration`: one extension (each is treated by itself) and three steps of other programs: take,
  give up, and take again.
* `FolderVerbs`: two runs on two files of one size, of which one already has the name both ask for;
  one file saved by another program.
* `Batch`: five commands of two or three files: one stem in two folders, a name an output would take, a file
  listed twice, a number in the stem; one file created by another program.
* `LosslessTransform`: blocks of 2 x 2 coefficients in bytes of four bits, runs of one zero; gray, full, and the
  three kinds of halved chroma, sizes within and beyond whole MCUs, restart intervals
  with and without fill bytes, tables of the cameras' own with a category the standard ones lack, a
  progressive frame, a scan that lacks a component, an orientation. Any number of turns of a picture.
* `OutputSlots`: two jobs (a clash is a matter of two) on one stem, so that every name is contended; one file made by another program and
  one deletion; candidates up to 3, one more than two jobs and a foreign file can use up. A
  job whose candidates run out stops, so deadlock is not checked.
* `Magick`: one decode and one encode on one permit, outputs of two chunks, so that there is a
  partial output and one call waits while the other holds the gate. A killed process
  stays dead, so deadlock is not checked.
* `ConvertDialog`: two runs, two files, two workers each: enough for results out of order, a cursor
  past the end, a first output that is not the first written, and one run ending in the
  middle of another. A dialog that is closed or blocked stops, so deadlock is not checked.

In `shell`, `settings` and `files` deadlock is not checked either: a part in them stops when its host has let everything
go, or its bound is reached.

### Fairness

`ModuleLifetime` assumes that a thread that can run does, and that a decode ends (each runs under
a budget). The host owes nothing.
`PreviewPane` assumes that the window thread handles its messages, that a budgeted decode ends,
and that the read of the stream in `DoPreview` ends; the last is strong fairness, because a
nested call suspends the read while it lasts.
`Viewer` assumes that the creation of a web view ends (in success, in failure or at its time limit), that
loader threads answer and their messages are handled, and that its timers fire; its user, Explorer and other
processes owe nothing. `WindowLife` asks the same of the end of the nested loop and of the process. `QuickLook`
assumes that the daemon handles its messages and that a viewer process that has started goes on.
`HotkeyDaemon` assumes that the daemon handles its messages, that its timers fire, that a daemon
that starts goes on, and that Explorer does not refuse the icon for ever (a retry that succeeds in the end).
`SettingsSync` assumes that a sync thread that can run does, and that a request ends in a reply, an
error or the 20-second time-out of `http.rs`. The user, the other devices and the
server's kind of answer owe nothing; in particular a conflict may recur for ever, and it is
the code's counter that ends the loop.
`Magick` assumes that a call's thread and its two helpers run when they can and that waits with a time limit end. The child
owes nothing. `ConvertDialog` assumes that threads run, that a conversion ends, and that the
window's thread handles what is posted when it is in a loop; the user need neither answer the
box nor press anything.
The menus, the thumbnail source, the capture, the settings dialog, the registration and everything in
`files` have safety properties only, and no fairness.

A safety property that a theorem states for every value of the constants is checked by a run as well
where the run's time allows. Those that are proved and not run again are
named in section 4. Every property a run checks has a mutation of a modelled definition in `PROJECT.json`
that breaks it. The type invariants are conjuncts of the proved invariants where a theorem covers the
module; elsewhere each module states its own (`WindowTypeOK`, `HotTypeOK`, `FolderTypeOK`, `BatchTypeOK`,
`TurnTypeOK`, ...), for the reader and for a run by hand.


## 4. What is proved

Each theorem holds for every value of the constants that the module's named assumptions allow:
any number of files, windows, workers, accounts, jobs, candidates, blocks. Most
have one form. An inductive invariant is stated as a conjunction of named parts; one lemma
per action says that the action keeps it, one says that it holds at the start, and the property
follows from it. The paragraphs below say what each invariant adds to the property it is for, that
is, why the property is not inductive by itself.

### Inside Explorer and its hosts

* **`ModuleLifetime`** (`Shell_proofs`): `HeldStaysLoaded`, `RefsCountTheLiving`, `WorkersWithinCap`.
  `MODULE_REFS` is the sum of four cardinalities; each step changes one set by one element and the count
  by one. So the DLL is unloadable only when all four sets are empty.
* **`PreviewPane`** (`PreviewPane_proofs`): `PaneIsCurrent`, `NeverAnotherFile`, `NothingLeaks`, and the
  types. `PaneInv` says that there is one window at a time and who owns it (the handler, the call that
  is joining its thread, or `ensure_window`); that the message that closes it is in the queue
  only of a window being joined, and last there; that every picture in the handler, in a queue or on the screen is of the
  stream that was current when it was made, which is still current as long as the window lives; that the
  last picture queued, or the one shown if none is, is the wanted one; and that payloads and
  bitmaps are counted by the queues and windows they are in.
* **`Menu`** (`Shell_proofs`): `PreviewIsTheSelection` and `ClickRunsItsTitle`. `MenuInv` says that job, preview and caption are
  of the one selected file, and that a flyout has either built nothing yet or keeps the preview when it is drawn
  again; the cases that need it are `Initialize` in the middle of a decode and a second `QueryContextMenu`. `ClickInv` says that
  each item on the screen bears the id of its place in `MENU` (`TreeIds`: what flattening puts at `StartOf[i] + n` is the n-th verb of
  item `i`, from `ListLemmas`), that ids lie in what was claimed and granted, and that a preview on the screen
  has the one id behind them. The saved order, the settings and what changes in them are arbitrary. `MenusAgree` says that both menus
  offer the same items: whatever tokens are stored, `order_top_level_with` offers every item of the tree once (`ItemsOnce`, since
  of a repeated token only the first stays and what no token names is appended), so a list built from it in either order
  has the same keys, for images as for the menu of audio files.
* **`ThumbSource`** (`Shell_proofs`): `WholeFileInOrder`. `ThumbInv` says that the bytes taken so far are
  the first ones of the file (`Span(0, Len(out))`), that the cursor stands behind them while draining, that
  nothing is taken while probes run, and which results a stage may hold.
* **`BlockStream`** (`Shell_proofs`): it implements `FileStream` (`ReadsLikeAFile`), and
  `CacheWithinBudget`. `BlockInv` says that a cached block is the whole block of the source at its
  number, and that blocks are counted within the budget. The rest is division: which block a position is in, and
  that the pieces of a read join without a gap.

### The programs on the desktop

* **`Viewer`** (`Desktop_proofs`): `ShowsItsFile`, and that a step of the window is a step of `WindowLife`
  or changes nothing in it (the safety half of `KeepsWindowLife`). In `WindowInv` at most one
  thread's answer is due, for the file and page the window is about, and none while a web
  view is made; every other answer carries an older generation; a decode that is due finds no
  render yet; a remote picture may only be awaited for a markdown file.
* **`QuickLook`** (`Desktop_proofs`): `OneViewer` and `OnePressOneToggle`. Of the processes at most one is between
  taking the mutex and losing it, and there is a window exactly when one runs. For the latch: at most one
  toggle was asked for since the key went down, and if one was, the latch is set, also over a
  dropped and reinstalled hook.
* **`CaptureEditor`** (`Desktop_proofs`): `KeepsItsMarks` and `HandsOver`. Annotations rise, redo falls,
  every annotation is older than what is in redo; the selected one is the grabbed one; text is typed only
  on a region; no two drags are going on; a picture of our own exists only while a helper is being started.

* **`HotkeyDaemon`** (`Desktop_proofs`): `OneDaemon`, for any number of processes that autostart, a Save, the heal and a
  kill leave behind: one has a window, and nothing is registered and no icon shown without one. `DaemonInv` says that one
  process at most is between taking the mutex and its end, so what a daemon that ends or is killed clears is the last there is.

### Settings

* **`SettingsSync`** (`Settings_proofs`): `WritesOnlyWhileSignedIn` for every user, `MarkerCoversOwed` and
  `PullSparesOwed` for a patient one, and `PullReadsTheAccount`. `SessionInv` says that at most one thread is inside
  `sync_guard`, that its token is the one of the account signed in, and what each place of a job
  implies for its fields. `PatientInv` adds that a thread's snapshot is what the registry holds and that
  the marker is set while anything is owed: that a push may clear the marker depends on its snapshot being
  current, which depends on nobody saving while it runs. `CacheInv` says that what is cached is
  a version of the document of the account signed in, and the newest one if the versions agree. It fails in one
  place, between the deletion of the document and `clear_cache`; there `SYNC_LOCK` keeps every reader out.
* **`SettingsDialog`** (`Settings_proofs`): `TicksAreTrue`, `SaveStoresWhatIsShown` and `MenuListReadsBack`. `TicksInv`: the model is
  what the user meant, and the check boxes are the model on the rows shown. Between the deletion of
  the rows and their insertion the boxes say less, and the property holds because the notifications of
  rows being inserted repeat the model. `FlagsInv`: while a Save waits for `regsvr32`, the stored flags are what the
  dialog shows and `old` is what it replaced. `HooksInv`: while `regsvr32` is at work, of each format that is not `unsure`
  no earlier one is left, and either its visit is still to come or its hook is what the flag asks for; when it succeeds no visit is left.
  `RowsInv`, for the menu list: its rows are whole (`WholeRows`: every item once, no tick on a divider, dividers only between
  items), and what is stored is a list of tokens of any kind. `menu_rows_from_tokens` makes whole rows of every such list
  (`TokensWhole`), a drag is a permutation and its inverse (`MovedWhole`), and of whole rows `normalize_rows` and a read of the stored tokens
  change nothing (`ReadsBack`).
* **`Registration`** (`Settings_proofs`): `UninstallLeavesNothing` and `ForeignKept`. Two properties of the keys
  of one extension are kept by every helper of `register.rs`: `Rooted` (a value has the keys above it) and `NoneHeldUp`
  (no key is held up by a value of ours that `unregister` does not know). What `unregister` leaves is computed
  from them, helper by helper, in the code's order; of a foreign value it is shown that no helper touches it.

### Files

* **`OutputSlots`** (`OutputSlots_proofs`): `NoTwoWriters`, `PublishedWhole`, the refinement of `UniqueOutputs`
  (`Promise`), `NoLitter` and `ReportsItsOutput`. `IInv` is a statement per job: `Shape` (what each place implies for
  the job's fields) and `Holds` (every name in its slots or being written bears a file it made, in the state
  that place requires). A step of one job touches only its own files or free names
  (`OnlyOwn`), so it keeps the invariant of every other job (`KeepOthers`). `Holds` is what makes a rename a
  `Publish`: the name under it still bears the placeholder. `Ends` says the converse: each placeholder is in the slot of
  the job that made it, each temporary is in the hands of its encoder, what a job has told, written
  and holds agree, and a host is dead only if something was killed.
* **`FolderVerbs`** (`Files_proofs`): `NothingLost` and `CountsTrue`. `NothingLost` holds for any number of runs, selections, sizes and names and any number of
  files saved in between, from `SelectionAssumption` (the selection is a list of distinct names) and `NamesApart`: the
  folders the verbs make lie below the home folder, the new folder is not named as a size or as tags, and no file asks
  for the name of another selected file. The instance of the run is without the last: both of its files ask for
  the name that one of them has, and with two runs nothing is lost there either. `FolderInv` says that the folder a run aims at stands
  (`Standing`), that a slot bears its run's placeholder until the file is there (`Holding`), that the places of the selection hold only the
  selected files or another program's (`AtSources`, as no slot is ever such a place), and, for runs that share a new folder which one of them
  takes away, that a file keeps its name in every folder (`NamesKept`), so what lands on an unheld name is the same file.
  `CountInv` makes `CountsTrue` inductive: nothing has landed before a run's first file, every placeholder is held by the run that made it
  (`HeldBySlots`), the selected files that are gone are as many as the moving runs together say they landed (`GoneCounted`, a sum over
  the runs), and a run that copies counts no more than the copies of its files that are there (`CopiesThere`).
* **`Batch`** (`Files_proofs`): `SaysWhatItMade`, for any commands, folders and number of foreign files, from
  `BatchAssumption` (the files and each name are lists) and `AllApart`: no two stems of a command differ only in
  case. The second is a hypothesis because the code does not look at case (section 3). `BatchInv` says that the outputs chosen are
  places of their own (`Chosen`), that nothing is written before all are chosen (`Waiting`), and that a whole output is at its place
  exactly when its file is done (`MadeIsDone`). `Choose` finds a name at all because the files on the disk and the outputs chosen are fewer
  than the candidates it tries (`SomeFree`, a pigeonhole argument), and the count of the report is the number of
  files by the bijection that takes a file that is done to its output.
* **`BlockMap`** (`Files_proofs`), for blocks and grids of any size: `EveryBlockHasOnePlace`, `TurnsBack`,
  `EachWaveTurns` (swapping and negating coefficients turns each cosine wave, given what `WaveAssumption` says
  of mirrored waves), `TwoQuartersAreAHalf`.
* **`LosslessTransform`** (`Files_proofs`): `PlainAsTurned`, for pictures, blocks, sampling, quantizers, segments and
  tables of any size and value (`TurnedAsPixelsAre`). What a decoder shows at a place is a sum over the cells of a block; turning the
  block and its quantizer turns each wave, and only the order of the sum changes (`SumRenamed`, `BlockTurns`). The last quantizer of a
  component is transposed with the others (`QuantizerTurns`), mirroring an axis mirrors the block and the place in it,
  also where a component is sampled more coarsely (`AxisMirrors`, `PlacesTurn`), and reading the new
  segments gives the turned header and the kept ones (`HeaderWritten`, by the recursion of the fold). `TurnInv` makes it inductive: the
  file is one that can be turned again (`Sound`), and what it shows is what was asked for, a pixel
  fallback included. Its hypotheses are on what the code does not look at: the sources have no tag that does not commute
  with a turn (section 3), and a source that can be read has a quantizer for each component, distinct component numbers, and
  factors that divide the largest. One hypothesis is about the model's own operators,
  `[]CodesKeepBlocks(edited)`: the scan of a turned file is read back to the blocks that were to be
  written. That is the part of the property that is left to TLC, below. The waves are any whole numbers with the symmetry
  of cosines (`WaveAssumption`), so sums are exact, and the zig-zag order names each cell once (`ZigzagAssumption`).
* **`Magick`** (`Files_proofs`): `PermitsConserved`, `SessionCap`, `NothingLeftRunning`, `EncodeReportsTruly`, for any finite
  set of calls, any gate and any length of output. Conservation is a cardinality that a step changes by one; `Good`
  says for each place of a call what it implies for its permit, child, threads and file, and turns a running child into a
  permit held, so that conservation gives the cap.
* **`ParallelMap`, `ConvertDialog`** (`ConvertDialog_proofs`), for any runs, files and workers: `EachOnce`,
  `MapsInOrder` (the pool, and the dialog with it, implement `InOrderMap`), `ReportsTruly`, `InFlightFinish`.
  `EachOnce` is inductive with the types: the index a worker takes is the cursor, and what is held is below it.
  `MapsInOrder` adds what joining does: the lists of the workers together are the pairs of all indices (flattening
  is reasoned about by the least length at which a statement fails), and sorted by index they are the values in order (a rising sequence of
  `1..N` of length N counts). `ReportInv` says that a file is written exactly if its value is
  `Some`, that a run's answers are those values in order, and that the message and the box
  carry the counts of that run. `InFlightFinish` needs `RunInv`: a worker works only while its run maps, a run in the queue
  or in the box is over, and `CONVERT_RUNNING` is true of a single run.

### Proved, and not checked again by a run

`RefsCountTheLiving`, `WorkersWithinCap`, `NoTwoWriters`, `PublishedWhole`, `PermitsConserved`, `SessionCap`,
`NothingLeftRunning`, `EncodeReportsTruly`, `EachOnce`, `InFlightFinish`, `PullSparesOwed`, `WritesOnlyWhileSignedIn`,
`CacheWithinBudget`, `OneDaemon`. They hold for the instance as for any other, and the time of the runs goes
to what is not proved.

### Only model-checked

* Liveness: `EveryCallEnds`, `RunIsReported`, `EveryLoadIsShown`, `NoneLingers`, `HotkeysComeBack`, `IconComesBack`, `PlaceComesBack`,
  `CallReturns`, `LockIsReleased`, and the liveness in `KeepsWindowLife`. TLAPS does not reason about
  fairness (`ENABLED`).
* That the codes give back the blocks (`CodesKeepBlocks`, of which `PlainAsTurned` is proved): Huffman coding, the differences of the
  first coefficients and the packing of bits undo each other for every input only by induction over data. The run `files` checks
  `PlainAsTurned` itself, codes included; `CodesKeepBlocks(edited)` and `Sound` also hold in all its
  states, and in some of them files are turned losslessly more than once.
* `NothingLost` where a file asks for the name of another selected one: the run has such an instance with two runs. With
  three it can fail: a rename may hold the place that a selected file has left while a third run still takes this place for
  its source; that run moves the placeholder away, and what another program then saves there is replaced.

## 5. Abstractions

* A decode, a browser sign-in and a request to the server are single steps with every outcome
  the code distinguishes. A server that has given up on a POST may have applied it at that moment, not later.
* `validate_sync_snapshot` never refuses what `read_local` produces (the allowlist holds switches, numbers and
  names), so it is not a step. That deleting the document resets its version is an assumption about the
  server, which the repository uses but does not contain.
* A refused reservation stays refused. If the refusal passed in between, `slots.rs:72` would
  hand out a name nobody holds.
* Other programs delete only files no running job is using.
* A panic of a worker aborts the process (the release profile), so `join` never fails.
* What the threads of the conversion dialog do between the end of its window and the end of the
  process reaches nobody. The progress bar, the settings popup and the folder picker are left out.
* The wait of the `webview2-com` crate leaves `WM_QUIT` in the queue; this is taken from how the code
  around it behaves. An animation is retried at most `MaxShort` times without bitmaps. Every PDF has two pages.
* The notification area does not refuse the icon for ever. A chord that another program has taken and a
  mutex that cannot be created are not modelled.
* Seeking a host's stream does not fail, a call reads the settings once, `QueryContextMenu` reads them at one
  instant, and a file has one provider.
* Capture: the automation mode is left out, geometry is a set of points, a text's place is chosen when it is
  committed, the preview of a drag in progress (`overlay/paint.rs:69-73`) is not part of what is `OnScreen`, and the sweep of old pictures is not followed.
* Settings dialog: its single controls are in `SettingsSync`. A visit of `regsvr32` reads the flag and writes both
  thumbnail keys of its format in one step; its loops over previews and properties are in `Registration`, where no key refuses.
  Writing a flag to HKCU succeeds, and the flags of a Save are written, and put back, in one step.
* The placement, reparenting and focus of the preview pane's window, and the rectangle or parent of a later
  `SetWindow`, are not modelled.
* `FolderVerbs` takes the first free name in one step; the walk over candidates is in `OutputSlots`. The scan of a folder and
  the empty input of a batch are left out. Coefficients of pictures that are encoded anew are not followed.
* Formatting, wording, logging and window layout are left out everywhere.

## 6. Plan

To model next, in this order:

1. `DecodeTiers`: the cascade of `decode.rs`, what each tier may refuse, its budgets and its fallbacks.
2. `ArchiveCovers`: the choice of a cover in `container/*`, with the limits on what is unpacked.
3. `Clients`: the upload chain, update, sponsors and feedback, with their caches and dialogs.
4. Combining pictures to a PDF or CBZ, as further jobs of `OutputSlots`.

To prove next: `CodesKeepBlocks` for one code table, with the bits of a scan as a function of its units.

Not planned: byte parsers and encoders, container readers, painting, text and markdown,
localisation, the dispatch of the command line and of the MCP server, build scripts and the vendored
decoder. They are sequential, keep no state between calls, and a model would repeat the code.
