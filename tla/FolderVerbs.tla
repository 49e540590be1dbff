----------------------------- MODULE FolderVerbs -----------------------------
(* The verbs that move, copy or rename the selected files: "Files to folder" with    *)
(* its dialog, "Dimensions to folders", "Tags to folders" (verbs/fileops.rs) and the  *)
(* renaming by capture date or tags (verbs/actions.rs). Each runs in a process of its *)
(* own on the paths that were selected; two may have the same selection, and other    *)
(* programs save files in the folders. How reserve walks its candidates step by step  *)
(* is in OutputSlots; here it takes the first free one.                               *)
EXTENDS Integers, FiniteSetsExt, SequencesExt

CONSTANTS
    Runs,      \* the invocations
    Verbs,     \* the verbs in this instance, a subset of AllVerbs
    Home,      \* the folder of the selected files, which are in it by their names
    Selected,  \* the selected files, in order: their names
    WantedDir, \* the folder a file's size or tags ask for, <<>> if it has none
    WantedName,\* the name its capture date or tags ask for, "" if it has none
    MaxSaved   \* bound: files other programs save

AllVerbs == {"files_to_folder", "sort_by_dimensions", "tags_move", "tags_copy", "rename_by_exif"}
ASSUME VerbsAssumption == Verbs \subseteq AllVerbs

\* The selection is a list of names in one folder, and what other programs save is not in it.
ASSUME SelectionAssumption ==
    /\ IsFiniteSet(Runs)
    /\ Selected \in Seq(ToSet(Selected)) /\ IsInjective(Selected)
    /\ "theirs" \notin ToSet(Selected)

VARIABLES
    files,   \* the files there are: what is at each path
    folders, \* the folders there are
    task,    \* each invocation, see TaskState
    saved    \* how many files other programs have saved

folderVars == <<files, folders, task, saved>>

\* A file's content; a placeholder has none.
Content(id) == [is |-> "file", of |-> id]
Placeholder(r) == [is |-> "held", of |-> r]

SourceOf(k) == <<Home, <<Selected[k]>>>>
Numbered(name, n) == IF n = 0 THEN <<name>> ELSE <<name, n + 1>>

IdleTask(verb) ==
    [verb |-> verb, pc |-> "off", k |-> 1, seen |-> <<>>, dir |-> <<>>, name |-> "", slot |-> <<>>,
     landed |-> 0, skipped |-> 0, errored |-> 0]

FolderInit ==
    /\ files = [p \in {SourceOf(k) : k \in DOMAIN Selected} |-> Content(p[2][1])]
    /\ folders = {Home}
    /\ task \in [Runs -> {IdleTask(verb) : verb \in Verbs}]
    /\ saved = 0

-----------------------------------------------------------------------------
Does(r, verbs) == task[r].verb \in verbs
NowIs(r, new) == task' = [task EXCEPT ![r] = new]
AtFile(r) == task[r].pc = "file" /\ task[r].k <= Len(Selected)

\* the next file, after this one landed, was skipped or failed
Landed1(t)  == [t EXCEPT !.pc = "file", !.k = @ + 1, !.landed = @ + 1, !.slot = <<>>]
Skipped1(t) == [t EXCEPT !.pc = "file", !.k = @ + 1, !.skipped = @ + 1, !.slot = <<>>]
Errored1(t) == [t EXCEPT !.pc = "file", !.k = @ + 1, !.errored = @ + 1, !.slot = <<>>]

\* The verb is chosen, or the dialog's button pressed again after "could not create".
Starts(r) ==
    /\ task[r].pc \in {"off", "refused"}
    /\ NowIs(r, [IdleTask(task[r].verb) EXCEPT !.pc =
            CASE Does(r, {"files_to_folder"}) -> "look"
              [] Does(r, {"sort_by_dimensions"}) -> "probe"
              [] OTHER -> "file"])
    /\ UNCHANGED <<files, folders, saved>>

\* files_to_folder: a name no folder has
Looks(r) ==
    /\ task[r].pc = "look"
    /\ LET Free(n) == Numbered("new", n) \notin folders
           n == CHOOSE m \in 0..Cardinality(folders) : Free(m) /\ \A i \in 0..m - 1 : ~Free(i)
       IN  NowIs(r, [task[r] EXCEPT !.pc = "create", !.dir = Numbered("new", n)])
    /\ UNCHANGED <<files, folders, saved>>

\* create_dir_all is content with a folder that is there by now
Creates(r) ==
    /\ task[r].pc = "create"
    /\ \/ NowIs(r, [task[r] EXCEPT !.pc = "file"]) /\ folders' = folders \union {task[r].dir}
       \/ NowIs(r, [task[r] EXCEPT !.pc = "refused"]) /\ UNCHANGED folders
    /\ UNCHANGED <<files, saved>>

\* the size of what is at the path now, if anything is
Read(k, wanted, none) ==
    IF SourceOf(k) \in DOMAIN files /\ files[SourceOf(k)].is = "file"
    THEN wanted[files[SourceOf(k)].of] ELSE none

\* sort_by_dimensions: each file is probed before the first is moved, by some worker
Probes(r) ==
    /\ task[r].pc = "probe"
    /\ IF Len(task[r].seen) = Len(Selected)
       THEN NowIs(r, [task[r] EXCEPT !.pc = "file"])
       ELSE NowIs(r, [task[r] EXCEPT !.seen = Append(@, Read(Len(@) + 1, WantedDir, <<>>))])
    /\ UNCHANGED <<files, folders, saved>>

\* the folder and the name a file shall have, none if its size, date or tags are missing
FolderFor(r) ==
    CASE Does(r, {"files_to_folder"}) -> task[r].dir
      [] Does(r, {"sort_by_dimensions"}) -> task[r].seen[task[r].k]
      [] Does(r, {"tags_move", "tags_copy"}) -> Read(task[r].k, WantedDir, <<>>)
      [] Does(r, {"rename_by_exif"}) -> Home
NameFor(r) ==
    IF Does(r, {"rename_by_exif"}) THEN Read(task[r].k, WantedName, "") ELSE Selected[task[r].k]

IsWanted(r) == FolderFor(r) # <<>> /\ NameFor(r) # ""

\* what is missing leaves the file alone
NothingToDo(r) ==
    /\ AtFile(r)
    /\ ~IsWanted(r)
    /\ NowIs(r, Skipped1(task[r]))
    /\ UNCHANGED <<files, folders, saved>>

\* the folder is made where a verb names it, which may fail
MakesFolder(r) ==
    /\ AtFile(r)
    /\ IsWanted(r)
    /\ \/ /\ NowIs(r, [task[r] EXCEPT !.pc = "reserve", !.dir = FolderFor(r), !.name = NameFor(r)])
          /\ folders' = IF Does(r, {"files_to_folder"}) THEN folders ELSE folders \union {FolderFor(r)}
       \/ /\ Does(r, {"sort_by_dimensions", "tags_move", "tags_copy"})
          /\ NowIs(r, Skipped1(task[r])) /\ UNCHANGED folders
    /\ UNCHANGED <<files, saved>>

\* mutant: the name is looked at and not held
ReservedNot(r, path) == files

\* create_new at the first free candidate
Reserved(r, path) == [p \in DOMAIN files \union {path} |-> IF p = path THEN Placeholder(r) ELSE files[p]]

FirstFree(dir, name) ==
    LET Free(n) == <<dir, Numbered(name, n)>> \notin DOMAIN files
        n == CHOOSE m \in 0..Cardinality(DOMAIN files) : Free(m) /\ \A i \in 0..m - 1 : ~Free(i)
    IN  <<dir, Numbered(name, n)>>

\* reserve_dest: in place, held, or handed out unheld where the folder is gone
reserve_dest(r) ==
    LET t == task[r]
        path == FirstFree(t.dir, t.name)
        plain == <<t.dir, <<t.name>>>>
    IN  /\ t.pc = "reserve"
        /\ IF plain = SourceOf(t.k)
           THEN /\ NowIs(r, IF Does(r, {"rename_by_exif"}) THEN Skipped1(t) ELSE Landed1(t))
                /\ UNCHANGED files
           ELSE IF t.dir \notin folders
           THEN NowIs(r, [t EXCEPT !.pc = "land", !.slot = plain]) /\ UNCHANGED files
           ELSE NowIs(r, [t EXCEPT !.pc = "land", !.slot = path]) /\ files' = Reserved(r, path)
        /\ UNCHANGED <<folders, saved>>

\* rename_retrying or copy: what is at the path now lands on the slot
Lands(r) ==
    LET t == task[r]
        src == SourceOf(t.k)
    IN  /\ t.pc = "land" /\ t.dir \in folders
        /\ src \in DOMAIN files
        /\ files' = [p \in (DOMAIN files \union {t.slot}) \ (IF Does(r, {"tags_copy"}) THEN {} ELSE {src}) |->
                        IF p = t.slot THEN files[src] ELSE files[p]]
        /\ NowIs(r, Landed1(t))
        /\ UNCHANGED <<folders, saved>>

\* mutant: the placeholder stays
DroppedNot(r) == files

\* the slot is dropped, and with it an empty file there
Dropped(r) ==
    [p \in {q \in DOMAIN files : q = task[r].slot => files[q].is = "file"} |-> files[p]]

\* locked, gone, or on another volume
CannotLand(r) ==
    /\ task[r].pc = "land"
    /\ files' = Dropped(r)
    /\ NowIs(r, IF Does(r, {"rename_by_exif"}) THEN Errored1(task[r]) ELSE Skipped1(task[r]))
    /\ UNCHANGED <<folders, saved>>

\* files_to_folder: an error if nothing landed, and then its folder goes if it is empty
Reports(r) ==
    /\ task[r].pc = "file" /\ task[r].k > Len(Selected)
    /\ IF Does(r, {"files_to_folder"}) /\ task[r].landed = 0
       THEN /\ folders' = IF \E p \in DOMAIN files : p[1] = task[r].dir THEN folders
                          ELSE folders \ {task[r].dir}
            /\ NowIs(r, [task[r] EXCEPT !.pc = "refused"])
       ELSE NowIs(r, [task[r] EXCEPT !.pc = "told"]) /\ UNCHANGED folders
    /\ UNCHANGED <<files, saved>>

\* Another program saves a file where there is none, perhaps where one was moved from.
Saves ==
    /\ saved < MaxSaved
    /\ saved' = saved + 1
    /\ \E dir \in folders, k \in DOMAIN Selected, n \in 0..1 :
        LET path == <<dir, Numbered(Selected[k], n)>>
        IN  path \notin DOMAIN files
            /\ files' = [p \in DOMAIN files \union {path} |->
                            IF p = path THEN Content("theirs") ELSE files[p]]
    /\ UNCHANGED <<folders, task>>

FolderNext ==
    \/ Saves
    \/ \E r \in Runs :
        \/ Starts(r) \/ Looks(r) \/ Creates(r) \/ Probes(r) \/ NothingToDo(r) \/ MakesFolder(r)
        \/ reserve_dest(r) \/ Lands(r) \/ CannotLand(r) \/ Reports(r)

FolderSpec == FolderInit /\ [][FolderNext]_folderVars

-----------------------------------------------------------------------------
(* Properties *)

FolderTypeOK ==
    /\ \A p \in DOMAIN files : p[1] \in folders /\ files[p].is \in {"file", "held"}
    /\ \A r \in Runs : task[r].landed + task[r].skipped + task[r].errored <= Len(Selected)
    /\ saved \in 0..MaxSaved

PlacesOf(id) == {p \in DOMAIN files : files[p] = Content(id)}

KeptAll ==
    /\ \A k \in DOMAIN Selected : PlacesOf(Selected[k]) # {}
    /\ saved > 0 => PlacesOf("theirs") # {}

\* No selected file and none that other programs save is ever lost, whichever verbs run on
\* one selection at a time and whichever of their steps fail (fileops.rs:121, "an external
\* writer ... landing a file in the gap between the check and the move/copy/rename can never
\* collide with us"). Two files_to_folder may share one folder, which one of them takes away
\* while the other holds no name in it: with files of other programs there, that case is out.
NothingLost ==
    saved = 0 \/ Cardinality({r \in Runs : Does(r, {"files_to_folder"})}) <= 1 => KeptAll

\* A verb that moves a file counts it only if it did so: when no verb is at work, as many
\* files are away from where they were as the moving verbs report (fileops.rs:236, "instead
\* of a fake success").
Moving == AllVerbs \ {"tags_copy"}
CountsTrue ==
    (\A r \in Runs : task[r].pc \in {"off", "refused", "told"}) /\ saved = 0 =>
        /\ Cardinality({k \in DOMAIN Selected : SourceOf(k) \notin PlacesOf(Selected[k])})
            = SumFunctionOnSet([r \in Runs |-> task[r].landed], {r \in Runs : Does(r, Moving)})
        /\ \A r \in Runs : Does(r, {"tags_copy"}) =>
            SumFunction([k \in DOMAIN Selected |-> Cardinality(PlacesOf(Selected[k]) \ {SourceOf(k)})])
                >= task[r].landed
        /\ \A p \in DOMAIN files : files[p].is = "file"
=============================================================================
