-------------------------------- MODULE Menu --------------------------------
(* The right-click menu, twice: the classic handler (contextmenu.rs), whose  *)
(* items are command ids counted from the number the host grants, and the    *)
(* modern flyout (command.rs), whose items are objects that answer for       *)
(* themselves.  One object of each is asked while the settings change.       *)
EXTENDS Naturals, SequencesExt, Sifting

CONSTANTS
    MenuFiles,
    NoFile,
    Class,          \* "jpeg", "image", "audio" or "other" (is_image, is_audio)
    Selections,     \* selections the host asks about
    Orders,         \* saved orders of the menu that the instance looks at
    Hidden,         \* sets of items the user unticked
    Starts,         \* settings the instance starts with
    Grants,         \* command ids the host may grant
    MaxChanges,     \* bound: changes of the settings
    MaxAsked        \* bound: selections one object is initialised with

Settings == [on : BOOLEAN, all : BOOLEAN, mode : 0 .. 2, quick : BOOLEAN, hidden : Hidden, order : Orders]

ASSUME MenuAssumption ==
    /\ Class \in [MenuFiles -> {"jpeg", "image", "audio", "other"}]
    /\ NoFile \notin MenuFiles
    /\ Selections \subseteq SUBSET MenuFiles \ {{}}
    /\ Orders \subseteq Seq(STRING)
    /\ Starts \subseteq Settings
    /\ Grants \subseteq Nat /\ {MaxChanges, MaxAsked} \subseteq Nat

VARIABLES
    stored,         \* the settings: enabled, all types, preview mode, quick verbs, hidden, order
    changes,
    object,         \* the fields of ContextMenu
    screen,         \* the menu on the screen, and what it was asked for
    asked,          \* initialisations so far
    click           \* history: the last item clicked, and what it did

menuVars == <<stored, changes, object, screen, asked, click>>

-----------------------------------------------------------------------------
(* The tree (verbs/menu.rs)                                                  *)

Group(k, vs) == [key |-> k, verbs |-> vs]
Verb(k) == [key |-> k, verbs |-> <<k>>]
Separator == [key |-> "--", verbs |-> <<>>]

MENU == <<
    Group("convert_into", <<"png", "jpg", "webp", "webp_lossless", "avif", "bmp", "gif", "tiff", "ico", "lep">>),
    Verb("convert_dialog"), Verb("combine_pdf"), Verb("combine_cbz"), Separator,
    Group("resize", <<"1080", "720", "600", "50%", "25%">>),
    Group("email", <<"small", "medium", "large">>),
    Group("rotate", <<"right", "left", "180", "flip_h", "flip_v">>), Separator,
    Group("rename", <<"date", "camera", "artist_title", "track_title">>), Verb("files_to_folder"),
    Group("sort", <<"dimensions", "tags">>), Separator,
    Verb("copy_text"), Verb("image_info"), Verb("pick_color"), Verb("strip_meta"), Verb("copy"),
    Verb("upload"), Separator,
    Verb("set_folder_icon"), Group("wallpaper", <<"stretch", "tile", "center">>), Separator,
    Verb("settings")>>

leaves == FlattenSeq([i \in DOMAIN MENU |-> MENU[i].verbs])
StartOf == [i \in DOMAIN MENU |-> Len(FlattenSeq([n \in 1 .. i - 1 |-> MENU[n].verbs]))]

Place(key) == SelectInSeq(MENU, LAMBDA it : it.key = key)
SomeSeparator == Place("--")
IsSeparator(i) == MENU[i].key = "--"

InTreeOrder(K) == Sift([i \in DOMAIN MENU |-> i], K)
WithKeys(keys) == {i \in DOMAIN MENU : MENU[i].key \in keys}
SettingsTail == <<SomeSeparator, Place("settings")>>

(* order_top_level_with: the saved order, each item once, unknown tokens     *)
(* dropped, items it lacks appended, dividers normalised, Settings last.     *)
(* An item is its place in MENU, wherever it is shown.                       *)
order_top_level_with(saved) ==
    LET Reorderable(i) == i # 0 /\ MENU[i].key # "settings"
        Known == Sift([n \in DOMAIN saved |-> Place(saved[n])], {n \in DOMAIN saved : Reorderable(Place(saved[n]))})
        Wanted == Known \o InTreeOrder({i \in DOMAIN MENU : Reorderable(i) /\ ~IsSeparator(i)})
        Body == Sift(Wanted, {n \in DOMAIN Wanted :
                                IsSeparator(Wanted[n]) \/ \A m \in 1 .. n - 1 : Wanted[m] # Wanted[n]})
        Neat == Sift(Body, {n \in DOMAIN Body :
                                ~IsSeparator(Body[n]) \/ (n > 1 /\ ~IsSeparator(Body[n - 1]))})
    IN  IF saved = <<>> THEN [i \in DOMAIN MENU |-> i]
        ELSE (IF Neat # <<>> /\ IsSeparator(Last(Neat)) THEN Front(Neat) ELSE Neat) \o SettingsTail

ordered_top_level == [saved \in Orders |-> order_top_level_with(saved)]
condensed_top_level == InTreeOrder(WithKeys({"files_to_folder", "pick_color"})) \o SettingsTail
audio_top_level ==
    InTreeOrder(WithKeys({"files_to_folder", "rename", "sort", "pick_color"})) \o SettingsTail
top_level_audio_ok(key) == key \in {"files_to_folder", "rename", "sort", "pick_color", "settings"}

QUICK_KEYS == {"convert_into", "convert_dialog", "resize", "rotate"}

-----------------------------------------------------------------------------
(* The selection: one file, or a set of them                                 *)

is_image(f) == Class[f] # "other"
any_image(sel) == \E f \in sel : is_image(f)
audio_only(sel) == sel # {} /\ \A f \in sel : Class[f] = "audio"
all_jpeg(sel) == sel # {} /\ \A f \in sel : Class[f] = "jpeg"
Single(sel) == \E f \in sel : sel = {f}
First(sel) == CHOOSE f \in sel : TRUE

shown(i) == MENU[i].key \notin stored.hidden

NewObject ==
    [sel |-> {}, eligible |-> FALSE, job |-> NoFile, preview |-> NoFile, cmd |-> FALSE]
NoScreen == [items |-> {}, tops |-> <<>>, consumed |-> 0, granted |-> 0, caption |-> NoFile,
             picture |-> NoFile, flyout |-> FALSE, open |-> FALSE]

NoClick == [said |-> "none", did |-> "none"]

MenuInit ==
    /\ stored \in Starts
    /\ changes = 0 /\ asked = 0
    /\ object = NewObject /\ screen = NoScreen
    /\ click = NoClick

(* A Save of the Settings dialog, or a pull of the sync, between any two     *)
(* calls.                                                                    *)
SettingsChange ==
    /\ changes < MaxChanges /\ changes' = changes + 1
    /\ \/ stored' = [stored EXCEPT !.on = ~@]
       \/ stored' = [stored EXCEPT !.all = ~@]
       \/ stored' = [stored EXCEPT !.quick = ~@]
       \/ \E m \in 0 .. 2 : stored' = [stored EXCEPT !.mode = m]
       \/ \E h \in Hidden : stored' = [stored EXCEPT !.hidden = h]
       \/ \E o \in Orders : stored' = [stored EXCEPT !.order = o]
    /\ UNCHANGED <<object, screen, asked, click>>

-----------------------------------------------------------------------------
(* The classic handler                                                       *)

(* IShellExtInit::Initialize: whether the file fits the preview's limits,    *)
(* and in mode 2 the decode ahead, unless two of them run already.           *)
Initialize(sel, fits, free) ==
    LET ok == stored.on /\ stored.mode # 0 /\ Single(sel) /\ any_image(sel) /\ fits
    IN  object' = [object EXCEPT !.sel = sel, !.eligible = ok,
                   !.job = IF ok /\ stored.mode = 2 /\ free THEN First(sel) ELSE NoFile]

HostInitializes ==
    /\ ~screen.open /\ asked < MaxAsked /\ asked' = asked + 1
    /\ \E sel \in Selections, fits, free \in BOOLEAN : Initialize(sel, fits, free)
    /\ click' = NoClick
    /\ UNCHANGED <<stored, changes, screen>>

Item(verb, offset) == [verb |-> verb, offset |-> offset]

\* mutant: ids are counted in the order in which the items are drawn
build_menu_into_as_drawn(i, budget, sel) ==
    LET Drawn == ordered_top_level[stored.order]
        Before == IF Contains(Drawn, i) THEN SubSeq(Drawn, 1, SelectInSeq(Drawn, LAMBDA d : d = i) - 1) ELSE <<>>
        start == Len(FlattenSeq([n \in DOMAIN Before |-> MENU[Before[n]].verbs]))
    IN  {Item(MENU[i].verbs[n], start + n - 1) : n \in
            {n \in DOMAIN MENU[i].verbs : shown(i) /\ start + n <= budget}}
(* build_menu_into for one top-level item: a leaf keeps the id of its place  *)
(* in the whole tree, and ids past the budget are not drawn.                 *)
build_menu_into(i, budget, sel) ==
    {Item(MENU[i].verbs[n], StartOf[i] + n - 1) : n \in
        {n \in DOMAIN MENU[i].verbs :
            /\ shown(i) /\ StartOf[i] + n <= budget
            /\ MENU[i].verbs[n] = "lep" => all_jpeg(sel)}}

TopLevel(sel) ==
    IF ~any_image(sel) THEN condensed_top_level
    ELSE IF audio_only(sel) THEN audio_top_level
    ELSE ordered_top_level[stored.order]

\* the items of a list that are shown and lie in K
Offered(tops, K) == Sift(tops, {n \in DOMAIN tops : ~IsSeparator(tops[n]) /\ shown(tops[n]) /\ tops[n] \in K})
ClassicTops(sel) == Offered(TopLevel(sel), DOMAIN MENU)

Adds(sel) == stored.on /\ (any_image(sel) \/ stored.all)

(* ensure_preview: the picture decoded ahead, or decoded now, if it is there *)
(* in time; without one the preview is the name of the file.                 *)
PictureOf(o) == {IF o.job = NoFile THEN First(o.sel) ELSE o.job, NoFile}

\* mutant: the preview of the last query is still good
ResetKeepsPreview(o) == o
Reset(o) == [o EXCEPT !.preview = NoFile]

(* QueryContextMenu.  The preview is drawn at once in mode 2, and in mode 1  *)
(* when the flyout opens.                                                    *)
QueryContextMenu(granted) ==
    LET sel == object.sel
        budget == IF granted < Len(leaves) THEN granted ELSE Len(leaves)
        slot == stored.mode # 0 /\ Single(sel) /\ any_image(sel) /\ granted > Len(leaves) /\ object.eligible
        quick == IF stored.quick /\ any_image(sel) /\ ~audio_only(sel)
                 THEN {i \in DOMAIN MENU : MENU[i].key \in QUICK_KEYS} ELSE {}
        drawn == DOMAIN MENU \cap (quick \cup ToSet(TopLevel(sel)))
        tree == UNION {build_menu_into(i, budget, sel) : i \in drawn}
        o == [Reset(object) EXCEPT !.cmd = slot]
        menu == [NoScreen EXCEPT !.items = tree, !.tops = ClassicTops(sel), !.open = TRUE,
                                 !.flyout = (slot /\ stored.mode = 1), !.granted = granted,
                                 !.consumed = budget + (IF slot THEN 1 ELSE 0)]
    IN  /\ ~screen.open /\ sel # {}
        /\ IF ~Adds(sel) \/ budget = 0
           THEN object' = object /\ screen' = [NoScreen EXCEPT !.open = TRUE, !.granted = granted]
           ELSE IF slot /\ stored.mode = 2
           THEN \E p \in PictureOf(o) :
                   /\ object' = [o EXCEPT !.preview = First(sel), !.job = NoFile]
                   /\ screen' = [menu EXCEPT !.caption = First(sel), !.picture = p]
           ELSE object' = o /\ screen' = menu
        /\ click' = NoClick
        /\ UNCHANGED <<stored, changes, asked>>

(* WM_INITMENUPOPUP of our flyout; on a skinned host WM_MEASUREITEM and      *)
(* WM_DRAWITEM, which come again and again, decode in the same way.  A       *)
(* preview once built is kept.                                               *)
FlyoutOpens ==
    /\ screen.flyout \/ screen.caption # NoFile
    /\ IF object.preview # NoFile
       THEN screen' = [screen EXCEPT !.flyout = FALSE, !.caption = object.preview] /\ UNCHANGED object
       ELSE \E p \in PictureOf(object) :
               /\ object' = [object EXCEPT !.preview = First(object.sel), !.job = NoFile]
               /\ screen' = [screen EXCEPT !.flyout = FALSE, !.caption = First(object.sel), !.picture = p]
    /\ UNCHANGED <<stored, changes, asked, click>>

(* InvokeCommand: slot_for.  The preview opens the file.                     *)
Dispatch(offset) ==
    IF offset < Len(leaves) THEN leaves[offset + 1]
    ELSE IF offset = Len(leaves) /\ object.cmd THEN First(object.sel) ELSE "none"

InvokeCommand ==
    /\ screen.open
    /\ \/ \E it \in screen.items : click' = [said |-> it.verb, did |-> Dispatch(it.offset)]
       \/ screen.caption # NoFile /\ click' = [said |-> screen.caption, did |-> Dispatch(Len(leaves))]
    /\ screen' = NoScreen
    /\ UNCHANGED <<stored, changes, object, asked>>

Dismissed == screen.open /\ screen' = NoScreen /\ UNCHANGED <<stored, changes, object, asked, click>>

MenuNext ==
    \/ SettingsChange \/ HostInitializes
    \/ \E g \in Grants : QueryContextMenu(g)
    \/ FlyoutOpens \/ InvokeCommand \/ Dismissed

MenuSpec == MenuInit /\ [][MenuNext]_menuVars

-----------------------------------------------------------------------------
(* The modern flyout, for the same selection and settings                    *)

root_state(sel) == stored.on /\ (any_image(sel) \/ stored.all)

menu_item_state(i, sel) ==
    /\ stored.on /\ any_image(sel)
    /\ audio_only(sel) => top_level_audio_ok(MENU[i].key)

\* mutant: the audio list is not looked at
EnumSubCommandsUngated(sel) ==
    IF ~any_image(sel) /\ stored.all THEN Offered(condensed_top_level, {i \in DOMAIN MENU : stored.on})
    ELSE Offered(ordered_top_level[stored.order], {i \in DOMAIN MENU : stored.on /\ any_image(sel)})
(* EnumSubCommands of the root after its GetState, and GetState of each.     *)
EnumSubCommands(sel) ==
    IF ~any_image(sel) /\ stored.all THEN Offered(condensed_top_level, {i \in DOMAIN MENU : stored.on})
    ELSE Offered(ordered_top_level[stored.order], {i \in DOMAIN MENU : menu_item_state(i, sel)})

ModernTops(sel) == IF root_state(sel) THEN EnumSubCommands(sel) ELSE <<>>

-----------------------------------------------------------------------------
(* What the two menus owe                                                    *)

(* The types; nothing is on the screen of a menu that is closed.             *)
MenuTypeOK ==
    /\ stored \in Settings /\ changes \in 0 .. MaxChanges /\ asked \in 0 .. MaxAsked
    /\ object \in [sel : Selections \cup {{}}, eligible : BOOLEAN, job : MenuFiles \cup {NoFile},
                   preview : MenuFiles \cup {NoFile}, cmd : BOOLEAN]
    /\ screen.open \/ screen = NoScreen

(* A click runs what its item says, whichever settings changed since the     *)
(* menu was drawn; every id drawn lies in the range granted and in the range *)
(* claimed from the host, so that the next handler's ids are its own.        *)
ClickRunsItsTitle ==
    /\ click.said = click.did
    /\ screen.consumed <= screen.granted
    /\ \A it \in screen.items : it.offset < screen.consumed
    /\ screen.caption # NoFile => Len(leaves) < screen.consumed

(* The preview on the menu is the picture and the name of the file selected, *)
(* also when the object is initialised again with an earlier decode running. *)
PreviewIsTheSelection ==
    screen.caption # NoFile =>
        object.sel = {screen.caption} /\ screen.picture \in {screen.caption, NoFile}

(* Both menus offer the same items for the selection, whatever was saved as  *)
(* their order and visibility, and each of them once.                        *)
MenusAgree ==
    \A sel \in {object.sel} \ {{}} :
        LET classic == IF Adds(sel) THEN ClassicTops(sel) ELSE <<>>
            modern == ModernTops(sel)
        IN  /\ ToSet(classic) = ToSet(modern)
            /\ Len(classic) = Len(modern)
            /\ IsInjective(modern)
=============================================================================
