--------------------------- MODULE SettingsDialog ---------------------------
(* The Settings dialog's two lists and what its Save, Import and Repair do    *)
(* with them: the searchable list of formats, whose ticks live in a model of  *)
(* their own; the list of menu items, which is reordered by dragging; and the *)
(* elevated regsvr32 that brings the machine-wide hooks in line with the      *)
(* flags, format by format and as far as their keys let it.  A sync thread    *)
(* may store another menu order at any time, another program may take over a  *)
(* format, and the process may end between two steps of a Save.               *)
EXTENDS Naturals, Sequences, FiniteSets, SequencesExt, Sifting

CONSTANTS
    Formats,        \* formats::FORMATS
    Items,          \* MENU_ITEM_TOGGLES
    Sep,            \* MENU_SEP_TOKEN, and SEP_PARAM in a row
    DefaultTokens,  \* the menu's own order
    Orders,         \* orders that a file or another device brings
    Texts,          \* texts typed into the search box
    Matches,        \* per text: the formats whose label holds it
    Blank,          \* the empty search text
    NoText,         \* no search has been made
    MaxOutside      \* bound: imports and pulls

ASSUME DialogAssumption ==
    /\ Sep \notin Items /\ DefaultTokens \in Seq(Items \cup {Sep}) /\ Items \subseteq Range(DefaultTokens)
    /\ \A order \in Orders : order \in Seq(Range(order))
    /\ Blank \in Texts /\ Matches \in [Texts -> SUBSET Formats] /\ Matches[Blank] = Formats
    /\ NoText \notin Texts /\ MaxOutside \in Nat

VARIABLES
    saved,          \* HKCU: per-format flags, menu order, shown menu items
    hooked,         \* HKCR: the formats whose thumbnail keys name the extension
    page,           \* the dialog: see Opened
    dlg,             \* what its thread does
    regsvr32,       \* the elevated process it waits for
    left,           \* the visits that process has not made yet, see Visit
    late,           \* those that a regsvr32 which was given up may still make
    unsure,         \* history: see Launch
    meant,          \* history: the formats that the user, a file or the registry last ticked
    outside         \* imports and pulls so far

dialogState == <<saved, hooked, page, dlg, regsvr32, left, late, unsure, meant, outside>>

Row(i, on) == [is |-> i, on |-> on]
IsDivider(r) == r.is = Sep

\* a format, and the account whose flag is read
Visits == Formats \X {"mine", "another"}

-----------------------------------------------------------------------------
(* Menu rows *)

\* the rows but for the dividers that come first or after another
Divided(rows) == Sift(rows, {n \in DOMAIN rows : ~IsDivider(rows[n]) \/ (n > 1 /\ ~IsDivider(rows[n - 1]))})

\* mutant: a divider that comes last stays
normalize_rows_leaves_last(rows) == Divided(rows)

\* normalize_rows: no divider first, after another, or last
normalize_rows(rows) ==
    LET kept == Divided(rows)
    IN  IF kept # <<>> /\ IsDivider(Last(kept)) THEN Front(kept) ELSE kept

\* menu_rows_from_tokens: repeated and unknown tokens are skipped, missing items appended
menu_rows_from_tokens(tokens, shown) ==
    LET all == tokens \o Sift(DefaultTokens, {n \in DOMAIN DefaultTokens : DefaultTokens[n] # Sep})
        kept == Sift(all, {n \in DOMAIN all :
                    all[n] = Sep \/ (all[n] \in Items /\ \A m \in 1 .. n - 1 : all[m] # all[n])})
    IN  normalize_rows([n \in DOMAIN kept |-> Row(kept[n], kept[n] # Sep /\ kept[n] \in shown)])

default_menu_rows(shown) == menu_rows_from_tokens(DefaultTokens, shown)
saved_menu_rows(s) == menu_rows_from_tokens(IF s.order = <<>> THEN DefaultTokens ELSE s.order, s.shown)

Ticked(rows) == {rows[n].is : n \in {m \in DOMAIN rows : rows[m].on}}
TokensOf(rows) == [n \in DOMAIN rows |-> rows[n].is]

-----------------------------------------------------------------------------
(* The page: the model of the format ticks, the rows that the search shows    *)
(* and their ticks, the last search, and the menu rows with the dragged one.  *)

\* mutant: the rows that go report their ticks as taken away
populate_list_notifies(p, text) ==
    [p EXCEPT !.shows = Matches[text], !.FMT_STATE = @ \cap Matches[text], !.ticks = p.FMT_STATE \cap Matches[text]]

populate_list(p, text) == [p EXCEPT !.shows = Matches[text], !.ticks = p.FMT_STATE \cap Matches[text]]

Opened(s) ==
    populate_list([FMT_STATE |-> s.flags, shows |-> {}, ticks |-> {}, LAST_FILTER |-> NoText,
                   rows |-> saved_menu_rows(s), DRAG_SRC |-> 0], Blank)

reset_formats(p) == [p EXCEPT !.FMT_STATE = Formats, !.ticks = p.shows]

\* load_values: a row's tick is read anew, its place is not
load_rows(rows, s) == [n \in DOMAIN rows |->
    IF IsDivider(rows[n]) THEN rows[n] ELSE [rows[n] EXCEPT !.on = rows[n].is \in s.shown]]

refresh_from_settings(p, s) ==
    populate_list([p EXCEPT !.rows = load_rows(@, s), !.FMT_STATE = s.flags], Blank)

\* What the thread does, for whom, and what it takes back if regsvr32 fails
Idle == [at |-> "idle", for |-> "nobody", old |-> {}]
Doing(at, for, old) == [at |-> at, for |-> for, old |-> old]

PageTypeOK ==
    /\ saved.flags \subseteq Formats /\ saved.shown \subseteq Items /\ hooked \subseteq Formats
    /\ saved.order \in Seq(Items \cup {Sep} \cup UNION {Range(o) : o \in Orders})
    /\ page.FMT_STATE \subseteq Formats /\ page.shows \in Range(Matches) /\ page.ticks \subseteq page.shows
    /\ page.LAST_FILTER \in Texts \cup {NoText}
    /\ page.rows \in Seq([is : Items \cup {Sep}, on : BOOLEAN]) /\ page.DRAG_SRC \in Nat
    /\ dlg.at \in {"closed", "idle", "stored", "waits"} /\ dlg.for \in {"nobody", "save", "import", "repair"}
    /\ dlg.old \subseteq Formats
    /\ regsvr32 \in {"none", "runs", "succeeded", "failed"} /\ left \cup late \subseteq Visits /\ unsure \subseteq Formats
    /\ meant \subseteq Formats /\ outside \in 0 .. MaxOutside

\* an installation at rest: every enabled format is hooked
DialogInit ==
    /\ saved = [flags |-> Formats, order |-> <<>>, shown |-> Items] /\ hooked = Formats
    /\ page = Opened(saved) /\ dlg = [Idle EXCEPT !.at = "closed"]
    /\ regsvr32 = "none" /\ left = {} /\ late = {} /\ unsure = {} /\ meant = Formats /\ outside = 0

AtRest == dlg.at = "idle"
shell == <<hooked, regsvr32, left, late, unsure>>
ShellVars == <<saved, shell>>

WM_CREATE ==
    /\ dlg.at = "closed" /\ dlg' = Idle
    /\ page' = Opened(saved) /\ meant' = saved.flags
    /\ UNCHANGED <<ShellVars, outside>>

-----------------------------------------------------------------------------
(* The format list *)

\* EN_CHANGE: the same text again rebuilds nothing
Search(text) ==
    /\ AtRest /\ page.LAST_FILTER # text
    /\ page' = [populate_list(page, text) EXCEPT !.LAST_FILTER = text]
    /\ UNCHANGED <<ShellVars, dlg, meant, outside>>

\* A click, Space or the menu on the selected rows, Select all and Clear all; every changed
\* row reaches the model through LVN_ITEMCHANGED.
Tick(some, on) ==
    /\ AtRest
    /\ LET changed == IF on THEN some \ page.ticks ELSE some \cap page.ticks
           Set(ticks) == IF on THEN ticks \cup changed ELSE ticks \ changed
       IN  /\ page' = [page EXCEPT !.ticks = Set(@), !.FMT_STATE = Set(@)]
           /\ meant' = IF on THEN meant \cup some ELSE meant \ some
    /\ UNCHANGED <<ShellVars, dlg, outside>>

ResetFormats ==
    /\ AtRest /\ page' = reset_formats(page) /\ meant' = Formats
    /\ UNCHANGED <<ShellVars, dlg, outside>>

load_defaults ==
    /\ AtRest /\ page' = reset_formats([page EXCEPT !.rows = default_menu_rows(Items)]) /\ meant' = Formats
    /\ UNCHANGED <<ShellVars, dlg, outside>>

\* Live language switch: the next search filters anew
on_lang_change ==
    /\ AtRest /\ page' = [page EXCEPT !.LAST_FILTER = NoText]
    /\ UNCHANGED <<ShellVars, dlg, meant, outside>>

-----------------------------------------------------------------------------
(* The menu list.  While a row is dragged the keyboard still works: the rows  *)
(* may be rebuilt before the button is released.                              *)

OnPage(p) == AtRest /\ page' = p /\ UNCHANGED <<ShellVars, dlg, meant, outside>>

TickRow(n) == ~IsDivider(page.rows[n]) /\ OnPage([page EXCEPT !.rows[n].on = ~@])

begin_menu_drag(n) == page.DRAG_SRC = 0 /\ OnPage([page EXCEPT !.DRAG_SRC = n])

\* WM_CAPTURECHANGED
CaptureLost == page.DRAG_SRC # 0 /\ OnPage([page EXCEPT !.DRAG_SRC = 0])

\* dest counts the rows before the place, in the list that still has the dragged row
Moved(rows, src, dest) ==
    LET at == IF src <= dest THEN dest ELSE dest + 1
    IN  normalize_rows(InsertAt(RemoveAt(rows, src), at, rows[src]))

finish_menu_drag(dest) ==
    /\ page.DRAG_SRC # 0
    /\ OnPage([page EXCEPT !.DRAG_SRC = 0,
                           !.rows = IF page.DRAG_SRC > Len(@) THEN @ ELSE Moved(@, page.DRAG_SRC, dest)])

reset_menu_order == OnPage([page EXCEPT !.rows = default_menu_rows(Ticked(@))])

-----------------------------------------------------------------------------
(* Save, Import and Repair *)

\* apply_settings, up to the menu: what the dialog shows is stored, changed or not
StoreMenu ==
    /\ AtRest /\ dlg' = Doing("stored", "save", {})
    /\ saved' = [saved EXCEPT !.order = TokensOf(page.rows), !.shown = Ticked(page.rows)]
    /\ UNCHANGED <<shell, page, meant, outside>>

\* mutant: only the rows the search shows are compared with the flags
StoreFlags_shown ==
    /\ dlg.at = "stored"
    /\ LET changes == {f \in page.shows : (f \in page.FMT_STATE) # (f \in saved.flags)}
       IN  /\ saved' = [saved EXCEPT !.flags = (@ \ changes) \cup (changes \ @)]
           /\ dlg' = IF changes = {} THEN Idle ELSE Doing("waits", "save", changes)
    /\ UNCHANGED <<shell, page, meant, outside>>

\* ... and the flags that differ, with what it takes to put them back
StoreFlags ==
    /\ dlg.at = "stored"
    /\ LET changes == {f \in Formats : (f \in page.FMT_STATE) # (f \in saved.flags)}
       IN  /\ saved' = [saved EXCEPT !.flags = page.FMT_STATE]
           /\ dlg' = IF changes = {} THEN Idle ELSE Doing("waits", "save", changes)
    /\ UNCHANGED <<shell, page, meant, outside>>

\* A settings file writes the values it holds, and the dialog is read anew
import_settings_from_file ==
    /\ AtRest /\ outside < MaxOutside /\ outside' = outside + 1
    /\ \E flags \in SUBSET Formats, order \in Orders, shown \in SUBSET Items :
        LET s == [flags |-> flags, order |-> order, shown |-> shown] IN
        /\ saved' = s /\ page' = refresh_from_settings(page, s) /\ meant' = flags
        /\ dlg' = IF flags = saved.flags THEN Idle ELSE Doing("waits", "import", {})
    /\ UNCHANGED shell

repair_associations ==
    /\ AtRest /\ dlg' = Doing("waits", "repair", {})
    /\ UNCHANGED <<ShellVars, page, meant, outside>>

-----------------------------------------------------------------------------
(* regsvr32 and the wait for it *)

\* reregister_elevated starts regsvr32, which reads the flags of the account that answered the
\* prompt.  What becomes of the hooks is certain only where no regsvr32 that was given up is
\* at work beside it.
Launch ==
    /\ dlg.at = "waits" /\ regsvr32 = "none" /\ regsvr32' = "runs"
    /\ \E whose \in {"mine", "another"} :
        /\ left' = Formats \X {whose}
        /\ unsure' = IF whose = "mine" /\ late = {} THEN {} ELSE Formats
    /\ UNCHANGED <<saved, hooked, page, dlg, late, meant, outside>>

\* register comes to one format: hook_ext or unhook_ext, by the flag as it is now
Visit(v) ==
    LET f == v[1] IN
    hooked' \in IF v[2] = "another" THEN {hooked \cup {f}, hooked \ {f}}
                ELSE IF f \in saved.flags THEN {hooked \cup {f}} ELSE {hooked \ {f}}

\* a key that refuses stops its own format only, and register does not report it
Registers ==
    /\ regsvr32 = "runs"
    /\ \E v \in left :
        /\ left' = left \ {v}
        /\ \/ Visit(v) /\ unsure' = unsure
           \/ hooked' = hooked /\ unsure' = unsure \cup {v[1]}
    /\ UNCHANGED <<saved, page, dlg, regsvr32, late, meant, outside>>

\* it may fail before the formats, between them when it is ended, or after them, at the context
\* menu's class
Exits ==
    /\ regsvr32 = "runs"
    /\ regsvr32' = "failed" \/ (left = {} /\ regsvr32' = "succeeded")
    /\ left' = {}
    /\ UNCHANGED <<saved, hooked, page, dlg, late, unsure, meant, outside>>

\* Several that were given up are one set: another of them may come to the same format again.
LateRegisters ==
    /\ \E v \in late : (Visit(v) \/ hooked' = hooked) /\ late' \in {late, late \ {v}}
    /\ UNCHANGED <<saved, page, dlg, regsvr32, left, unsure, meant, outside>>

\* the complaint that Repair is for
TakenOver(f) ==
    /\ f \in hooked /\ hooked' = hooked \ {f}
    /\ unsure' = IF regsvr32 = "none" THEN unsure ELSE unsure \cup {f}
    /\ UNCHANGED <<saved, page, dlg, regsvr32, left, late, meant, outside>>

NoRegsvr32 == regsvr32' = "none" /\ left' = {} /\ unsure' = {}

\* Reg::Ok: the process succeeded and the class is there
ReturnsOk ==
    /\ dlg.at = "waits" /\ regsvr32 = "succeeded"
    /\ dlg' = Idle /\ NoRegsvr32
    /\ UNCHANGED <<saved, hooked, page, late, meant, outside>>

\* every other outcome: the DLL is gone, the prompt was declined, an error code, 60 seconds have
\* passed, or the class is not there after all; only a Save takes its flags back
RolledBack(s, changes) == [s EXCEPT !.flags = (@ \ changes) \cup (changes \ @)]

ReturnsOtherwise ==
    /\ dlg.at = "waits"
    /\ late' = late \cup left
    /\ dlg' = Idle /\ NoRegsvr32
    /\ saved' = IF dlg.for = "save" THEN RolledBack(saved, dlg.old) ELSE saved
    /\ UNCHANGED <<hooked, page, meant, outside>>

-----------------------------------------------------------------------------
\* pull_on_open: another device's order, not its flags
Pull ==
    /\ outside < MaxOutside /\ outside' = outside + 1
    /\ \E order \in Orders : saved' = [saved EXCEPT !.order = order]
    /\ UNCHANGED <<shell, page, dlg, meant>>

\* the dialog is closed, or its process ends, wherever it is; regsvr32 goes on alone
DialogEnds ==
    /\ dlg.at # "closed" /\ dlg' = [Idle EXCEPT !.at = "closed"]
    /\ late' = late \cup left /\ NoRegsvr32
    /\ page' = Opened(saved) /\ meant' = saved.flags
    /\ UNCHANGED <<saved, hooked, outside>>

DialogNext ==
    \/ WM_CREATE \/ ResetFormats \/ load_defaults \/ on_lang_change
    \/ \E text \in Texts : Search(text)
    \/ \E some \in SUBSET page.shows, on \in BOOLEAN : Tick(some, on)
    \/ \E n \in DOMAIN page.rows : TickRow(n) \/ begin_menu_drag(n)
    \/ \E dest \in 0 .. Len(page.rows) : finish_menu_drag(dest)
    \/ CaptureLost \/ reset_menu_order
    \/ StoreMenu \/ StoreFlags \/ import_settings_from_file \/ repair_associations
    \/ Launch \/ Registers \/ Exits \/ LateRegisters \/ ReturnsOk \/ ReturnsOtherwise
    \/ (\E f \in Formats : TakenOver(f)) \/ Pull \/ DialogEnds

DialogSpec == DialogInit /\ [][DialogNext]_dialogState

-----------------------------------------------------------------------------
(* Properties *)

\* A tick the user gave a format is neither lost nor changed by searching, by resetting or by
\* what happens to rows that a search hides, and the list shows it (populate_list,
\* LVN_ITEMCHANGED).
TicksAreTrue ==
    dlg.at # "closed" => page.FMT_STATE = meant /\ page.ticks = meant \cap page.shows

\* The menu list always has every item once, and a divider only between two items; and what a
\* Save stores of it reads back as its rows (menu_rows_from_tokens, normalize_rows,
\* apply_settings).
RowsAreWhole ==
    /\ \A i \in Items : \E n \in DOMAIN page.rows :
        page.rows[n].is = i /\ \A m \in DOMAIN page.rows : page.rows[m].is = i => m = n
    /\ \A n \in DOMAIN page.rows : IsDivider(page.rows[n]) =>
        n \notin {1, Len(page.rows)} /\ ~IsDivider(page.rows[n + 1])
MenuListReadsBack ==
    [][RowsAreWhole /\ (StoreMenu => saved_menu_rows(saved') = page.rows)]_dialogState

\* What a Save stored is what the dialog showed: when it ends well the flags are the ticks of
\* all formats, also of those a search hid; when it does not, what it had changed counts as
\* changed again, so that the next Save asks for it again (apply_settings).  And whatever earlier
\* failures, kills and imports left behind, Reg::Ok is never returned, to whoever asked, before
\* regsvr32 has brought the hooks in line with the flags, but for formats whose keys refused or
\* were taken over meanwhile, and unless it read another account's flags or one that was
\* given up was still at work beside it (reregister_elevated, register).
SaveStoresWhatIsShown ==
    [][/\ dlg.for = "save" /\ ReturnsOk => saved'.flags = meant
       /\ dlg.for = "save" /\ ReturnsOtherwise => dlg.old = {f \in Formats : (f \in saved'.flags) # (f \in meant)}
       /\ ReturnsOk => \A f \in Formats \ unsure : f \in hooked <=> f \in saved.flags]_dialogState
=============================================================================
