----------------------------- MODULE MCSettings -----------------------------
(* The settings in one instance for TLC: the sync of the Settings dialog, its *)
(* two lists with Save, Import and Repair, and the shell registration.  They  *)
(* share no state, so each behaviour runs one part, chosen at the start, and  *)
(* the others stay at one initial state; what TLC explores is their union,    *)
(* not their product.  The lists of the dialog are two parts of their own.    *)
EXTENDS SettingsSync, Registration, SettingsDialog

VARIABLE part

Parts == {"sync", "registration", "formats", "menu"}

\* A text that finds one of the two formats, a menu order with one item twice and dividers in
\* every wrong place, and one that is only short.
CONSTANTS jpg, psd
MCMatches == [t \in Texts |-> IF t = Blank THEN Formats ELSE {jpg}]
MCTokens == <<"a", Sep, "b", Sep, "c">>
MCOrders == {<<"b", "a">>, <<Sep, "b", "gone", Sep, Sep, "b">>}

syncVars == vars

SettingsInit == part \in Parts /\ Init /\ RegistrationInit /\ DialogInit

\* Threads and accounts differ in nothing but their names, so each takes the first free one,
\* and only the first is throttled.
\* While a second account is in use, one thread works at a time, and each account is written once.
CONSTANTS w1, w2, a1, a2
InUse(a) == account = a \/ cloud[a].version > 0 \/ \E w \in Workers : th[w].token = a

SyncRuns ==
    /\ part = "sync" /\ Next
    /\ th[w2].pc = "idle" /\ th'[w2].pc # "idle" => th[w1].pc # "idle"
    /\ ~InUse(a2) /\ InUse(a2)' => InUse(a1)
    /\ ~th'[w2].throttled
    /\ InUse(a2)' => /\ th'[w2].pc = "idle" /\ th'[w1].conflicts = 0 /\ ~th'[w1].throttled
                     /\ \A a \in Accounts : cloud'[a].version <= 1
    /\ UNCHANGED <<part, registrationVars, dialogState>>
RegistrationRuns == part = "registration" /\ RegistrationNext /\ UNCHANGED <<part, syncVars, dialogState>>

\* While the formats are ticked and searched nothing happens to the menu's rows, and the other
\* way round, where only one item's tick changes; a Save, an Import and a Pull belong to both.
FormatsRun ==
    /\ part = "formats" /\ DialogNext
    /\ page'.rows = page.rows /\ page'.DRAG_SRC = 0 /\ saved'.order \in {<<>>, TokensOf(page.rows)}
    /\ UNCHANGED <<part, syncVars, registrationVars>>
MenuRuns ==
    /\ part = "menu" /\ DialogNext
    /\ page'.FMT_STATE = page.FMT_STATE /\ page'.LAST_FILTER = NoText /\ hooked' = hooked /\ dlg'.for \in {"nobody", "save"}
    /\ {"b", "c"} \subseteq Ticked(page'.rows) \cap saved'.shown
    /\ UNCHANGED <<part, syncVars, registrationVars>>

SettingsNext == SyncRuns \/ RegistrationRuns \/ FormatsRun \/ MenuRuns

settingsVars == <<part, syncVars, registrationVars, dialogState>>

\* Nothing a sync thread does is enabled in a part at rest, so the fairness speaks of the
\* behaviours of the sync only.
SettingsSpec ==
    SettingsInit /\ [][SettingsNext]_settingsVars /\ \A w \in Workers : WF_vars(LockedStep(w))
=============================================================================
