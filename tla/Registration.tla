---------------------------- MODULE Registration ----------------------------
(* The shell registration of the extension, machine-wide: per file extension  *)
(* the thumbnail, preview and property slots, the property lists and the      *)
(* perceived type, each of which another program may hold, take or give up.   *)
(* DllRegisterServer reads the per-format flags; an update drops formats; the *)
(* uninstaller takes out what the extension put in and nothing else.          *)
EXTENDS Naturals

CONSTANTS
    Exts,           \* file extensions
    MaxForeign      \* bound: steps of other programs

ASSUME RegistrationAssumption == MaxForeign \in Nat

VARIABLES
    FORMATS,        \* the formats of the installed build
    enabled,        \* the per-format flags of HKCU
    keys,           \* per extension: what the registry holds
    served,         \* the COM classes and Approved entries that are there
    foreign         \* steps other programs have taken

registrationVars == <<FORMATS, enabled, keys, served, foreign>>

REMOVED_EXTENSIONS == Exts \ FORMATS

\* The keys of an extension: its own and the one under SystemFileAssociations
Places == {"ext", "assoc"}
Everywhere(who) == [p \in Places |-> who]
Owners == {"nobody", "ours", "another"}
Servers == {"thumbnail", "menu", "preview", "property"}

\* A slot that the extension fills only where nobody is, or itself
Free(who) == who # "another"

NoKeys == [thumb |-> Everywhere("nobody"), preview |-> Everywhere("nobody"), prop |-> "nobody",
           lists |-> FALSE, perceived |-> "nobody", mark |-> FALSE,
           shellex |-> Everywhere(FALSE), key |-> Everywhere(FALSE), values |-> Everywhere(FALSE)]

\* The registry keys of one extension
ExtKeys ==
    [thumb : [Places -> Owners], preview : [Places -> Owners], prop : Owners, lists : BOOLEAN,
     perceived : Owners, mark : BOOLEAN,
     shellex : [Places -> BOOLEAN], key : [Places -> BOOLEAN], values : [Places -> BOOLEAN]]

RegistrationTypeOK ==
    /\ FORMATS \subseteq Exts /\ enabled \subseteq Exts /\ served \subseteq Servers
    /\ foreign \in 0 .. MaxForeign /\ keys \in [Exts -> ExtKeys]

RegistrationInit ==
    /\ FORMATS = Exts /\ enabled = Exts
    /\ keys = [e \in Exts |-> NoKeys] /\ served = {} /\ foreign = 0

-----------------------------------------------------------------------------
(* One extension.  Each operator is what a helper of register.rs does to the  *)
(* keys k of its extension.                                                   *)

WithSlots(k) == [k EXCEPT !.shellex = Everywhere(TRUE), !.key = Everywhere(TRUE)]

\* the thumbnail slots are taken whoever has them
hook_ext(k) == [WithSlots(k) EXCEPT !.thumb = Everywhere("ours")]

remove_if_ours(slots) == [p \in Places |-> IF slots[p] = "ours" THEN "nobody" ELSE slots[p]]
unhook_ext(k) == [k EXCEPT !.thumb = remove_if_ours(@)]

\* mutant: a slot is taken whoever has it
hook_ext_preview_takes(k) == [WithSlots(k) EXCEPT !.preview = Everywhere("ours")]

hook_ext_preview(k) ==
    [WithSlots(k) EXCEPT !.preview = [p \in Places |-> IF Free(@[p]) THEN "ours" ELSE @[p]]]
unhook_ext_preview(k) == [k EXCEPT !.preview = remove_if_ours(@)]

set_perceived_type(k) ==
    IF k.perceived = "nobody" THEN [k EXCEPT !.perceived = "ours", !.mark = TRUE, !.key["ext"] = TRUE]
    ELSE k

\* whatever is there now goes, when the mark says that it was ours
unhook_perceived_type(k) ==
    IF k.mark THEN [k EXCEPT !.perceived = "nobody", !.mark = FALSE] ELSE k

hook_ext_propstore(k) ==
    IF Free(k.prop) THEN set_perceived_type([k EXCEPT !.prop = "ours", !.lists = TRUE, !.key["assoc"] = TRUE])
    ELSE k
unhook_ext_propstore(k) ==
    unhook_perceived_type(IF k.prop = "ours" THEN [k EXCEPT !.prop = "nobody", !.lists = FALSE] ELSE k)

\* is_empty_key, of a shellex key and of the key above it
ShellexEmpty(k, p) == k.shellex[p] /\ k.thumb[p] = "nobody" /\ k.preview[p] = "nobody"
KeyEmpty(k, p) ==
    /\ k.key[p] /\ ~k.shellex[p] /\ ~k.values[p]
    /\ p = "ext" => k.perceived = "nobody" /\ ~k.mark
    /\ p = "assoc" => ~k.lists

prune_at(k, p) ==
    IF ~ShellexEmpty(k, p) THEN k
    ELSE LET bare == [k EXCEPT !.shellex[p] = FALSE]
         IN  IF KeyEmpty(bare, p) THEN [bare EXCEPT !.key[p] = FALSE] ELSE bare
prune_empty_parents(k) == prune_at(prune_at(k, "ext"), "assoc")

unhook_ext_and_prune(k) == prune_empty_parents(unhook_ext(k))
unhook_ext_preview_and_prune(k) == prune_empty_parents(unhook_ext_preview(k))

-----------------------------------------------------------------------------
(* DllRegisterServer and DllUnregisterServer *)

\* the passes over the formats: the sweep of the dropped ones goes with the first
FirstPass(e, k) ==
    IF e \in FORMATS THEN IF e \in enabled THEN hook_ext(k) ELSE unhook_ext(k)
    ELSE unhook_ext_propstore(unhook_ext_preview_and_prune(unhook_ext_and_prune(k)))
register_preview_handler(e, k) ==
    IF e \notin FORMATS THEN k ELSE IF e \in enabled THEN hook_ext_preview(k) ELSE unhook_ext_preview(k)
register_property_handler(e, k) ==
    IF e \notin FORMATS THEN k ELSE IF e \in enabled THEN hook_ext_propstore(k) ELSE unhook_ext_propstore(k)

\* The classes are registered one after the other.  Failing at the first leaves everything,
\* failing at the context menu leaves the passes after it undone; what cannot be done for
\* previews or properties fails nothing.
register ==
    \E there \in SUBSET Servers :
        /\ "menu" \in there => "thumbnail" \in there
        /\ {"preview", "property"} \cap there # {} => "menu" \in there
        /\ served' = served \cup there
        /\ LET one(e) == IF "thumbnail" \in there THEN FirstPass(e, keys[e]) ELSE keys[e]
               two(e) == IF "preview" \in there THEN register_preview_handler(e, one(e)) ELSE one(e)
           IN  keys' = [e \in Exts |->
                   IF "property" \in there THEN register_property_handler(e, two(e)) ELSE two(e)]
        /\ UNCHANGED <<FORMATS, enabled, foreign>>

\* mutant: the property values go after the pruning
Uninstalled_prunes_first(k) == unhook_ext_propstore(unhook_ext_preview_and_prune(unhook_ext_and_prune(k)))

Uninstalled(k) == unhook_ext_preview_and_prune(unhook_ext_and_prune(unhook_ext_propstore(k)))

unregister ==
    /\ keys' = [e \in Exts |-> Uninstalled(keys[e])]
    /\ served' = {}
    /\ UNCHANGED <<FORMATS, enabled, foreign>>

set_format_enabled(e) ==
    /\ enabled' = IF e \in enabled THEN enabled \ {e} ELSE enabled \cup {e}
    /\ UNCHANGED <<FORMATS, keys, served, foreign>>

\* an update whose build no longer has the format
Dropped(e) ==
    /\ e \in FORMATS /\ FORMATS' = FORMATS \ {e}
    /\ UNCHANGED <<enabled, keys, served, foreign>>

-----------------------------------------------------------------------------
(* Other programs: they fill and empty slots and values of their own, and     *)
(* take over ours.  A key that one of them leaves empty goes with it.         *)

Swept(k) == [k EXCEPT !.key = [p \in Places |-> @[p] /\ ~KeyEmpty(k, p)]]

Takes(k) ==
    {[k EXCEPT !.thumb[p] = "another", !.shellex[p] = TRUE, !.key[p] = TRUE] : p \in Places}
    \cup {[k EXCEPT !.preview[p] = "another", !.shellex[p] = TRUE, !.key[p] = TRUE] : p \in Places}
    \cup {[k EXCEPT !.values[p] = TRUE, !.key[p] = TRUE] : p \in Places}
    \cup {[k EXCEPT !.prop = "another"], [k EXCEPT !.perceived = "another", !.key["ext"] = TRUE]}

GivesUp(k) ==
    {[k EXCEPT !.thumb[p] = "nobody"] : p \in {q \in Places : k.thumb[q] = "another"}}
    \cup {[k EXCEPT !.preview[p] = "nobody"] : p \in {q \in Places : k.preview[q] = "another"}}
    \cup {[k EXCEPT !.values[p] = FALSE] : p \in {q \in Places : k.values[q]}}
    \cup (IF k.prop = "another" THEN {[k EXCEPT !.prop = "nobody"]} ELSE {})
    \cup (IF k.perceived = "another" THEN {[k EXCEPT !.perceived = "nobody"]} ELSE {})

AnotherProgram(e) ==
    /\ foreign < MaxForeign /\ foreign' = foreign + 1
    /\ \/ \E k \in Takes(keys[e]) : keys' = [keys EXCEPT ![e] = k]
       \/ \E k \in GivesUp(keys[e]) : keys' = [keys EXCEPT ![e] = Swept(k)]
    /\ UNCHANGED <<FORMATS, enabled, served>>

RegistrationNext ==
    \/ register \/ unregister
    \/ \E e \in Exts : set_format_enabled(e) \/ Dropped(e) \/ AnotherProgram(e)

RegistrationSpec == RegistrationInit /\ [][RegistrationNext]_registrationVars

-----------------------------------------------------------------------------
(* Properties *)

\* A property list stays behind only under a property handler that is no longer ours: another
\* program took the slot while ours held it.
ListsDisplaced(k) == k.lists /\ k.prop # "ours"

PointsAtUs(k) ==
    \/ "ours" \in {k.thumb[p] : p \in Places} \cup {k.preview[p] : p \in Places} \cup {k.prop, k.perceived}
    \/ k.mark
LeftEmpty(k) == \E p \in Places : KeyEmpty(k, p) \/ ShellexEmpty(k, p)

\* After the uninstaller took out an installation, nothing points at the extension, for the formats of this build and
\* of the builds before it, and no key of a format of this build is left empty, whatever other
\* programs did in between (unregister and the order of its helpers: the property values go
\* before the pruning, or they keep the key alive).
UninstallLeavesNothing ==
    [][served # {} /\ unregister => served' = {} /\ \A e \in Exts :
            /\ ~PointsAtUs(keys'[e])
            /\ e \in FORMATS => ~LeftEmpty(keys'[e])
            /\ keys'[e].lists => ListsDisplaced(keys[e])]_registrationVars

\* What another program put into a preview or property slot stays until that program goes, over
\* every registration, Options change, update and uninstall; its thumbnail handler is replaced
\* only by registering a format the user has enabled, and its own values never (hook_ext_preview,
\* hook_ext_propstore, remove_if_ours, prune_empty_parents).
ForeignKept ==
    [][keys' # keys /\ foreign' = foreign => \A e \in Exts :
        LET old == keys[e] new == keys'[e] IN
        /\ \A p \in Places :
            /\ old.preview[p] = "another" => new.preview[p] = "another"
            /\ old.thumb[p] = "another" => new.thumb[p] = "another" \/ e \in FORMATS \cap enabled
            /\ old.thumb[p] = "another" \/ old.preview[p] = "another" => new.shellex[p] /\ new.key[p]
            /\ old.values[p] => new.values[p] /\ new.key[p]
        /\ old.prop = "another" => new.prop = "another"]_registrationVars

\* A perceived type that another program set is not removed by us: the mark is there "so unhook
\* can remove OUR PerceivedType without clobbering one another app sets later"
\* (set_perceived_type, unhook_perceived_type).
PerceivedTypeKept ==
    [][foreign' = foreign => \A e \in Exts :
        keys[e].perceived = "another" => keys'[e].perceived = "another"]_registrationVars

=============================================================================
