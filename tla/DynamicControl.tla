---------------------------- MODULE DynamicControl ----------------------------
(***************************************************************************)
(* The dynamic form control of screens/edit-form-hook/dynamic-control.tsx  *)
(* together with the react-hook-form container it writes to.               *)
(*                                                                         *)
(* Each field of a form is one DynamicControl instance.  Its render body   *)
(* registers the field with the form container and seeds a local mirror    *)
(* (useState); a passive effect keyed on the descriptor's "value" pushes a *)
(* new value into both; the widget's onChange handlers write the mirror    *)
(* and then the container.  React runs the render body, then, after the    *)
(* commit, the effect; a new render first flushes pending effects, while a *)
(* user event's handler runs before them.  react-hook-form keeps a field's *)
(* value across unmounts (the default shouldUnregister: false) and a      *)
(* second register() of a known field leaves its value alone.             *)
(*                                                                         *)
(* JavaScript values are abstracted to a few named values that keep what   *)
(* the code tells apart: truthiness ("!value", "value || ''"), equality    *)
(* (React's dependency check) and JSON.parse success.                      *)
(***************************************************************************)

CONSTANTS
    Fields,     \* the field names of one form
    Type,       \* Type[f]: the control type of field f (props.type)
    Parents     \* parent option ids a two-step select may be given

\* The control types the switch of DynamicControl dispatches on, and one it
\* does not know (it then renders nothing but still registers the field).
ControlTypes ==
    {"password", "text", "number", "textarea", "switch", "checkbox",
     "select", "dropdown", "enum", "select2step", "multiselect", "list",
     "datepicker", "json", "color", "unknown"}

ASSUME TypeAssumption == Type \in [Fields -> ControlTypes]

(***************************************************************************)
(* JavaScript values.                                                      *)
(***************************************************************************)
Undef == "undefined"
Null == "null"
EmptyStr == ""
Strings == {"str_a", "str_b"}          \* non-empty strings
Numbers == {"num0", "num1"}            \* the numbers 0 and 1
Bools == {"false", "true"}
Objects == {"obj"}                     \* a parsed JSON object
Children == {"c1", "c2"}               \* child option ids of a two-step select
JsonTexts == {"txt_0", "txt_obj", "txt_bad"}  \* editor texts "0", "{..}", "{"

JSVal == {Undef, Null, EmptyStr} \cup Strings \cup Numbers \cup Bools
            \cup Objects \cup Children \cup JsonTexts

\* JavaScript falsy values among JSVal.
Falsy == {Undef, Null, EmptyStr, "num0", "false"}
Truthy(v) == v \notin Falsy

\* JSON.parse on the editor texts that parse; "" and "txt_bad" throw.
ParseJSON == [t \in {"txt_0", "txt_obj"} |-> IF t = "txt_0" THEN "num0" ELSE "obj"]

\* The "parent" prop of a two-step select: absent, or an option id.
NoParent == Undef
ParentProps == {NoParent} \cup Parents

\* The dependency list of the effect before its first run.
NoDep == "nodep"

(***************************************************************************)
(* The values a user can enter through each widget, and the descriptor     *)
(* values the form-assembly layer can hand a field of each type (the       *)
(* attribute's value from the server, which may also be absent or null).   *)
(***************************************************************************)
HandleChangeTypes ==
    ControlTypes \ {"select2step", "json", "unknown"}

UserValues(t) ==
    CASE t \in {"text", "password", "textarea", "color", "datepicker"}
                                        -> {EmptyStr} \cup Strings
      [] t = "number"                   -> {EmptyStr} \cup Numbers
      [] t \in {"checkbox", "switch"}   -> Bools
      [] t \in {"select", "dropdown", "enum", "multiselect", "list"}
                                        -> Strings
      [] t = "select2step"              -> Children
      [] t = "json"                     -> {EmptyStr} \cup JsonTexts
      [] OTHER                          -> {}

DescValues(t) ==
    {Undef, Null} \cup
        IF t = "json" THEN {"num0"} \cup Objects
        ELSE IF t = "unknown" THEN Strings
        ELSE UserValues(t)

ASSUME ValuesAssumption ==
    \A t \in ControlTypes : UserValues(t) \cup DescValues(t) \subseteq JSVal

VARIABLES
    form,        \* react-hook-form's _formValues: field -> value
    registered,  \* fields react-hook-form has a record for (_fields)
    mounted,     \* fields whose DynamicControl instance is mounted
    local,       \* localValue, the useState mirror of a mounted field
    prop,        \* the "value" prop of the last render
    parent,      \* the "parent" prop of the last render
    effectDep,   \* the effect's dependency list as of its last run
    pending      \* fields whose effect is scheduled and has not run

vars == <<form, registered, mounted, local, prop, parent, effectDep, pending>>

-----------------------------------------------------------------------------
(***************************************************************************)
(* Helpers for the render body.                                            *)
(***************************************************************************)

\* The value passed to register(): "value" for a checkbox, "value || ''"
\* for any other control type.
RegisterValue(f, v) ==
    IF Type[f] = "checkbox" THEN v
    ELSE IF Truthy(v) THEN v ELSE EmptyStr

\* register(name, {value}): a field react-hook-form does not know yet takes
\* its current value if it has one, else the given one; a known field keeps
\* its value.
Register(f, v) ==
    IF f \in registered \/ form[f] # Undef THEN form
    ELSE [form EXCEPT ![f] = RegisterValue(f, v)]

\* The value the two-step select is handed: the pair of the "parent" and
\* "value" props when a parent is given, an empty pair otherwise.
SelectValue(f) ==
    IF parent[f] # NoParent THEN [parent |-> parent[f], child |-> prop[f]]
    ELSE [parent |-> Null, child |-> Null]

\* Mutant: the mirror seeded from the descriptor alone, "useState(value)".
InitialLocalFromProp(f, v, fv) == v

\* useState(getValues(name) && !value ? getValues(name) : value), read just
\* after register() on the first render.
InitialLocal(f, v, fv) == IF Truthy(fv) /\ ~Truthy(v) THEN fv ELSE v

\* handleChange(newValue): setLocalValue then setValue.
HandleChange(f, x) ==
    /\ local' = [local EXCEPT ![f] = x]
    /\ form' = [form EXCEPT ![f] = x]

-----------------------------------------------------------------------------
(***************************************************************************)
(* Actions.                                                                *)
(***************************************************************************)

\* The first render of a field's DynamicControl, with descriptor value v and
\* parent p: register, seed the mirror, schedule the effect.
Mount(f, v, p) ==
    /\ f \notin mounted
    /\ LET fv == Register(f, v) IN
          /\ form' = fv
          /\ local' = [local EXCEPT ![f] = InitialLocal(f, v, fv[f])]
    /\ registered' = registered \cup {f}
    /\ mounted' = mounted \cup {f}
    /\ prop' = [prop EXCEPT ![f] = v]
    /\ parent' = [parent EXCEPT ![f] = p]
    /\ effectDep' = [effectDep EXCEPT ![f] = NoDep]
    /\ pending' = pending \cup {f}

\* A later render of a mounted field: register() again (a no-op for a known
\* field), the mirror is kept, and the effect is scheduled when "value"
\* differs from the dependency it last ran with.
Render(f, v, p) ==
    /\ f \in mounted
    /\ f \notin pending
    /\ prop' = [prop EXCEPT ![f] = v]
    /\ parent' = [parent EXCEPT ![f] = p]
    /\ pending' = IF v # effectDep[f] THEN pending \cup {f} ELSE pending
    /\ UNCHANGED <<form, registered, mounted, local, effectDep>>

\* The effect: "if (!value) return; handleChange(value);".
Effect(f) ==
    /\ f \in pending
    /\ pending' = pending \ {f}
    /\ effectDep' = [effectDep EXCEPT ![f] = prop[f]]
    /\ IF Truthy(prop[f]) THEN HandleChange(f, prop[f])
                          ELSE UNCHANGED <<local, form>>
    /\ UNCHANGED <<registered, mounted, prop, parent>>

\* A user edit through a widget wired to handleChange.  The event handler
\* runs at once, also between a render and the flush of the effect that
\* render scheduled: setValue writes the form before that effect runs.
UserChange(f, x) ==
    /\ f \in mounted
    /\ Type[f] \in HandleChangeTypes
    /\ HandleChange(f, x)
    /\ UNCHANGED <<registered, mounted, prop, parent, effectDep, pending>>

\* The code editor's onChange: keep the text, commit null for "", commit the
\* parse when JSON.parse succeeds, and keep the old value when it throws.
JsonChange(f, t) ==
    /\ f \in mounted
    /\ Type[f] = "json"
    /\ local' = [local EXCEPT ![f] = t]
    /\ form' = [form EXCEPT ![f] =
                   IF t \in DOMAIN ParseJSON THEN ParseJSON[t]
                   ELSE IF t = EmptyStr THEN Null
                   ELSE @]
    /\ UNCHANGED <<registered, mounted, prop, parent, effectDep, pending>>

\* The two-step select's onChange: the chosen child goes to the mirror and
\* to the form.
Select2StepChange(f, c) ==
    /\ f \in mounted
    /\ Type[f] = "select2step"
    /\ local' = [local EXCEPT ![f] = c]
    /\ form' = [form EXCEPT ![f] = c]
    /\ UNCHANGED <<registered, mounted, prop, parent, effectDep, pending>>

\* Mutant: an unmount that leaves the instance's scheduled effect behind.
UnmountKeepEffect(f) ==
    /\ f \in mounted
    /\ mounted' = mounted \ {f}
    /\ UNCHANGED <<form, registered, local, prop, parent, effectDep, pending>>

\* The instance unmounts; react-hook-form keeps the field and its value, and
\* a pending effect is dropped with the instance.
Unmount(f) ==
    /\ f \in mounted
    /\ mounted' = mounted \ {f}
    /\ pending' = pending \ {f}
    /\ UNCHANGED <<form, registered, local, prop, parent, effectDep>>

-----------------------------------------------------------------------------
Init ==
    /\ form = [f \in Fields |-> Undef]
    /\ registered = {}
    /\ mounted = {}
    /\ local = [f \in Fields |-> Undef]
    /\ prop = [f \in Fields |-> Undef]
    /\ parent = [f \in Fields |-> NoParent]
    /\ effectDep = [f \in Fields |-> NoDep]
    /\ pending = {}

Next ==
    \E f \in Fields :
        \/ \E v \in DescValues(Type[f]), p \in ParentProps :
              Mount(f, v, p) \/ Render(f, v, p)
        \/ Effect(f)
        \/ \E x \in UserValues(Type[f]) : UserChange(f, x)
        \/ \E t \in UserValues(Type[f]) : JsonChange(f, t)
        \/ \E c \in Children : Select2StepChange(f, c)
        \/ Unmount(f)

Spec == Init /\ [][Next]_vars

-----------------------------------------------------------------------------
(***************************************************************************)
(* Properties.                                                             *)
(***************************************************************************)

TypeOK ==
    /\ form \in [Fields -> JSVal]
    /\ registered \subseteq Fields
    /\ mounted \subseteq Fields
    /\ local \in [Fields -> JSVal]
    /\ prop \in [Fields -> JSVal]
    /\ parent \in [Fields -> ParentProps]
    /\ effectDep \in [Fields -> JSVal \cup {NoDep}]
    /\ pending \subseteq mounted

\* Toggles: the two boolean widgets, which share the boolean contract.
Toggles == {"checkbox", "switch"}

\* What the widget of field f shows for value v.  A toggle shows undefined,
\* null and false as unchecked, and true as checked; the empty string is no
\* boolean and stays apart.  Other widgets show undefined, null and "" as
\* an empty control and any other value as itself.
Shown(f, v) ==
    CASE Type[f] \in Toggles /\ v \in {Undef, Null, "false"} -> "unchecked"
      [] Type[f] \in Toggles /\ v = "true"                   -> "checked"
      [] Type[f] \notin Toggles /\ v \in {Undef, Null, EmptyStr} -> "blank"
      [] OTHER                                               -> v

\* The value the widget of f is handed and stands for: the child of the
\* two-step select's pair, the parse of a JSON editor's text (null for ""),
\* and the mirror for every other widget.
Denoted(f) ==
    CASE Type[f] = "select2step"                       -> SelectValue(f).child
      [] Type[f] = "json" /\ local[f] \in DOMAIN ParseJSON -> ParseJSON[local[f]]
      [] Type[f] = "json" /\ local[f] = EmptyStr        -> Null
      [] OTHER                                         -> local[f]

\* A field whose effect has run since its last render.
Settled(f) == f \in mounted \ pending

\* Shown and committed values agree for the settled fields of the control
\* types in T (a JSON editor holding text that does not parse is exempt:
\* the spec's documented silent recovery).
ShownMatchesCommittedFor(T) ==
    \A f \in Fields :
        (Type[f] \in T /\ Settled(f) /\ local[f] # "txt_bad")
            => Shown(f, Denoted(f)) = Shown(f, form[f])

(***************************************************************************)
(* The control types for which the code keeps its promise: every type the *)
(* switch renders except the number input and the JSON editor (a 0 is     *)
(* dropped by "value || ''" and by the truthiness test of the useState    *)
(* seed), the switch (a supplied false is registered as ""), and the      *)
(* two-step select (handed the descriptor's child, not the chosen one).   *)
(***************************************************************************)
SoundTypes ==
    {"password", "text", "textarea", "color", "datepicker", "checkbox",
     "select", "dropdown", "enum", "multiselect", "list"}

(***************************************************************************)
(* Property (spec 4.2, steps 1, 2 and 5): once a mounted control's effect  *)
(* has run, the value its widget shows is the value the form container     *)
(* will submit, whatever sequence of mounts, renders, parent pushes, user  *)
(* edits and remounts led there, for every control type the switch of     *)
(* DynamicControl renders.                                                  *)
(***************************************************************************)
ShownMatchesCommitted == ShownMatchesCommittedFor(ControlTypes \ {"unknown"})

(***************************************************************************)
(* Property: the same promise for the fields of the sound types, in a form *)
(* whose other fields (JSON editors, two-step selects) are edited and     *)
(* pushed to concurrently: a field of a sound type, once its effect has   *)
(* run, shows what the form container will submit.                        *)
(***************************************************************************)
ShownMatchesCommittedSound == ShownMatchesCommittedFor(SoundTypes)

=============================================================================
