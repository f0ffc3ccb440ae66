------------------------- MODULE DynamicControl_proofs -------------------------
(***************************************************************************)
(* Proofs about DynamicControl, for every set of fields, every assignment  *)
(* of control types and every set of parent options.                      *)
(***************************************************************************)
EXTENDS DynamicControl, TLAPS

(***************************************************************************)
(* Every descriptor value and every user value of a field is a JSVal.      *)
(***************************************************************************)
LEMMA InputsAreValues ==
    ASSUME NEW f \in Fields
    PROVE  /\ DescValues(Type[f]) \subseteq JSVal
           /\ UserValues(Type[f]) \subseteq JSVal
BY TypeAssumption, ValuesAssumption

(***************************************************************************)
(* The sentinels and the values the handlers write are JSVals.             *)
(***************************************************************************)
LEMMA ConstantsAreValues ==
    /\ {Undef, Null, EmptyStr} \subseteq JSVal
    /\ Children \subseteq JSVal
    /\ \A t \in DOMAIN ParseJSON : ParseJSON[t] \in JSVal
    /\ NoParent \in ParentProps
BY DEF JSVal, Undef, Null, EmptyStr, Children, ParseJSON, Numbers, Objects,
       NoParent, ParentProps

(***************************************************************************)
(* Theorem (type correctness of the dynamic control): in every reachable   *)
(* state the form container, the local mirrors and the last props hold    *)
(* JavaScript values, and an effect is only ever scheduled for a mounted   *)
(* instance (no effect of an unmounted DynamicControl can run).            *)
(***************************************************************************)
LEMMA TypeOKInit == Init => TypeOK
BY ConstantsAreValues DEF Init, TypeOK

LEMMA TypeOKStep == TypeOK /\ [Next]_vars => TypeOK'
  <2> SUFFICES ASSUME TypeOK, [Next]_vars PROVE TypeOK'
    OBVIOUS
  <2>1. ASSUME NEW f \in Fields, NEW v \in DescValues(Type[f]),
               NEW p \in ParentProps, Mount(f, v, p)
        PROVE  TypeOK'
    <3>1. v \in JSVal
      BY InputsAreValues
    <3>2. Register(f, v) \in [Fields -> JSVal]
      BY <3>1, ConstantsAreValues DEF TypeOK, Register, RegisterValue
    <3>3. QED
      BY <2>1, <3>1, <3>2 DEF Mount, TypeOK, InitialLocal
  <2>2. ASSUME NEW f \in Fields, NEW v \in DescValues(Type[f]),
               NEW p \in ParentProps, Render(f, v, p)
        PROVE  TypeOK'
    BY <2>2, InputsAreValues DEF Render, TypeOK
  <2>3. ASSUME NEW f \in Fields, Effect(f)
        PROVE  TypeOK'
    BY <2>3 DEF Effect, HandleChange, TypeOK
  <2>4. ASSUME NEW f \in Fields, NEW x \in UserValues(Type[f]), UserChange(f, x)
        PROVE  TypeOK'
    BY <2>4, InputsAreValues DEF UserChange, HandleChange, TypeOK
  <2>5. ASSUME NEW f \in Fields, NEW t \in UserValues(Type[f]), JsonChange(f, t)
        PROVE  TypeOK'
    BY <2>5, InputsAreValues, ConstantsAreValues DEF JsonChange, TypeOK
  <2>6. ASSUME NEW f \in Fields, NEW c \in Children, Select2StepChange(f, c)
        PROVE  TypeOK'
    BY <2>6, ConstantsAreValues DEF Select2StepChange, TypeOK
  <2>7. ASSUME NEW f \in Fields, Unmount(f)
        PROVE  TypeOK'
    BY <2>7 DEF Unmount, TypeOK
  <2>8. CASE UNCHANGED vars
    BY <2>8 DEF vars, TypeOK
  <2>9. QED
    BY <2>1, <2>2, <2>3, <2>4, <2>5, <2>6, <2>7, <2>8 DEF Next

THEOREM TypeCorrect == Spec => []TypeOK
BY TypeOKInit, TypeOKStep, PTL DEF Spec

\* The values a field of a sound type can hold in the form, the mirror and
\* the last props: booleans or nothing for the checkbox, anything but 0 and
\* false for the others.
Vals(f) ==
    IF Type[f] \in Toggles THEN {Undef, Null} \cup Bools
    ELSE JSVal \ {"num0", "false"}

(***************************************************************************)
(* The inductive strengthening of ShownMatchesCommitted for a field of a  *)
(* sound type: its values stay in Vals, and a mounted instance's mirror   *)
(* and form value show the same thing unless an effect is pending that    *)
(* will overwrite both with a truthy descriptor value.  The second case   *)
(* is what carries the property across Mount (the first render seeds the  *)
(* mirror from the form only when the descriptor value is falsy) and      *)
(* across an edit made before the effect of the last render has run.      *)
(***************************************************************************)
ShownAgrees(f) == Shown(f, local[f]) = Shown(f, form[f])

ShownInvAt(f) ==
        /\ form[f] \in Vals(f)
        /\ local[f] \in Vals(f)
        /\ prop[f] \in Vals(f)
        /\ (f \in mounted /\ (f \notin pending \/ ~Truthy(prop[f])))
              => ShownAgrees(f)

ShownInv == \A f \in Fields : Type[f] \in SoundTypes => ShownInvAt(f)

IInv == TypeOK /\ ShownInv

(***************************************************************************)
(* A field of a sound type is given values in Vals, registers a value in  *)
(* Vals, and is neither a JSON editor nor a two-step select.               *)
(***************************************************************************)
LEMMA SoundInputs ==
    ASSUME NEW f \in Fields, Type[f] \in SoundTypes
    PROVE  /\ DescValues(Type[f]) \subseteq Vals(f)
           /\ UserValues(Type[f]) \subseteq Vals(f)
           /\ \A v \in Vals(f) : RegisterValue(f, v) \in Vals(f)
           /\ Type[f] \notin {"json", "select2step"}
<1>1. DescValues(Type[f]) \subseteq Vals(f) /\ UserValues(Type[f]) \subseteq Vals(f)
  BY DEF SoundTypes, DescValues, UserValues, Vals, Toggles, JSVal, Undef, Null,
         EmptyStr, Strings, Numbers, Bools, Objects, Children, JsonTexts
<1>2. \A v \in Vals(f) : RegisterValue(f, v) \in Vals(f)
  BY DEF SoundTypes, RegisterValue, Vals, Toggles, JSVal, EmptyStr, Truthy, Falsy
<1>3. QED
  BY <1>1, <1>2 DEF SoundTypes

(***************************************************************************)
(* Two falsy values a field of a sound type can hold show alike: as an    *)
(* unchecked box on the checkbox, as an empty control elsewhere.           *)
(***************************************************************************)
LEMMA FalsyShowAlike ==
    ASSUME NEW f \in Fields, Type[f] \in SoundTypes,
           NEW x \in Vals(f), NEW y \in Vals(f), ~Truthy(x), ~Truthy(y)
    PROVE  Shown(f, x) = Shown(f, y)
BY DEF Vals, Truthy, Falsy, Shown, Toggles, Undef, Null, EmptyStr, Bools

LEMMA ShownInvInit == Init => ShownInv
BY DEF Init, ShownInv, ShownInvAt, Vals, JSVal, Undef, Null

LEMMA ShownInvStep == IInv /\ [Next]_vars => ShownInv'
<1> SUFFICES ASSUME IInv, [Next]_vars,
                    NEW f \in Fields, Type[f] \in SoundTypes
             PROVE  ShownInvAt(f)'
  BY DEF ShownInv
<1>0. /\ TypeOK /\ ShownInvAt(f)
      /\ DescValues(Type[f]) \subseteq Vals(f)
      /\ UserValues(Type[f]) \subseteq Vals(f)
      /\ \A v \in Vals(f) : RegisterValue(f, v) \in Vals(f)
      /\ Type[f] \notin {"json", "select2step"}
  BY SoundInputs DEF IInv, ShownInv
<1>1. ASSUME NEW g \in Fields, NEW v \in DescValues(Type[g]),
             NEW p \in ParentProps, Mount(g, v, p)
      PROVE  ShownInvAt(f)'
  <2>1. CASE g # f
    BY <1>0, <1>1, <2>1 DEF Mount, Register, TypeOK, ShownInvAt, ShownAgrees
  <2>2. CASE g = f
    <3> DEFINE fv == Register(f, v)
    <3>1. v \in Vals(f)
      BY <1>0, <2>2
    <3>2. fv[f] \in Vals(f)
      <4>1. CASE f \in registered \/ form[f] # Undef
        BY <1>0, <4>1 DEF fv, Register, ShownInvAt
      <4>2. CASE ~(f \in registered \/ form[f] # Undef)
        BY <1>0, <3>1, <4>2 DEF fv, Register, TypeOK
      <4>3. QED
        BY <4>1, <4>2
    <3>3. /\ form' = fv /\ local'[f] = InitialLocal(f, v, fv[f])
          /\ prop'[f] = v /\ f \in pending'
      BY <1>1, <2>2, <1>0 DEF fv, Mount, TypeOK
    <3>4. ~Truthy(v) => Shown(f, InitialLocal(f, v, fv[f])) = Shown(f, fv[f])
      BY <3>1, <3>2, FalsyShowAlike DEF InitialLocal
    <3>5. InitialLocal(f, v, fv[f]) \in Vals(f)
      BY <3>1, <3>2 DEF InitialLocal
    <3>6. QED
      BY <3>1, <3>2, <3>3, <3>4, <3>5 DEF ShownInvAt, ShownAgrees
  <2>3. QED
    BY <2>1, <2>2
<1>2. ASSUME NEW g \in Fields, NEW v \in DescValues(Type[g]),
             NEW p \in ParentProps, Render(g, v, p)
      PROVE  ShownInvAt(f)'
  BY <1>0, <1>2 DEF Render, TypeOK, ShownInvAt, ShownAgrees
<1>3. ASSUME NEW g \in Fields, Effect(g)
      PROVE  ShownInvAt(f)'
  BY <1>0, <1>3 DEF Effect, HandleChange, TypeOK, ShownInvAt, ShownAgrees
<1>4. ASSUME NEW g \in Fields, NEW x \in UserValues(Type[g]), UserChange(g, x)
      PROVE  ShownInvAt(f)'
  BY <1>0, <1>4 DEF UserChange, HandleChange, TypeOK, ShownInvAt, ShownAgrees
<1>5. ASSUME NEW g \in Fields, NEW t \in UserValues(Type[g]), JsonChange(g, t)
      PROVE  ShownInvAt(f)'
  BY <1>0, <1>5 DEF JsonChange, TypeOK, ShownInvAt, ShownAgrees
<1>6. ASSUME NEW g \in Fields, NEW c \in Children, Select2StepChange(g, c)
      PROVE  ShownInvAt(f)'
  BY <1>0, <1>6 DEF Select2StepChange, TypeOK, ShownInvAt, ShownAgrees
<1>7. ASSUME NEW g \in Fields, Unmount(g)
      PROVE  ShownInvAt(f)'
  BY <1>0, <1>7 DEF Unmount, TypeOK, ShownInvAt, ShownAgrees
<1>8. CASE UNCHANGED vars
  BY <1>0, <1>8 DEF vars, ShownInvAt, ShownAgrees
<1>9. QED
  BY <1>1, <1>2, <1>3, <1>4, <1>5, <1>6, <1>7, <1>8 DEF Next

(***************************************************************************)
(* Theorem (spec 4.2 steps 1, 2 and 5): in every form, whatever the types *)
(* of its other fields, every settled field whose control is a text-like  *)
(* input, a date or color picker, the checkbox, a select or a list shows  *)
(* the value the form container will submit.  The four remaining types    *)
(* are where the code breaks this promise, and TLC shows how.             *)
(***************************************************************************)
THEOREM ShownCorrect == Spec => []ShownMatchesCommittedSound
<1>1. Init => IInv
  BY TypeOKInit, ShownInvInit DEF IInv
<1>2. IInv /\ [Next]_vars => IInv'
  BY TypeOKStep, ShownInvStep DEF IInv
<1>3. IInv => ShownMatchesCommittedSound
  <2> SUFFICES ASSUME IInv, NEW f \in Fields, Type[f] \in SoundTypes,
                      Settled(f), local[f] # "txt_bad"
               PROVE  Shown(f, Denoted(f)) = Shown(f, form[f])
    BY DEF ShownMatchesCommittedSound, ShownMatchesCommittedFor
  <2>1. Type[f] \notin {"json", "select2step"} /\ ShownInvAt(f)
    BY SoundInputs DEF IInv, ShownInv
  <2>2. Denoted(f) = local[f]
    BY <2>1 DEF Denoted
  <2>3. QED
    BY <2>1, <2>2 DEF Settled, ShownInvAt, ShownAgrees
<1>4. QED
  BY <1>1, <1>2, <1>3, PTL DEF Spec
=============================================================================
