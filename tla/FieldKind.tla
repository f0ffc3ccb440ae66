------------------------------ MODULE FieldKind ------------------------------
(***************************************************************************)
(* The field-kind resolver of the edit forms:                              *)
(* getFormInputControlTypeFromSchemaAttributeKind in                       *)
(* screens/edit-form-hook/dynamic-control-types.ts.  It maps the "kind" of *)
(* a schema attribute to the control type the dynamic form renders it      *)
(* with.  Kinds and control types are the string literals of the code.    *)
(***************************************************************************)

\* SchemaAttributeType: every kind the schema may declare for an attribute.
SchemaAttributeKinds ==
    {"ID", "Text", "Number", "TextArea", "DateTime", "Email", "Password",
     "URL", "File", "MacAddress", "Color", "Bandwidth", "IPHost",
     "IPNetwork", "Checkbox", "List", "Any", "String", "Integer", "Boolean"}

\* A kind the server may send that the TypeScript union does not list.
UnlistedKinds == {"Dropdown", "JSON"}

\* The three groups of "case" labels of the switch, in source order.
TextCaseKinds ==
    {"Text", "TextArea", "ID", "DateTime", "Email", "Password", "URL",
     "File", "MacAddress", "Color", "IPHost", "IPNetwork", "List", "Any",
     "String"}
NumberCaseKinds == {"Number", "Bandwidth", "Integer"}
CheckboxCaseKinds == {"Checkbox", "Boolean"}

\* Mutant: "Bandwidth" listed among the text kinds.
ResolveBandwidthAsText(kind) ==
    CASE kind \in TextCaseKinds \cup {"Bandwidth"} -> "text"
      [] kind \in NumberCaseKinds   -> "number"
      [] kind \in CheckboxCaseKinds -> "checkbox"
      [] OTHER                      -> "text"

getFormInputControlTypeFromSchemaAttributeKind(kind) ==
    CASE kind \in TextCaseKinds     -> "text"
      [] kind \in NumberCaseKinds   -> "number"
      [] kind \in CheckboxCaseKinds -> "checkbox"
      [] OTHER                      -> "text"

(***************************************************************************)
(* The reference: the table of spec section 4.1, written kind by kind.     *)
(* Text-like kinds give a text entry, numeric kinds a numeric entry,       *)
(* boolean kinds a checkbox, and anything else falls back to text.         *)
(***************************************************************************)
SpecControlType ==
    [k \in SchemaAttributeKinds |->
        IF k \in {"Number", "Bandwidth", "Integer"} THEN "number"
        ELSE IF k \in {"Checkbox", "Boolean"} THEN "checkbox"
        ELSE "text"]

(***************************************************************************)
(* Property: the resolver agrees with the spec's table on every declared   *)
(* kind, and falls back to the text control on kinds it does not list     *)
(* (the "default" branch of the switch).                                   *)
(***************************************************************************)
ResolverMatchesSpec ==
    /\ \A k \in SchemaAttributeKinds :
          getFormInputControlTypeFromSchemaAttributeKind(k) = SpecControlType[k]
    /\ \A k \in UnlistedKinds :
          getFormInputControlTypeFromSchemaAttributeKind(k) = "text"
=============================================================================
