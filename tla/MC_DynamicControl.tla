-------------------------- MODULE MC_DynamicControl --------------------------
(***************************************************************************)
(* Model-checking instances of DynamicControl.  Attribute fields get their *)
(* control type from the field-kind resolver, the way the edit forms      *)
(* build descriptors from the schema; relationship fields are given their  *)
(* control type directly.                                                  *)
(***************************************************************************)
EXTENDS DynamicControl, FieldKind

\* An attribute form: an IPHost attribute and a Boolean attribute.
AttrKind == [f \in {"address", "enabled"} |->
                IF f = "address" THEN "IPHost" ELSE "Boolean"]
AttrFields == DOMAIN AttrKind
AttrType == [f \in AttrFields |->
                getFormInputControlTypeFromSchemaAttributeKind(AttrKind[f])]

\* A form of the two widgets with handlers of their own: a JSON attribute's
\* code editor and a relationship's two-step select.
MixedFields == {"config", "interface"}
MixedType == [f \in MixedFields |->
                IF f = "config" THEN "json" ELSE "select2step"]

\* An Integer attribute (a numeric control).
NumFields == {"mtu"}
NumType == [f \in NumFields |-> getFormInputControlTypeFromSchemaAttributeKind("Integer")]

\* A single two-step select of a relationship.
SelectFields == {"interface"}
SelectType == [f \in SelectFields |-> "select2step"]

\* A single Boolean attribute.
BoolFields == {"enabled"}
BoolType == [f \in BoolFields |-> getFormInputControlTypeFromSchemaAttributeKind("Boolean")]

MCParents == {"p1"}

\* The resolver that types the attribute fields above agrees with the table of
\* spec section 4.1 (proved for all kinds in FieldKind_proofs).
ASSUME ResolverAssumption == ResolverMatchesSpec
=============================================================================
