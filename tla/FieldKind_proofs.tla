---------------------------- MODULE FieldKind_proofs ----------------------------
(***************************************************************************)
(* The field-kind resolver computes the table of spec section 4.1.         *)
(***************************************************************************)
EXTENDS FieldKind, TLAPS

(***************************************************************************)
(* Theorem: getFormInputControlTypeFromSchemaAttributeKind returns the     *)
(* spec's control type for each of the twenty declared attribute kinds,    *)
(* and the text control for kinds the union does not declare.             *)
(***************************************************************************)
THEOREM ResolverCorrect == ResolverMatchesSpec
<1>1. \A k \in SchemaAttributeKinds :
         getFormInputControlTypeFromSchemaAttributeKind(k) = SpecControlType[k]
  BY DEF SchemaAttributeKinds, getFormInputControlTypeFromSchemaAttributeKind,
         SpecControlType, TextCaseKinds, NumberCaseKinds, CheckboxCaseKinds
<1>2. \A k \in UnlistedKinds :
         getFormInputControlTypeFromSchemaAttributeKind(k) = "text"
  BY DEF UnlistedKinds, getFormInputControlTypeFromSchemaAttributeKind,
         TextCaseKinds, NumberCaseKinds, CheckboxCaseKinds
<1>3. QED
  BY <1>1, <1>2 DEF ResolverMatchesSpec
=============================================================================
