--------------------------- MODULE AppSchema_proofs ---------------------------
(***************************************************************************)
(* Proofs about AppSchema, for every set of branches, every set of branch *)
(* lists and every bound on navigation.                                    *)
(***************************************************************************)
EXTENDS AppSchema, SequenceTheorems, TLAPS

(***************************************************************************)
(* The branch the current-branch effect picks from a list of branches is  *)
(* one of its branches or undefined.                                       *)
(***************************************************************************)
LEMMA FindBranchType ==
    ASSUME NEW bs \in Seq(Branches), NEW q \in QspValues
    PROVE  FindBranch(bs, q) \in Branches \cup {Undef}
BY BranchAssumption DEF FindBranch, QspValues

(***************************************************************************)
(* Appending x to a sequence adds x to the set of its elements, and keeps *)
(* the element at every earlier position.                                  *)
(***************************************************************************)
LEMMA AppendElements ==
    ASSUME NEW S, NEW s \in Seq(S), NEW x \in S
    PROVE  /\ Append(s, x) \in Seq(S)
           /\ Len(Append(s, x)) = Len(s) + 1
           /\ \A i \in 1 .. Len(s) : Append(s, x)[i] = s[i]
           /\ {Append(s, x)[i] : i \in 1 .. Len(s) + 1}
                 = {s[i] : i \in 1 .. Len(s)} \cup {x}
<1>1. /\ Append(s, x) \in Seq(S)
      /\ Len(Append(s, x)) = Len(s) + 1
      /\ \A i \in 1 .. Len(s) : Append(s, x)[i] = s[i]
      /\ Append(s, x)[Len(s) + 1] = x
  BY AppendProperties
<1>2. Len(s) \in Nat
  BY LenProperties
<1>3. 1 .. Len(s) + 1 = (1 .. Len(s)) \cup {Len(s) + 1}
  BY <1>2
<1>4. {Append(s, x)[i] : i \in 1 .. Len(s) + 1}
         = {s[i] : i \in 1 .. Len(s)} \cup {x}
  BY <1>1, <1>3
<1>5. QED
  BY <1>1, <1>4

LEMMA TypeOKInit == Init => TypeOK
BY BranchAssumption, NavAssumption DEF Init, TypeOK, QspValues, NoSchema

LEMMA TypeOKStep == TypeOK /\ [Next]_vars => TypeOK'
<1> SUFFICES ASSUME TypeOK, [Next]_vars PROVE TypeOK'
  OBVIOUS
<1> USE DEF TypeOK
<1>1. ASSUME NEW b \in QspValues, Navigate(b) PROVE TypeOK'
  BY <1>1, NavAssumption DEF Navigate
<1>2. ASSUME NEW bs \in BranchLists, LoadBranches(bs) PROVE TypeOK'
  BY <1>2 DEF LoadBranches
<1>3. ASSUME Effects PROVE TypeOK'
  <2>1. /\ sent' \in Seq(QspValues)
        /\ inflight' \subseteq 1 .. Len(sent')
        /\ failed' \subseteq (1 .. Len(sent')) \ inflight'
        /\ schema' \in {NoSchema} \cup ((1 .. Len(sent')) \ (inflight' \cup failed'))
        /\ fetchDep' \in QspValues \cup {Never}
    <3>1. CASE fetchDep # qsp
      <4>1. /\ sent' = Append(sent, qsp)
            /\ inflight' = inflight \cup {Len(sent) + 1}
            /\ fetchDep' = qsp
            /\ failed' = failed /\ schema' = schema
        BY <1>3, <3>1 DEF Effects, RunFetchEffect
      <4>2. /\ Append(sent, qsp) \in Seq(QspValues)
            /\ Len(Append(sent, qsp)) = Len(sent) + 1
        BY AppendElements
      <4>3. sent' \in Seq(QspValues) /\ fetchDep' \in QspValues \cup {Never}
        BY <4>1, <4>2
      <4>4. inflight' \subseteq 1 .. Len(sent')
        <5>1. Len(sent) \in Nat /\ inflight \subseteq 1 .. Len(sent)
          BY LenProperties
        <5>2. Len(sent') = Len(sent) + 1
          BY <4>1, <4>2
        <5>3. \A k \in inflight' : k \in 1 .. Len(sent) + 1
          BY <4>1, <5>1
        <5>4. QED
          BY <5>2, <5>3
      <4>5. failed' \subseteq (1 .. Len(sent')) \ inflight'
        BY <4>1, <4>2
      <4>6. schema' \in {NoSchema} \cup ((1 .. Len(sent')) \ (inflight' \cup failed'))
        BY <4>1, <4>2 DEF NoSchema
      <4>7. QED
        BY <4>3, <4>4, <4>5, <4>6
    <3>2. CASE fetchDep = qsp
      BY <1>3, <3>2 DEF Effects, RunFetchEffect
    <3>3. QED
      BY <3>1, <3>2
  <2>2. /\ current' \in Branches \cup {Undef}
        /\ branchDep' \in Nat \X (QspValues \cup {Never})
    <3>1. branches \in Seq(Branches)
      BY BranchAssumption, EmptySeq
    <3>2. FindBranch(branches, qsp) \in Branches \cup {Undef}
      BY <3>1, FindBranchType, <1>3 DEF Effects
    <3>3. QED
      BY <1>3, <3>1, <3>2 DEF Effects, RunBranchEffect, BranchDeps
  <2>3. QED
    BY <1>3, <2>1, <2>2 DEF Effects
<1>4. ASSUME NEW i \in inflight, FetchSucceeds(i) PROVE TypeOK'
  BY <1>4 DEF FetchSucceeds
<1>5. ASSUME NEW i \in inflight, FetchFails(i) PROVE TypeOK'
  BY <1>5 DEF FetchFails, NoSchema
<1>6. CASE UNCHANGED vars
  BY <1>6 DEF vars
<1>7. QED
  BY <1>1, <1>2, <1>3, <1>4, <1>5, <1>6 DEF Next

(***************************************************************************)
(* Theorem (type correctness of App): every fetch is in flight, failed or *)
(* answered, never two of these, and the stored schema is the answer of a *)
(* fetch that succeeded.                                                   *)
(***************************************************************************)
THEOREM TypeCorrect == Spec => []TypeOK
BY TypeOKInit, TypeOKStep, PTL DEF Spec
=============================================================================
