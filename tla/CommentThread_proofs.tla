------------------------- MODULE CommentThread_proofs -------------------------
(***************************************************************************)
(* Proofs about the comment thread, for every bound on submissions, every  *)
(* permission and whether or not replies are lost: the type invariant,    *)
(* and that no comment the server created is left out of the thread       *)
(* without the user having been shown an error for it.                    *)
(***************************************************************************)
EXTENDS CommentThread, FiniteSets, FiniteSetTheorems, TLAPS

(***************************************************************************)
(* The strengthening TypeOK needs.  Every refetch still owed was issued   *)
(* by a mutation that has left the awaited set, so the refetches owed and *)
(* the mutations awaited together never outnumber the submissions.  It is *)
(* what bounds refetches by submits across MutationSucceeds.              *)
(***************************************************************************)
Counted == refetches + Cardinality(inflight) <= submits

CInv == TypeOK /\ Counted

\* The awaited mutations form a finite set.
LEMMA InflightFinite ==
    ASSUME TypeOK
    PROVE  /\ IsFiniteSet(inflight)
           /\ Cardinality(inflight) \in Nat
<1>1. IsFiniteSet(1 .. submits)
  BY FS_Interval DEF TypeOK
<1>2. IsFiniteSet(inflight)
  BY <1>1, FS_Subset DEF TypeOK
<1>3. QED
  BY <1>2, FS_CardinalityType

LEMMA CInvInit == Init => CInv
<1>1. Init => Cardinality(inflight) = 0
  BY FS_EmptySet DEF Init
<1>2. Init => TypeOK
  <2>1. Init => display \in BOOLEAN /\ isLoading \in BOOLEAN
    BY Zenon DEF Init
  <2>2. Init => /\ submits \in 0 .. MaxSubmits
                /\ inflight \subseteq 1 .. submits
                /\ server \subseteq 1 .. submits
                /\ refetches \in 0 .. submits
                /\ shown \subseteq server
                /\ errored \subseteq 1 .. submits
    BY ThreadAssumption DEF Init
  <2>3. QED
    BY <2>1, <2>2, Zenon DEF TypeOK
<1>3. QED
  BY <1>1, <1>2 DEF Init, CInv, Counted

LEMMA CInvStep == CInv /\ [Next]_vars => CInv'
<1> SUFFICES ASSUME TypeOK, Counted, [Next]_vars PROVE CInv'
  BY DEF CInv
<1>0. IsFiniteSet(inflight) /\ Cardinality(inflight) \in Nat
  BY InflightFinite
<1>1. CASE OpenReply \/ CloseReply
  BY <1>1 DEF OpenReply, CloseReply, CInv, TypeOK, Counted
<1>2. CASE Submit
  <2>1. submits + 1 \notin inflight
    BY DEF TypeOK
  <2>2. Cardinality(inflight') = Cardinality(inflight) + 1
    BY <1>0, <1>2, <2>1, FS_AddElement DEF Submit
  <2>3. TypeOK'
    BY <1>2, ThreadAssumption DEF Submit, TypeOK
  <2>4. Counted'
    BY <1>0, <1>2, <2>2 DEF Submit, Counted, TypeOK
  <2>5. QED
    BY <2>3, <2>4 DEF CInv
<1>3. ASSUME NEW i \in inflight, ServerCreates(i) PROVE CInv'
  BY <1>3 DEF ServerCreates, CInv, TypeOK, Counted
<1>4. ASSUME NEW i \in inflight, MutationSucceeds(i) PROVE CInv'
  <2>1. Cardinality(inflight') = Cardinality(inflight) - 1
    BY <1>0, <1>4, FS_RemoveElement DEF MutationSucceeds
  <2>2. Cardinality(inflight') \in Nat
    BY <1>0, <1>4, FS_RemoveElement, FS_CardinalityType DEF MutationSucceeds
  <2>3. Counted'
    BY <1>0, <1>4, <2>1, <2>2 DEF MutationSucceeds, Counted, TypeOK
  <2>4. refetches' \in 0 .. submits'
    BY <1>0, <1>4, <2>2, <2>3 DEF MutationSucceeds, Counted, TypeOK
  <2>5. TypeOK'
    BY <1>4, <2>4 DEF MutationSucceeds, TypeOK
  <2>6. QED
    BY <2>3, <2>5 DEF CInv
<1>5. ASSUME NEW i \in inflight, MutationFails(i) PROVE CInv'
  <2>1. Cardinality(inflight') = Cardinality(inflight) - 1
    BY <1>0, <1>5, FS_RemoveElement DEF MutationFails
  <2>2. Counted'
    BY <1>0, <1>5, <2>1 DEF MutationFails, Counted, TypeOK
  <2>3. TypeOK'
    BY <1>5 DEF MutationFails, TypeOK
  <2>4. QED
    BY <2>2, <2>3 DEF CInv
<1>6. CASE RefetchAnswered
  BY <1>0, <1>6 DEF RefetchAnswered, CInv, TypeOK, Counted
<1>7. CASE UNCHANGED vars
  BY <1>7 DEF vars, CInv, TypeOK, Counted
<1>8. QED
  BY <1>1, <1>2, <1>3, <1>4, <1>5, <1>6, <1>7 DEF Next

(***************************************************************************)
(* Theorem (type correctness of the thread): submissions stay within the  *)
(* bound, every awaited or created comment is one that was submitted, the *)
(* refetches owed never outnumber the submissions, and the thread only    *)
(* shows comments the server holds.                                       *)
(***************************************************************************)
THEOREM TypeCorrect == Spec => []TypeOK
<1>1. Init => CInv
  BY CInvInit
<1>2. CInv /\ [Next]_vars => CInv'
  BY CInvStep
<1>3. CInv => TypeOK
  BY DEF CInv
<1>4. QED
  BY <1>1, <1>2, <1>3, PTL DEF Spec

(***************************************************************************)
(* NoCommentStranded is inductive given TypeOK: a created comment leaves  *)
(* the awaited set either through the success path, which owes a refetch, *)
(* or through the catch block, which shows the error toast for it; and a  *)
(* refetch answer shows every comment the server holds.                    *)
(***************************************************************************)
LEMMA StrandedInit == Init => NoCommentStranded
BY DEF Init, NoCommentStranded

LEMMA StrandedStep ==
    TypeOK /\ NoCommentStranded /\ [Next]_vars => NoCommentStranded'
<1> SUFFICES ASSUME TypeOK, NoCommentStranded, [Next]_vars,
                    NEW j \in server' \ shown'
             PROVE  j \in inflight' \/ refetches' > 0 \/ j \in errored'
  BY DEF NoCommentStranded
<1>1. CASE OpenReply \/ CloseReply \/ Submit
  BY <1>1 DEF OpenReply, CloseReply, Submit, NoCommentStranded
<1>2. ASSUME NEW i \in inflight, ServerCreates(i)
      PROVE  j \in inflight' \/ refetches' > 0 \/ j \in errored'
  BY <1>2 DEF ServerCreates, NoCommentStranded
<1>3. ASSUME NEW i \in inflight, MutationSucceeds(i)
      PROVE  j \in inflight' \/ refetches' > 0 \/ j \in errored'
  BY <1>3 DEF MutationSucceeds, TypeOK
<1>4. ASSUME NEW i \in inflight, MutationFails(i)
      PROVE  j \in inflight' \/ refetches' > 0 \/ j \in errored'
  <2>1. CASE j = i
    BY <1>4, <2>1 DEF MutationFails
  <2>2. CASE j # i
    BY <1>4, <2>2 DEF MutationFails, NoCommentStranded
  <2>3. QED
    BY <2>1, <2>2
<1>5. CASE RefetchAnswered
  BY <1>5 DEF RefetchAnswered
<1>6. CASE UNCHANGED vars
  BY <1>6 DEF vars, NoCommentStranded
<1>7. QED
  BY <1>1, <1>2, <1>3, <1>4, <1>5, <1>6 DEF Next

(***************************************************************************)
(* Theorem: for every bound on submissions, and whether or not a reply    *)
(* can be lost, every comment the server created and the thread does not  *)
(* show has its mutation still awaited by handleSubmit, a refetch pending, *)
(* or the error toast of the catch block shown for it.  With lost replies *)
(* the last case is reachable and the comment then never appears (the     *)
(* ct_lost_reply run).                                                     *)
(***************************************************************************)
THEOREM StrandedCorrect == Spec => []NoCommentStranded
<1>1. Init => TypeOK /\ NoCommentStranded
  BY CInvInit, StrandedInit DEF CInv
<1>2. TypeOK /\ NoCommentStranded /\ [Next]_vars => NoCommentStranded'
  BY StrandedStep
<1>3. Spec => []TypeOK
  BY TypeCorrect
<1>4. QED
  BY <1>1, <1>2, <1>3, PTL DEF Spec
=============================================================================
