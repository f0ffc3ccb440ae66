--------------------------- MODULE FilesDiff_proofs ---------------------------
(***************************************************************************)
(* Proofs about the files tab of a branch diff, for every set of fetch    *)
(* inputs and every bound on mounts and changes: the type invariant, and  *)
(* that the loading screen of the mounted instance always has a fetch of  *)
(* that instance behind it.                                                *)
(***************************************************************************)
EXTENDS FilesDiff, TLAPS

(***************************************************************************)
(* The request a mount starts is a request of the new instance.            *)
(***************************************************************************)
LEMMA MountRequest ==
    ASSUME TypeOK, instance < MaxMounts, params # NoBranch
    PROVE  [inst |-> instance + 1, params |-> params] \in Requests
BY FilesDiffAssumption DEF TypeOK, Requests

LEMMA TypeOKInit == Init => TypeOK
<1>1. Init => mounted \in BOOLEAN /\ isLoading \in BOOLEAN
  BY Zenon DEF Init
<1>2. Init => /\ params \in Params \cup {NoBranch}
              /\ instance \in 0 .. MaxMounts
              /\ changes \in 0 .. MaxChanges
              /\ inflight \subseteq Requests
              /\ filesDiff \in Params \cup {Empty}
  BY FilesDiffAssumption DEF Init
<1>3. QED
  BY <1>1, <1>2, Zenon DEF TypeOK

LEMMA TypeOKStep == TypeOK /\ [Next]_vars => TypeOK'
<1> SUFFICES ASSUME TypeOK, [Next]_vars PROVE TypeOK'
  OBVIOUS
<1>1. CASE Mount
  <2>1. mounted' \in BOOLEAN /\ isLoading' \in BOOLEAN
    BY <1>1, Zenon DEF Mount
  <2>2. inflight' \subseteq Requests
    BY <1>1, MountRequest DEF Mount, TypeOK
  <2>3. /\ params' \in Params \cup {NoBranch}
        /\ instance' \in 0 .. MaxMounts
        /\ changes' \in 0 .. MaxChanges
        /\ filesDiff' \in Params \cup {Empty}
    BY <1>1, FilesDiffAssumption DEF Mount, TypeOK
  <2>4. QED
    BY <2>1, <2>2, <2>3, Zenon DEF TypeOK
<1>2. CASE Unmount
  BY <1>2 DEF Unmount, TypeOK
<1>3. ASSUME NEW p \in Params \cup {NoBranch}, ChangeParams(p) PROVE TypeOK'
  BY <1>3, FilesDiffAssumption DEF ChangeParams, TypeOK
<1>4. ASSUME NEW r \in inflight, NEW hasEntry \in BOOLEAN,
             FetchAnswered(r, hasEntry)
      PROVE  TypeOK'
  <2>1. r.params \in Params
    BY DEF TypeOK, Requests
  <2>2. mounted' \in BOOLEAN /\ isLoading' \in BOOLEAN
    BY <1>4, Zenon DEF FetchAnswered, TypeOK
  <2>3. /\ params' \in Params \cup {NoBranch}
        /\ instance' \in 0 .. MaxMounts
        /\ changes' \in 0 .. MaxChanges
        /\ inflight' \subseteq Requests
        /\ filesDiff' \in Params \cup {Empty}
    BY <1>4, <2>1 DEF FetchAnswered, TypeOK
  <2>4. QED
    BY <2>2, <2>3, Zenon DEF TypeOK
<1>5. ASSUME NEW r \in inflight, FetchFails(r) PROVE TypeOK'
  <2>1. mounted' \in BOOLEAN /\ isLoading' \in BOOLEAN
    BY <1>5, Zenon DEF FetchFails, TypeOK
  <2>2. /\ params' \in Params \cup {NoBranch}
        /\ instance' \in 0 .. MaxMounts
        /\ changes' \in 0 .. MaxChanges
        /\ inflight' \subseteq Requests
        /\ filesDiff' \in Params \cup {Empty}
    BY <1>5 DEF FetchFails, TypeOK
  <2>3. QED
    BY <2>1, <2>2, Zenon DEF TypeOK
<1>6. CASE UNCHANGED vars
  BY <1>6 DEF vars, TypeOK
<1>7. QED
  BY <1>1, <1>2, <1>3, <1>4, <1>5, <1>6 DEF Next

(***************************************************************************)
(* Theorem (type correctness of the files diff): the instance count and   *)
(* the change count stay within their bounds, every unsettled fetch was   *)
(* started by some instance for some branch and filters, and the stored   *)
(* diff is empty or the answer for a branch and filters.                  *)
(***************************************************************************)
THEOREM TypeCorrect == Spec => []TypeOK
BY TypeOKInit, TypeOKStep, PTL DEF Spec

(***************************************************************************)
(* LoadingHasFetch is inductive given TypeOK.  A mount sets isLoading only *)
(* together with a request of the new instance; a fetch that settles      *)
(* either belongs to the mounted instance, and then clears isLoading, or  *)
(* belongs to an earlier one and is not the request that keeps the        *)
(* loading screen justified.                                               *)
(***************************************************************************)
LEMMA LoadingInit == Init => LoadingHasFetch
BY DEF Init, LoadingHasFetch

LEMMA LoadingStep ==
    TypeOK /\ LoadingHasFetch /\ [Next]_vars => LoadingHasFetch'
<1> SUFFICES ASSUME TypeOK, LoadingHasFetch, [Next]_vars,
                    mounted', isLoading'
             PROVE  \E r \in inflight' : Current(r)'
  BY DEF LoadingHasFetch
<1>1. CASE Mount
  <2>1. params # NoBranch
    BY <1>1 DEF Mount
  <2> DEFINE new == [inst |-> instance + 1, params |-> params]
  <2>2. new \in inflight' /\ mounted' /\ new.inst = instance'
    BY <1>1, <2>1 DEF Mount
  <2>3. QED
    BY <2>2 DEF Current
<1>2. CASE Unmount
  BY <1>2 DEF Unmount
<1>3. ASSUME NEW p \in Params \cup {NoBranch}, ChangeParams(p)
      PROVE  \E r \in inflight' : Current(r)'
  BY <1>3 DEF ChangeParams, LoadingHasFetch, Current
<1>4. ASSUME NEW r \in inflight,
             \/ \E hasEntry \in BOOLEAN : FetchAnswered(r, hasEntry)
             \/ FetchFails(r)
      PROVE  \E s \in inflight' : Current(s)'
  <2>1. /\ inflight' = inflight \ {r}
        /\ UNCHANGED <<mounted, instance>>
    BY <1>4 DEF FetchAnswered, FetchFails
  <2>2. ~Current(r)
    BY <1>4 DEF FetchAnswered, FetchFails
  <2>3. mounted /\ isLoading
    BY <1>4, <2>2 DEF FetchAnswered, FetchFails
  <2>4. PICK s \in inflight : Current(s)
    BY <2>3 DEF LoadingHasFetch
  <2>5. s # r
    BY <2>2, <2>4
  <2>6. QED
    BY <2>1, <2>4, <2>5 DEF Current
<1>5. CASE UNCHANGED vars
  BY <1>5 DEF vars, LoadingHasFetch, Current
<1>6. QED
  BY <1>1, <1>2, <1>3, <1>4, <1>5 DEF Next

(***************************************************************************)
(* Theorem: in every reachable state, while the mounted instance shows    *)
(* its loading screen, a fetch that instance started is still unsettled,  *)
(* for every set of fetch inputs and every bound on mounts and changes.   *)
(* With this, LoadingEnds rests on the fairness of that fetch alone (a    *)
(* liveness property TLC checks).                                          *)
(***************************************************************************)
THEOREM LoadingCorrect == Spec => []LoadingHasFetch
<1>1. Init => TypeOK /\ LoadingHasFetch
  BY TypeOKInit, LoadingInit
<1>2. TypeOK /\ LoadingHasFetch /\ [Next]_vars => LoadingHasFetch'
  BY LoadingStep
<1>3. Spec => []TypeOK
  BY TypeCorrect
<1>4. QED
  BY <1>1, <1>2, <1>3, PTL DEF Spec
=============================================================================
