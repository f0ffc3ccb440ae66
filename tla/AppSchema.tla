------------------------------ MODULE AppSchema ------------------------------
(***************************************************************************)
(* The App component (src/frontend/src/App.tsx): the schema fetch started  *)
(* by an effect on every change of the "branch" query parameter, its       *)
(* answer or failure, and the effect that picks the current branch from   *)
(* the branches atom.  A fetch is identified by its place in the sequence  *)
(* of fetches started; its answer is reduced to the branch value it was   *)
(* started for (sorting the nodes and building the kind/name map do not  *)
(* change which branch the stored schema belongs to).                     *)
(***************************************************************************)
EXTENDS BranchSelect

CONSTANT MaxNav   \* how many times the query parameter may change

ASSUME NavAssumption == MaxNav \in Nat

VARIABLES
    qsp,        \* branchInQueryString
    branches,   \* the branches atom (set by the layout's branch query)
    navs,       \* number of query parameter changes so far (bounded)
    fetchDep,   \* deps of the fetch effect at its last run
    branchDep,  \* deps of the current-branch effect at its last run
    sent,       \* sent[i]: the parameter fetch i was started with
    inflight,   \* fetches whose promise has not settled
    failed,     \* fetches that ended in the catch block (toast shown)
    schema,     \* schemaState: NoSchema or the fetch whose answer is stored
    current     \* currentBranchAtom

vars == <<qsp, branches, navs, fetchDep, branchDep, sent, inflight, failed,
          schema, current>>

\* Effect deps before the first commit: both effects run on mount.
Never == "never"

\* schemaState before any answer (fetches are numbered from 1).
NoSchema == 0

BranchDeps == <<Len(branches), qsp>>

\* The branch whose schema CONFIG.SCHEMA_URL(q) asks for: the one named by
\* the parameter, the default branch when there is none.
ServedBranch(q) == IF q = Undef THEN DefaultBranch ELSE q

\* A commit happened whose effects have not run yet.
EffectsPending == fetchDep # qsp \/ branchDep # BranchDeps

Init ==
    /\ qsp \in QspValues
    /\ branches = <<>>
    /\ navs = 0
    /\ fetchDep = Never
    /\ branchDep = <<0, Never>>
    /\ sent = <<>>
    /\ inflight = {}
    /\ failed = {}
    /\ schema = NoSchema
    /\ current = Undef

(***************************************************************************)
(* The query parameter changes.  React flushes the passive effects of the *)
(* previous commit before it renders again, so no change is rendered      *)
(* while effects are pending.                                              *)
(***************************************************************************)
Navigate(b) ==
    /\ ~EffectsPending
    /\ navs < MaxNav
    /\ b # qsp
    /\ qsp' = b
    /\ navs' = navs + 1
    /\ UNCHANGED <<branches, fetchDep, branchDep, sent, inflight, failed,
                   schema, current>>

\* The branches atom is given a new list (App re-renders: it reads the atom).
LoadBranches(bs) ==
    /\ ~EffectsPending
    /\ bs # branches
    /\ branches' = bs
    /\ UNCHANGED <<qsp, navs, fetchDep, branchDep, sent, inflight, failed,
                   schema, current>>

\* Mutant: the fetch effect with an empty dependency list.
RunFetchEffectOnMount ==
    IF fetchDep = Never
    THEN /\ sent' = Append(sent, qsp)
         /\ inflight' = inflight \cup {Len(sent) + 1}
         /\ fetchDep' = qsp
    ELSE UNCHANGED <<sent, inflight, fetchDep>>

\* useEffect(() => { fetchAndSetSchema(); }, [branchInQueryString]): the
\* fetch is started with the parameter of this render and not awaited.
RunFetchEffect ==
    IF fetchDep # qsp
    THEN /\ sent' = Append(sent, qsp)
         /\ inflight' = inflight \cup {Len(sent) + 1}
         /\ fetchDep' = qsp
    ELSE UNCHANGED <<sent, inflight, fetchDep>>

\* useEffect(..., [branches.length, branchInQueryString]).
RunBranchEffect ==
    IF branchDep # BranchDeps
    THEN /\ current' = FindBranch(branches, qsp)
         /\ branchDep' = BranchDeps
    ELSE UNCHANGED <<current, branchDep>>

\* The passive effects of a commit, in source order.
Effects ==
    /\ EffectsPending
    /\ RunFetchEffect
    /\ RunBranchEffect
    /\ UNCHANGED <<qsp, branches, navs, failed, schema>>

\* Mutant: a catch block that also installs a (empty) schema for the
\* rejected fetch.
FetchFailsInstalls(i) ==
    /\ i \in inflight
    /\ inflight' = inflight \ {i}
    /\ failed' = failed \cup {i}
    /\ schema' = i
    /\ UNCHANGED <<qsp, branches, navs, fetchDep, branchDep, sent, current>>

\* fetchUrl resolves: setSchema, setGenerics, setSchemaKindNameState.
FetchSucceeds(i) ==
    /\ i \in inflight
    /\ inflight' = inflight \ {i}
    /\ schema' = i
    /\ UNCHANGED <<qsp, branches, navs, fetchDep, branchDep, sent, failed,
                   current>>

\* fetchUrl rejects: a toast, the error logged, the stores left as they are.
FetchFails(i) ==
    /\ i \in inflight
    /\ inflight' = inflight \ {i}
    /\ failed' = failed \cup {i}
    /\ UNCHANGED <<qsp, branches, navs, fetchDep, branchDep, sent, schema,
                   current>>

Next ==
    \/ \E b \in QspValues : Navigate(b)
    \/ \E bs \in BranchLists : LoadBranches(bs)
    \/ Effects
    \/ \E i \in inflight : FetchSucceeds(i) \/ FetchFails(i)

(***************************************************************************)
(* React runs the passive effects of every commit, and the browser settles *)
(* every fetch promise (with an answer or a network error); the user, the *)
(* router and the branch query are not obliged to do anything.            *)
(***************************************************************************)
Fairness ==
    /\ WF_vars(Effects)
    /\ \A i \in 1 .. MaxNav + 1 : WF_vars(FetchSucceeds(i) \/ FetchFails(i))

Spec == Init /\ [][Next]_vars /\ Fairness

(***************************************************************************)
(* Type invariant.  Besides the types it says that a fetch promise settles *)
(* once: a fetch is in flight, failed or answered, never two of these.   *)
(***************************************************************************)
TypeOK ==
    /\ qsp \in QspValues
    /\ branches \in BranchLists \cup {<<>>}
    /\ navs \in 0 .. MaxNav
    /\ fetchDep \in QspValues \cup {Never}
    /\ branchDep \in Nat \X (QspValues \cup {Never})
    /\ sent \in Seq(QspValues)
    /\ inflight \subseteq 1 .. Len(sent)
    /\ failed \subseteq (1 .. Len(sent)) \ inflight
    /\ schema \in {NoSchema} \cup ((1 .. Len(sent)) \ (inflight \cup failed))
    /\ current \in Branches \cup {Undef}

(***************************************************************************)
(* Schema follows the URL (spec: the schema is fetched per branch          *)
(* context): once the effects have run, no fetch is pending and the last   *)
(* one started did not fail, the stored schema is the one fetched for the *)
(* branch now in the query parameter (no parameter and the default       *)
(* branch's name ask for the same schema).  The effect of App.tsx starts a *)
(* fetch per parameter value and installs whichever answer comes last.   *)
(***************************************************************************)
SchemaMatchesUrl ==
    (/\ ~EffectsPending
     /\ inflight = {}
     /\ sent # <<>>
     /\ Len(sent) \notin failed)
    => schema # NoSchema /\ ServedBranch(sent[schema]) = ServedBranch(qsp)

(***************************************************************************)
(* Current branch follows the list: once the effects of the last commit   *)
(* have run, currentBranchAtom holds the branch the filter picks from the *)
(* branches atom and the query parameter as they are now.  The effect is  *)
(* keyed on branches.length, not on the list.                             *)
(***************************************************************************)
CurrentBranchMatches ==
    ~EffectsPending => current = FindBranch(branches, qsp)

(***************************************************************************)
(* Liveness: the fetches catch up with the URL.  Under the fairness of     *)
(* Spec, every behaviour reaches a point from which no schema fetch is     *)
(* pending and the last fetch started was for the branch in the query      *)
(* parameter: a change of the parameter always starts a fetch for it, and *)
(* every fetch settles.                                                    *)
(***************************************************************************)
FetchesCatchUp ==
    <>[](inflight = {} /\ sent # <<>> /\ sent[Len(sent)] = qsp)
=============================================================================
