------------------------------ MODULE FilesDiff ------------------------------
(***************************************************************************)
(* The files tab of a branch diff                                          *)
(* (src/frontend/src/screens/branches/diff/files-diff.tsx).  fetchFiles    *)
(* reads the branch name from the route and three filters from the query *)
(* string; a fetch input is the whole tuple, a member of Params.  Each    *)
(* mount of the component is an instance with its own state; a fetch     *)
(* answer only lands in the instance that started it while that instance *)
(* is mounted (a state update of an unmounted component is dropped).     *)
(***************************************************************************)
EXTENDS Naturals

CONSTANTS
    Params,     \* route branch name and filters, as one value
    NoBranch,   \* a route without a branch name
    MaxMounts,  \* bound on the mounts of the component
    MaxChanges  \* bound on the changes of the route or query string

ASSUME FilesDiffAssumption ==
    /\ NoBranch \notin Params
    /\ MaxMounts \in Nat
    /\ MaxChanges \in Nat

\* useState({}): no diff stored.
Empty == "empty"

VARIABLES
    params,     \* branchname, branchOnly, timeFrom, timeTo of the render
    mounted,    \* the component is mounted
    instance,   \* number of mounts so far: the mounted instance's id
    changes,    \* number of route or query string changes (bounded)
    inflight,   \* fetches started and not settled: [inst, params]
    isLoading,  \* isLoading of the mounted instance
    filesDiff   \* filesDiff of the mounted instance: Empty or a fetch input

vars == <<params, mounted, instance, changes, inflight, isLoading, filesDiff>>

Requests == [inst : 1 .. MaxMounts, params : Params]

Init ==
    /\ params \in Params \cup {NoBranch}
    /\ mounted = FALSE
    /\ instance = 0
    /\ changes = 0
    /\ inflight = {}
    /\ isLoading = FALSE
    /\ filesDiff = Empty

(***************************************************************************)
(* A mount: fresh state, then the mount effect calls setFilesInState,     *)
(* which runs the fetchFiles of this first render.  Without a branch name *)
(* it returns at once; otherwise it sets isLoading and starts the fetch.  *)
(***************************************************************************)
Mount ==
    /\ ~mounted
    /\ instance < MaxMounts
    /\ mounted' = TRUE
    /\ instance' = instance + 1
    /\ filesDiff' = Empty
    /\ IF params = NoBranch
       THEN /\ isLoading' = FALSE
            /\ UNCHANGED inflight
       ELSE /\ isLoading' = TRUE
            /\ inflight' = inflight \cup {[inst |-> instance + 1, params |-> params]}
    /\ UNCHANGED <<params, changes>>

Unmount ==
    /\ mounted
    /\ mounted' = FALSE
    /\ UNCHANGED <<params, instance, changes, inflight, isLoading, filesDiff>>

(***************************************************************************)
(* The route or the filters change.  A mounted instance re-renders and     *)
(* builds a new fetchFiles, but setFilesInState keeps the first one and    *)
(* the effect has no dependencies: nothing is fetched.                    *)
(***************************************************************************)
ChangeParams(p) ==
    /\ changes < MaxChanges
    /\ p # params
    /\ params' = p
    /\ changes' = changes + 1
    /\ UNCHANGED <<mounted, instance, inflight, isLoading, filesDiff>>

\* The fetch was started by the instance now mounted.
Current(r) == mounted /\ r.inst = instance

\* Mutant: setFilesDiff(filesResult[branchname]) without its guard.
FetchAnsweredUnguarded(r, hasEntry) ==
    /\ r \in inflight
    /\ inflight' = inflight \ {r}
    /\ IF Current(r)
       THEN /\ filesDiff' = IF hasEntry THEN r.params ELSE "undefined"
            /\ isLoading' = FALSE
       ELSE UNCHANGED <<filesDiff, isLoading>>
    /\ UNCHANGED <<params, mounted, instance, changes>>

\* fetchUrl resolves; the diff is stored when the answer has the branch.
FetchAnswered(r, hasEntry) ==
    /\ r \in inflight
    /\ inflight' = inflight \ {r}
    /\ IF Current(r)
       THEN /\ filesDiff' = IF hasEntry THEN r.params ELSE filesDiff
            /\ isLoading' = FALSE
       ELSE UNCHANGED <<filesDiff, isLoading>>
    /\ UNCHANGED <<params, mounted, instance, changes>>

\* Mutant: setIsLoading(false) inside the try block, after the store.
FetchFailsKeepLoading(r) ==
    /\ r \in inflight
    /\ inflight' = inflight \ {r}
    /\ UNCHANGED <<params, mounted, instance, changes, isLoading, filesDiff>>

\* fetchUrl rejects: a toast, then setIsLoading(false) after the catch.
FetchFails(r) ==
    /\ r \in inflight
    /\ inflight' = inflight \ {r}
    /\ isLoading' = IF Current(r) THEN FALSE ELSE isLoading
    /\ UNCHANGED <<params, mounted, instance, changes, filesDiff>>

Next ==
    \/ Mount
    \/ Unmount
    \/ \E p \in Params \cup {NoBranch} : ChangeParams(p)
    \/ \E r \in inflight :
          \/ \E hasEntry \in BOOLEAN : FetchAnswered(r, hasEntry)
          \/ FetchFails(r)

\* Every fetch promise settles; the user and the router owe nothing.
Fairness ==
    \A r \in Requests :
        WF_vars(FetchFails(r) \/ \E hasEntry \in BOOLEAN : FetchAnswered(r, hasEntry))

Spec == Init /\ [][Next]_vars /\ Fairness

\* Type invariant.
TypeOK ==
    /\ params \in Params \cup {NoBranch}
    /\ mounted \in BOOLEAN
    /\ instance \in 0 .. MaxMounts
    /\ changes \in 0 .. MaxChanges
    /\ inflight \subseteq Requests
    /\ isLoading \in BOOLEAN
    /\ filesDiff \in Params \cup {Empty}

(***************************************************************************)
(* The loading screen always has a fetch behind it: while the mounted      *)
(* instance shows its loading screen, a fetch that instance started is     *)
(* still unsettled.  An answer or failure of an earlier instance's fetch   *)
(* must not be the one that clears it, and a failure must clear it.        *)
(***************************************************************************)
LoadingHasFetch ==
    (mounted /\ isLoading) => \E r \in inflight : Current(r)

(***************************************************************************)
(* The loading screen goes away: whenever the mounted instance shows its  *)
(* loading screen, it eventually stops (or is unmounted), whether the      *)
(* fetch answers, answers without the branch, or fails.                    *)
(***************************************************************************)
LoadingEnds == (mounted /\ isLoading) ~> ~(mounted /\ isLoading)

(***************************************************************************)
(* The diff shown is the diff of the branch and filters in the URL: when  *)
(* the mounted instance is not loading and shows a diff, that diff was     *)
(* fetched for the route and query string it renders with.                *)
(***************************************************************************)
DiffMatchesParams ==
    (mounted /\ ~isLoading /\ filesDiff # Empty) => filesDiff = params
=============================================================================
