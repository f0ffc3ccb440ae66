----------------------------- MODULE BranchSelect -----------------------------
(***************************************************************************)
(* What App.tsx and its abstract specification share: the branch names,   *)
(* the values the "branch" query parameter can take, the branch lists the  *)
(* branches atom can hold, and the branch the current-branch effect picks  *)
(* from a list.                                                            *)
(***************************************************************************)
EXTENDS Naturals, Sequences

CONSTANTS
    Branches,       \* branch names the server may know
    DefaultBranch,  \* the branch whose is_default flag is set
    BranchLists     \* the lists the branches atom may be given

\* useQueryParam(QSP.BRANCH, StringParam) yields undefined when the URL has
\* no branch parameter.
Undef == "undefined"

QspValues == Branches \cup {Undef}

ASSUME BranchAssumption ==
    /\ Undef \notin Branches
    /\ DefaultBranch \in Branches
    /\ BranchLists \subseteq Seq(Branches)

(***************************************************************************)
(* The filter of the current-branch effect: the branch named by the query  *)
(* parameter when there is one, the default branch otherwise.             *)
(***************************************************************************)
Selects(b, qsp) == IF qsp # Undef THEN b = qsp ELSE b = DefaultBranch

(***************************************************************************)
(* branches.find(filter): the first listed branch that passes, or         *)
(* undefined.  A branch is known by its name, so every branch that passes *)
(* the filter is the one it names.                                        *)
(***************************************************************************)
FindBranch(bs, qsp) ==
    IF \E i \in 1 .. Len(bs) : Selects(bs[i], qsp)
    THEN IF qsp # Undef THEN qsp ELSE DefaultBranch
    ELSE Undef
=============================================================================
