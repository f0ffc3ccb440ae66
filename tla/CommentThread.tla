---------------------------- MODULE CommentThread ----------------------------
(***************************************************************************)
(* The comment thread of a proposed change                                 *)
(* (src/frontend/src/components/conversations/thread.tsx): the Reply      *)
(* button, the add-comment box, handleSubmit awaiting the createObject    *)
(* mutation, and the refetch of the thread after it.  A submitted comment *)
(* is named by its submission number; the server is the set of comments  *)
(* it has created, the thread the set the last refetch returned.          *)
(***************************************************************************)
EXTENDS Naturals

CONSTANTS
    CanWrite,     \* auth?.permissions?.write is truthy
    LostReplies,  \* a reply may be lost after the server created the comment
    MaxSubmits    \* bound on the comments submitted in one behaviour

ASSUME ThreadAssumption ==
    /\ CanWrite \in BOOLEAN
    /\ LostReplies \in BOOLEAN
    /\ MaxSubmits \in Nat

VARIABLES
    display,    \* displayAddComment
    isLoading,  \* isLoading, handed to AddComment
    submits,    \* comments submitted so far
    inflight,   \* submissions whose mutate() promise is awaited
    server,     \* comments the server has created
    refetches,  \* refetch() calls not answered yet
    shown,      \* comments of the thread prop
    errored     \* submissions the catch block showed the error toast for

vars == <<display, isLoading, submits, inflight, server, refetches, shown,
          errored>>

\* disabled={auth?.permissions?.write}, on the Reply button and on AddComment.
Disabled == CanWrite

Init ==
    /\ display = FALSE
    /\ isLoading = FALSE
    /\ submits = 0
    /\ inflight = {}
    /\ server = {}
    /\ refetches = 0
    /\ shown = {}
    /\ errored = {}

\* The Reply button: setDisplayAddComment(true).
OpenReply ==
    /\ ~display
    /\ ~Disabled
    /\ display' = TRUE
    /\ UNCHANGED <<isLoading, submits, inflight, server, refetches, shown,
                   errored>>

\* AddComment's onClose: setDisplayAddComment(false).
CloseReply ==
    /\ display
    /\ display' = FALSE
    /\ UNCHANGED <<isLoading, submits, inflight, server, refetches, shown,
                   errored>>

\* Mutant: an optimistic insert, the comment added to the thread as soon as
\* it is submitted.
SubmitOptimistic ==
    /\ display
    /\ ~Disabled
    /\ ~isLoading
    /\ submits < MaxSubmits
    /\ submits' = submits + 1
    /\ inflight' = inflight \cup {submits + 1}
    /\ shown' = shown \cup {submits + 1}
    /\ UNCHANGED <<display, isLoading, server, refetches, errored>>

(***************************************************************************)
(* AddComment calls handleSubmit with a comment (an empty one returns at  *)
(* the "if (!data)" guard and changes nothing).  handleSubmit builds the  *)
(* mutation and awaits graphqlClient.mutate; isLoading is not set.        *)
(***************************************************************************)
Submit ==
    /\ display
    /\ ~Disabled
    /\ ~isLoading
    /\ submits < MaxSubmits
    /\ submits' = submits + 1
    /\ inflight' = inflight \cup {submits + 1}
    /\ UNCHANGED <<display, isLoading, server, refetches, shown, errored>>

\* The server executes the createObject mutation of submission i.
ServerCreates(i) ==
    /\ i \in inflight \ server
    /\ server' = server \cup {i}
    /\ UNCHANGED <<display, isLoading, submits, inflight, refetches, shown,
                   errored>>

\* Mutant: the success path without the refetch() call.
MutationSucceedsNoRefetch(i) ==
    /\ i \in inflight \cap server
    /\ inflight' = inflight \ {i}
    /\ isLoading' = FALSE
    /\ UNCHANGED <<display, submits, server, refetches, shown, errored>>

\* mutate resolves: the success toast, refetch(), setIsLoading(false).
MutationSucceeds(i) ==
    /\ i \in inflight \cap server
    /\ inflight' = inflight \ {i}
    /\ refetches' = refetches + 1
    /\ isLoading' = FALSE
    /\ UNCHANGED <<display, submits, server, shown, errored>>

(***************************************************************************)
(* mutate rejects: the error toast for the submission and                 *)
(* setIsLoading(false), no refetch.                                        *)
(* It rejects before the server created the comment, or, when replies can *)
(* be lost, after it.                                                     *)
(***************************************************************************)
MutationFails(i) ==
    /\ i \in inflight
    /\ i \notin server \/ LostReplies
    /\ inflight' = inflight \ {i}
    /\ isLoading' = FALSE
    /\ errored' = errored \cup {i}
    /\ UNCHANGED <<display, submits, server, refetches, shown>>

\* Mutant: the refetch answered from the client cache, not the server.
RefetchAnsweredCached ==
    /\ refetches > 0
    /\ refetches' = refetches - 1
    /\ UNCHANGED <<display, isLoading, submits, inflight, server, shown, errored>>

\* A refetch of the thread query returns the comments the server holds.
RefetchAnswered ==
    /\ refetches > 0
    /\ refetches' = refetches - 1
    /\ shown' = server
    /\ UNCHANGED <<display, isLoading, submits, inflight, server, errored>>

Next ==
    \/ OpenReply
    \/ CloseReply
    \/ Submit
    \/ \E i \in inflight :
          ServerCreates(i) \/ MutationSucceeds(i) \/ MutationFails(i)
    \/ RefetchAnswered

(***************************************************************************)
(* Every mutation promise settles and every refetch is answered; the user *)
(* is not obliged to open the box, submit or close it.                    *)
(***************************************************************************)
Fairness ==
    /\ \A i \in 1 .. MaxSubmits :
          WF_vars(ServerCreates(i) \/ MutationSucceeds(i) \/ MutationFails(i))
    /\ WF_vars(RefetchAnswered)

Spec == Init /\ [][Next]_vars /\ Fairness

\* Type invariant.
TypeOK ==
    /\ display \in BOOLEAN
    /\ isLoading \in BOOLEAN
    /\ submits \in 0 .. MaxSubmits
    /\ inflight \subseteq 1 .. submits
    /\ server \subseteq 1 .. submits
    /\ refetches \in 0 .. submits
    /\ shown \subseteq server
    /\ errored \subseteq 1 .. submits

(***************************************************************************)
(* No comment is stranded silently: a comment the server created and the  *)
(* thread does not show yet still has its mutation awaited by             *)
(* handleSubmit, or a refetch() issued after it is pending (and a refetch *)
(* returns every comment the server holds), or the user was shown the     *)
(* error toast for it, the one way the catch block leaves it out (a reply *)
(* lost after the server created the comment).  Losing this needs a       *)
(* mutation that resolves after the server created its comment without    *)
(* the refetch() of the success path.                                      *)
(***************************************************************************)
NoCommentStranded ==
    \A i \in server \ shown : i \in inflight \/ refetches > 0 \/ i \in errored

(***************************************************************************)
(* Every comment the server creates eventually appears in the thread: the *)
(* success path of handleSubmit calls refetch() once the mutation has     *)
(* resolved, so the refetch sees the comment.  With LostReplies the       *)
(* mutation can reject after the comment was created, and the catch block *)
(* does not refetch.                                                       *)
(***************************************************************************)
CommentEventuallyShown ==
    \A i \in 1 .. MaxSubmits : (i \in server) ~> (i \in shown)

(***************************************************************************)
(* Every comment the server creates eventually appears in the thread or   *)
(* is reported to the user by the error toast of the catch block, also    *)
(* when a reply can be lost.  It rests on the refetch() of the success    *)
(* path returning the server's comments and on every promise settling.    *)
(* With reliable replies the catch block never fires for a created        *)
(* comment, and this is CommentEventuallyShown.                           *)
(***************************************************************************)
CommentShownOrReported ==
    \A i \in 1 .. MaxSubmits : (i \in server) ~> (i \in shown \/ i \in errored)

=============================================================================
