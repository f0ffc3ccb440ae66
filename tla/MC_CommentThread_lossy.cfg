CONSTANTS
    CanWrite = FALSE
    LostReplies = TRUE
    MaxSubmits = 3
SPECIFICATION Spec
INVARIANT TypeOK
INVARIANT NoCommentStranded
PROPERTY CommentShownOrReported
