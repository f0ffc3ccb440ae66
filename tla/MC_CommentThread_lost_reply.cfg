CONSTANTS
    CanWrite = FALSE
    LostReplies = TRUE
    MaxSubmits = 3
SPECIFICATION Spec
PROPERTY CommentEventuallyShown
