SPECIFICATION Spec
CONSTANTS
    User = {"ana", "bia"}
    Me = "ana"
    Link = {"l1", "l2", "l3"}
    MaxTokens = 2
    ShareStories <- MCLeaving
INVARIANT OneOwner
CHECK_DEADLOCK FALSE
