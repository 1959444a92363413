CONSTANTS
    Letters = {"a", "b"}
    FileUsers <- MCFileUsers
    MaxKeyLen = 5
    NoAuth = NoAuth
    URLs = {"css", "other"}
    CSSURLs = {"css"}
    ConfigIDs <- MCConfigIDs
SPECIFICATION Spec
INVARIANTS AuthenticateMatchesComment EssKeyIsItsNode
\* Start runs once; the authenticator has no other step.
CHECK_DEADLOCK FALSE
