SPECIFICATION Spec
INVARIANT SentIsWithDefaults
INVARIANT MissingDefaultCause
INVARIANT MalformedRequestCause
INVARIANT InfoUndecodableCause
CHECK_DEADLOCK FALSE
