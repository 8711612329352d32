\* Every small request through every adapter.
CONSTANTS
    Requests <- SmallRequests
    Statuses = {200, 400, 429, 501, 503, 529}
    Credentials <- SomeCredentials
    Time <- Midnight
    Generations <- SmallGenerations
SPECIFICATION Spec
INVARIANTS
    SameConversation
    AnswersMeanTheSame
    SignatureIsAccepted
    
