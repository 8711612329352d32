\* One conversation with a model of a plain name and with one named by its ARN.
CONSTANTS
    Requests <- OneConversation
    Statuses = {200, 503}
    Credentials <- SomeCredentials
    Time <- Midnight
    Generations <- SmallGenerations
SPECIFICATION Spec
INVARIANTS
    AnyModelIsAccepted
