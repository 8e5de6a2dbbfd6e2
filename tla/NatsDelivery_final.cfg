SPECIFICATION Spec
CONSTANTS
    Unset = Unset
    Workers = {w1}
    Mortal = {}
    MaxDeliver = 2
    ProducerMaxDeliver = 2
    MaxRetries = {Unset}
    HandlerErrors = {"none", "fatal"}
    GuardErrors = {"plain", "limited"}
CHECK_DEADLOCK FALSE
INVARIANTS
    DeadLetterIsFinal
