SPECIFICATION Spec
CONSTANTS
    None = None
    Handlers = {onValidation, timerEntry}
    Readers = {state}
PROPERTY AddReturns
CHECK_DEADLOCK FALSE
