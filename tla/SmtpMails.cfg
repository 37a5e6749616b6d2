SPECIFICATION Spec
CONSTANTS
    Keys = {media, roc, info}
    Muted = {info}
    WebKeys = {info, roc}
    LongKeys = {roc}
    Window = 1
    LongWindow = 2
    MaxEvents = 3
    MaxTime = 4
    MaxFaults = 1
INVARIANTS
    MailRepeatsJustified
    DuplicatesHaveMail
    OneMailPerWindow
PROPERTIES
    HealthyCycleIsComplete
    ImplementsChannel
