CONSTANTS
    Threads = {t1}
    OsErrors = {"ND_TIMEOUT"}
    Privileges = {FALSE}
    Interfaces <- MCInterfaces
    Strings <- MCStrings
    MaxCreated = 1
    MaxSessions = 2
SPECIFICATION Spec
INVARIANTS
    ErrorOfLastCall
    AddressesSurvive
    OneConsumer
    ExternalNotAutoQueued
