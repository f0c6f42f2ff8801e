SPECIFICATION Spec
CONSTANTS
    Messages <- MailMessages
    MaxMessages = 1
    NPatches = 3
    NCmds = 2
INVARIANTS RequestWithdrawnWasServed
