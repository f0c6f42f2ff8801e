SPECIFICATION Spec
CONSTANTS
    Messages <- MailMessages
    MaxMessages = 2
    NPatches = 3
    NCmds = 2
INVARIANTS ResetTaken PollTaken PatchAsAsked UndefinedExplained
