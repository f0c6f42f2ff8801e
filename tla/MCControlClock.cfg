SPECIFICATION FairSpec
CONSTANTS
    Messages <- ClockMessages
    MaxMessages = 3
    NPatches = 3
    NCmds = 1
INVARIANTS TypeOK PhaseInStep
PROPERTIES GenerationsGoOn SettingsTakeEffect QuitTerminates
