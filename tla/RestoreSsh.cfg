SPECIFICATION FairSpec
CONSTANTS
    Attempts = 2
    Runs = 3
    Cuts = 1
INVARIANT RebootOverStock
PROPERTIES RecoveryIsOneShot BootloaderLast FallbackBeforeWrite NoWriteAfterUnknown WizardReturns
CHECK_DEADLOCK FALSE
