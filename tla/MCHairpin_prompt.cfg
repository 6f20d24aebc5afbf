SPECIFICATION FairSpec
CONSTANTS
    Timeout = 4
    Cap = 2
    Never <- MCNever
    CtxTimes <- MCCtxTimes
    None = None
PROPERTIES
    PromptAfterCancel
