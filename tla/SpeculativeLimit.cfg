CONSTANTS
    a = a  b = b  eos = eos  bos = bos
    Vocab = {a, b, eos}
    Eos = eos
    Prompt = bos
    Models <- ModelPairs
    K = 3
    MaxNew = 6
    Fallback = {TRUE, FALSE}
    MinRate <- Percent30
SPECIFICATION Spec
INVARIANT WithinLimit
\* The text is generated.
CHECK_DEADLOCK FALSE
