SPECIFICATION LoaderSpec
CONSTANTS
    Base = 3
    WordBytes = 2
    FifoSize = 4
    Magic <- MCMagic
    Kernels <- MCKernels
    MaxFaults = 1
INVARIANTS NoOverrun StartsSentKernel
PROPERTIES CleanSendStarts
