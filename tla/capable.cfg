CONSTANTS
    c = c  s = s  k1 = k1  k2 = k2  n1 = n1  n2 = n2  t1 = t1  t2 = t2  t3 = t3  kp = kp  c2 = c2
    Zero = Zero  Unset = Unset  NoOut = NoOut  NoVar = NoVar
    HostLittleEndian = TRUE
    LiveHasOption = {TRUE, FALSE}  UnterminatedNames = FALSE
    Names <- MCNames
    Keys <- MCKeys
    Nonces <- MCNonces
    ToolPorts <- MCToolPorts
    KernelPorts <- MCKernelPorts
    Scripts <- CapableScripts
    Defs <- AllDefs
SPECIFICATION Spec
INVARIANT TypeOK
INVARIANT HandshakeKeysConsistent
PROPERTY KeySlotsImmutable
CHECK_DEADLOCK FALSE
