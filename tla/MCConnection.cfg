\* Two browsers, which ask two hosts and share two descriptors.
CONSTANTS
    Browsers = {b1, b2}
    Hosts = {h1, h2}
    Fds = {0, 1}
SPECIFICATION Spec
SYMMETRY Alike
CHECK_DEADLOCK FALSE
INVARIANTS
    ConnTypeOK
    OwnDescriptors
    RightPeerUnlessKept
