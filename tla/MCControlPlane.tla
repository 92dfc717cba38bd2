--------------------------- MODULE MCControlPlane ---------------------------
EXTENDS ControlPlane, TLC

Symmetric ==
    Permutations(SandboxID \ (Orphans \union MissingImages))
        \union Permutations(Key) \union Permutations(Client)
        \union Permutations(ContainerID)
=============================================================================
