----------------------------- MODULE MCResolver -----------------------------
EXTENDS Resolver

MCPackages == 1..3
MCVersions == 1..2
MCConstraints == {{1}, {1, 2}}
=============================================================================
