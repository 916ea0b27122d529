---------------------------- MODULE MCInstaller ----------------------------
EXTENDS Installer, TLC

\* No profile is told from another.
MCSymmetry == Permutations(Profiles)
=============================================================================
