----------------------------- MODULE MCPackages -----------------------------
EXTENDS Packages
=============================================================================
