---------------------------- MODULE MCCompassDriver ----------------------------
EXTENDS CompassDriver
=============================================================================
