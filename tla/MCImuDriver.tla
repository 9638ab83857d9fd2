------------------------------ MODULE MCImuDriver ------------------------------
EXTENDS ImuDriver
=============================================================================
