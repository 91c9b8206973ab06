---------------------------- MODULE MCNotification ----------------------------
EXTENDS Notification, TLC

CONSTANT i1

=============================================================================
