---------------------------- MODULE MCHealthBoard ----------------------------
EXTENDS HealthBoard, TLC

CONSTANT p1
=============================================================================
