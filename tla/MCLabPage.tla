----------------------------- MODULE MCLabPage -----------------------------
EXTENDS LabPage

MCKey == {"main.tf", "outputs.tf"}
MCCheckpoint == {"built"}
=============================================================================
