---------------------------- MODULE MCMediaJobs ----------------------------
EXTENDS MediaJobs, TLC

MCBackoff == <<1>>

=============================================================================
