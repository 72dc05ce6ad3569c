---------------------------- MODULE MCRemoteJobs ----------------------------
\* Symmetric instances of RemoteJobs.
EXTENDS RemoteJobs, TLC

Alike == Permutations(Pages)
=============================================================================
