------------------------------ MODULE MC_Namespace ------------------------------
EXTENDS Namespace

\* One challenge per transaction: enough for the credentials step and its
\* failure to happen inside every request.
MC_MaxChallenges == 1
=============================================================================
