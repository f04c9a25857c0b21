------------------------------ MODULE MCWakes ------------------------------
EXTENDS Wakes

CONSTANTS j1, o1, o2

\* The run explores three boxes.  Everything a command can go through, while
\* one turn runs;
CommandsAtLength == Range(log) \subseteq Job /\ turn[2].at = "none"

\* the notice of a job in the background, over all turns and stops;
OneJob ==
    /\ Range(log) \subseteq Job
    /\ faults = {} /\ wait = {} /\ awaited = {} /\ signal = {}

\* two notices that come from no job, named in the order in which they are
\* stored, with one alone when the session is stopped, and no further than the
\* second turn that has nothing left to read.
TwoNotices ==
    /\ call[j1] = "none" /\ (stopRev = 0 \/ Len(log) < 2)
    /\ log # <<>> => log[1] = o1
    /\ turn[2].at \in {"none", "reserved"} \/ Len(log) < 2 \/ Pending # {}

Box == CommandsAtLength \/ OneJob \/ TwoNotices
=============================================================================
