-------------------------- MODULE MCCaseAssistant ---------------------------
EXTENDS CaseAssistant

\* The second proposal rephrases the first; both are new to the detectors.
MCSame == {<<"a1", "a2">>, <<"a2", "a1">>}

\* An analysis beside the analyst, an analysis beside a socket that may
\* suppress, and two sockets that fill a chat.
MCLimits ==
  {[clients |-> {}, ids |-> 3, messages |-> 0, marked |-> {"m1", "a1"}, marks |-> 2],
   [clients |-> {"c1"}, ids |-> 2, messages |-> 0, marked |-> {}, marks |-> 1],
   [clients |-> {"c1", "c2"}, ids |-> 0, messages |-> 5, marked |-> {}, marks |-> 0]}
=============================================================================
