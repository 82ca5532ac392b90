--------------------------- MODULE MCDetectionRun ---------------------------
EXTENDS DetectionRun

\* Two events about one dropped file, and three processes of one image: one is
\* the file, its grandparent is the one another event names.
MCRow == {"drop", "use"}
MCProc == {"p", "between", "file"}
MCKey == {"dropped", "used", "ran", "logon"}
MCRule == {"r1", "r2", "r3", "own"}
MCRuleOf == [dropped |-> "r1", used |-> "r2", ran |-> "r2", logon |-> "r3", m |-> "own"]
MCEmits == [dropped |-> 1, used |-> 1, ran |-> 2, logon |-> 1]
MCLevel == [m |-> 3]
MCTrigger == [dropped |-> {"drop"}, used |-> {"use"}, ran |-> {"p"}, logon |-> {"use"}]
MCEntity == [dropped |-> "file", used |-> "file", ran |-> "exe", logon |-> "file"]
MCNamed == [drop |-> "file", use |-> "file", p |-> "exe", between |-> "host", file |-> "file"]
MCMentions == [drop |-> {"file"}, use |-> {"file", "exe"}]
MCChild == {<<"file", "between">>, <<"between", "p">>}
MCListing == {MCProc}
MCParsed == [drop |-> 0, use |-> 0]

\* RebuildForgets is claimed of such instances only.
ASSUME InstanceForgettable == Forgettable
=============================================================================
