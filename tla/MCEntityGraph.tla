----------------------------- MODULE MCEntityGraph -----------------------------
(* A program in two directories under one name, a second program, a visitor of *)
(* a web service and a service of a memory image; findings of detectors, two   *)
(* of them on one event, and two findings of the analyst.                      *)
EXTENDS EntityGraph

CONSTANTS users, temp, tool, shell, alice, pc, web, addr, svc, page, r1, r2

In(d, b) == [dir |-> d, base |-> b]
Bare(b) == In(None, b)

Nothing ==
  [id |-> 0, category |-> "windows", host |-> None, actor |-> None, target |-> None, proc |-> None,
   parent |-> None, owner |-> None, ip |-> None, service |-> None, file |-> None, verb |-> "touched",
   ofHost |-> FALSE, success |-> FALSE, reason |-> {}, told |-> {}, severity |-> 0]

Started == [Nothing EXCEPT !.id = 1, !.host = pc, !.actor = alice, !.proc = In(users, tool),
                           !.parent = In(users, shell), !.verb = "executed", !.severity = 2,
                           !.told = {<<"process", In(users, tool)>>, <<"process", In(users, shell)>>}]
Connected == [Nothing EXCEPT !.id = 2, !.category = "network", !.proc = In(temp, tool),
                             !.owner = In(temp, tool), !.ip = addr, !.severity = 1,
                             !.told = {<<"process", In(temp, tool)>>, <<"file", In(temp, tool)>>}]
Created == [Nothing EXCEPT !.id = 3, !.host = pc, !.proc = In(temp, tool), !.file = In(temp, shell),
                           !.told = {<<"process", In(temp, tool)>>, <<"file", In(temp, shell)>>}]
LoggedIn == [Nothing EXCEPT !.id = 4, !.category = "weblog", !.host = web, !.ip = addr, !.target = alice,
                            !.success = TRUE, !.severity = 2]
ServiceFound == [Nothing EXCEPT !.id = 5, !.category = "svcscan", !.service = svc, !.file = In(temp, tool),
                           !.severity = 3]
Shared == [Nothing EXCEPT !.id = 6, !.host = pc, !.file = In(users, tool), !.ofHost = TRUE,
                          !.told = {<<"file", In(users, tool)>>, <<"file", In(temp, shell)>>},
                          !.reason = {In(users, tool), Bare(tool), Bare(shell)}, !.severity = 2]

MCEvents == {Started, Connected, Created, LoggedIn, ServiceFound, Shared}

MCProcesses ==
  {[pid |-> 1, ppid |-> 0, name |-> Bare(tool), owner |-> alice, severity |-> 3, dead |-> FALSE],
   [pid |-> 2, ppid |-> 1, name |-> Bare(tool), owner |-> None, severity |-> 0, dead |-> TRUE]}

NoFinding ==
  [id |-> 0, names |-> {}, named |-> {}, event |-> None, severity |-> 3, node |-> None, links |-> {}, chain |-> {}]

MCFindings ==
  <<[NoFinding EXCEPT !.id = 1, !.named = {In(users, tool)}, !.event = 1],
    [NoFinding EXCEPT !.id = 2, !.named = {Bare(shell)}, !.event = 1, !.severity = 2],
    [NoFinding EXCEPT !.id = 3, !.names = {addr}, !.event = 4,
       !.chain = {[from |-> <<"url", page>>, verb |-> "served", to |-> <<"file", Bare(tool)>>, severity |-> 3]}],
    [NoFinding EXCEPT !.id = 4, !.node = Derived(Created), !.links = DerivedLinks(Created), !.named = {In(temp, shell)},
       !.event = 3],
    [NoFinding EXCEPT !.id = 5, !.node = <<"process", In(temp, tool)>>, !.named = {In(temp, tool)}]>>

AllTypes == Named \cup Atomic
All == [types |-> AllTypes, severity |-> 0, node |-> None]
Loud == [types |-> AllTypes, severity |-> 3, node |-> None]

Rows(p, e) == [processes |-> p, findings |-> {}, suppressed |-> {}, unapplied |-> {}, events |-> e]

MCInitial ==
  {Rows(p, MCEvents \ e) : p \in {{}, MCProcesses}, e \in {{}} \cup {{x} : x \in MCEvents}}

FewEvents == {Created}
FewFindings == <<MCFindings[4]>>
MCViews == {All, Loud, [All EXCEPT !.node = <<"file", In(temp, shell)>>]}
FewInitial == {Rows({}, {Created})}
=============================================================================
