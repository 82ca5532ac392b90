------------------------------ MODULE MCMemoryDumps ------------------------------
(* Four families of dumps: one process in every combination of the views, the  *)
(* pool scan with the forensic CSV files, three processes for the dampener     *)
(* (a class is widespread on more than one process), and the kernel's views.   *)
EXTENDS MemoryAnalysis

CONSTANTS d1, d2

Clean == [listed |-> TRUE, pool |-> "none", csv |-> "none", evil |-> {}, traces |-> {}, net |-> "none",
          regions |-> {}, jit |-> FALSE, pseudo |-> FALSE, ldr |-> {}, dlls |-> <<"main">>, images |-> {},
          skeleton |-> FALSE, handles |-> {}, yara |-> FALSE]

Kernel == [loaded |-> <<>>, pool |-> <<>>, flagged |-> {}, callbacks |-> {}, ssdt |-> {}]

Dump(forensic, views, kernel) ==
  [forensic |-> forensic, process |-> views, kernel |-> kernel, incomplete |-> FALSE, staged |-> forensic, signature |-> ~forensic]

First(view) == [p \in 1..3 |-> IF p = 1 THEN view ELSE Clean]

Region(mz, content, shape, thread) == [mz |-> mz, content |-> content, shape |-> shape, thread |-> thread]
Loader(image, linked) == [image |-> image, linked |-> linked, executable |-> TRUE]
Image(file, writable) == [file |-> file, writable |-> writable]

RegionSets ==
  {{}, {Region(FALSE, FALSE, "unbacked", FALSE)}, {Region(FALSE, TRUE, "unbacked", FALSE)},
   {Region(TRUE, TRUE, "file-backed", FALSE)}, {Region(FALSE, TRUE, "unbacked", TRUE)},
   {Region(FALSE, TRUE, "unbacked", FALSE), Region(FALSE, TRUE, "file-backed", TRUE)}}
LoaderSets ==
  {{}, {Loader("main", "not-in-load")}, {Loader("other", "everywhere")}, {Loader("library", "nowhere")},
   {Loader("library", "nowhere"), Loader("other", "nowhere")}}

OneProcess ==
  {Dump(FALSE, First([Clean EXCEPT !.regions = r, !.ldr = l, !.dlls = d, !.images = v, !.net = n, !.jit = j]), Kernel) :
     r \in RegionSets, l \in LoaderSets, d \in {<<>>, <<"main">>, <<"main", "runtime">>, <<"other", "main">>},
     v \in {{}, {Image("main", FALSE)}, {Image("main", TRUE)}}, n \in {"none", "internal", "external"}, j \in BOOLEAN}

Forensic ==
  {Dump(f, First([Clean EXCEPT !.listed = w, !.dlls = <<>>, !.pool = k, !.csv = c, !.evil = e,
                               !.traces = t, !.net = n, !.regions = r]), Kernel) :
     f \in BOOLEAN, w \in BOOLEAN, k \in {"none", "live", "smeared", "exited", "reused"}, c \in {"none", "live"},
     e \in SUBSET {"hide", "thread"}, t \in {{}, {"handles"}}, n \in {"none", "internal"},
     r \in {{}, {Region(FALSE, TRUE, "unbacked", FALSE)}}}

Profiles ==
  LET rwx == [Clean EXCEPT !.regions = {Region(FALSE, TRUE, "unbacked", FALSE)}]
      mz == [Clean EXCEPT !.regions = {Region(TRUE, TRUE, "unbacked", FALSE)}]
  IN {Clean, rwx, mz,
      [mz EXCEPT !.ldr = {Loader("library", "nowhere")}],
      [mz EXCEPT !.yara = TRUE], [rwx EXCEPT !.net = "external"],
      [mz EXCEPT !.ldr = {Loader("library", "nowhere")}, !.skeleton = TRUE],
      [rwx EXCEPT !.ldr = {Loader("other", "everywhere")}],
      [Clean EXCEPT !.pseudo = TRUE, !.ldr = {Loader("library", "nowhere")}],
      [mz EXCEPT !.handles = {[sensitive |-> TRUE, dangerous |-> FALSE]}]}

Prevalence == {[Dump(FALSE, v, Kernel) EXCEPT !.incomplete = TRUE] : v \in [1..3 -> Profiles]}

Kernels ==
  {Dump(FALSE, [p \in 1..3 |-> Clean],
        [loaded |-> l, pool |-> q, flagged |-> f, callbacks |-> c, ssdt |-> s]) :
     l \in {<<>>, [d \in {d1} |-> "odd"], [d \in {d1, d2} |-> IF d = d1 THEN "system" ELSE "none"]},
     q \in {[d \in {d1} |-> "system"], [d \in {d2} |-> "odd"], [d \in {d1, d2} |-> "none"]},
     f \in SUBSET {d2}, c \in SUBSET {d1, d2}, s \in SUBSET {d2, Unattributed}}

MCDumps ==
  OneProcess \cup Prevalence \cup Kernels
  \cup {d \in Forensic : IF d.process[1].listed THEN d.process[1].pool \in {"none", "live", "reused"}
                         ELSE d.process[1].pool # "reused"}
=============================================================================
