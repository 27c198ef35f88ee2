---------------------------- MODULE MCFRADEBuilds ----------------------------
(***************************************************************************)
(* The four versions of the engine on the site of all modules, for TLC.    *)
(***************************************************************************)
EXTENDS FRADEBuilds, MCFRADE

CONSTANT fpage   \* the name sem.cpp gives to a page its file calls a folder

\* One configuration file for all versions; the page is a file for one edge of
\* the model, and a folder for the other.
SemLine(x, y, c, isFile) == [Edge(x, y, c) EXCEPT !.startIsFile = isFile]
Files ==
    << << "DYN_CONF_FILE", << << 2 >>, << 9 >>, << 5 >> >> >>,
       << "SEM_CONF_FILE",
          [ seqThreshes |-> SomeThresh,
            transitions |-> << SemLine(page, page, 1, TRUE), SemLine(page, any, 2, TRUE),
                               SemLine(sub, page, 1, TRUE), SemLine(page, sub, 2, FALSE) >> ] >>,
       << "DUMMY_LINKS_FILE", << dummy >> >>,
       << "WINDOWS", << 3 >> >>,
       << "MAIN_REQS", << {page, dummy}, {sub, stray} >> >>,
       << "EMBEDDED_REQ_FILE", << obj, query >> >>,
       << "NO_FILE_PROB", 3 >>,
       << "PIPE", NULL >>,
       << "GROUP_FILE", << << query, obj >> >> >>,
       << "DYN2_DETAILS", << [page |-> page, objects |-> << obj >>, spaced |-> TRUE] >> >>,
       << "DYN3_DETAILS",
          [ i \in 1 .. 6 |-> [ page |-> << page, obj, query, dummy, sub, stray >>[i],
                              time |-> << 20, 1, 1, 1, 1, 1 >>[i], spaced |-> i # 1 ] ] >>,
       << "DYN2_CONF", << >> >>, << "DYN3_CONF", << >> >> >>

Mark == [u \in URI \cup {any} |-> IF u = page THEN fpage ELSE u]
FileNames == {Files[k][1] : k \in DOMAIN Files}
Frade == frade_configure(Files, Chop, Tenth, URI)
Tb == tb_configure(Files, Chop, Tenth, URI)
Sem == sem_configure(Files, Mark)

\* What the versions share they read alike.
ASSUME /\ \A field \in DOMAIN Tb : Tb[field] = Frade[field]
       /\ load_configure(Files, Chop, Tenth, URI) = Tb

Windows == Frade.windows
Dyn1 == Frade.dyn1Threshes
Dyn3 == Frade.dyn3Threshes
Embed == Frade.main_embed
ServerTimes == Frade.proc_time
DummyLinks == Frade.dummy_links
Embedded == Frade.embedded_reqs
Groups == Frade.groups
Threshes == Frade.seqThreshes
GraphNodes == Frade.semNodes
GraphEdges == Frade.edges
MainReqs == Tb.main_reqs
SemNodes == Sem.semNodes
SemEdges == Sem.edges
=============================================================================
