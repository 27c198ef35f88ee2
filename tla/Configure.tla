------------------------------ MODULE Configure ------------------------------
(***************************************************************************)
(* What FRADE::configure (FRADE/FRADE.cpp) makes of its files: the         *)
(* engine's constants as functions of the lines read.  A line is a         *)
(* sequence of words, or a record where its words have different uses.     *)
(***************************************************************************)
EXTENDS Naturals, Sequences, FiniteSets, SequencesExt, TLC

\* Of several lines for one key the first is kept by insert, the last by an
\* assignment.
FirstFor(lines, keys, k) ==
    lines[CHOOSE i \in DOMAIN keys : keys[i] = k /\ \A j \in 1 .. i - 1 : keys[j] # k]
LastFor(lines, keys, k) == FirstFor(Reverse(lines), Reverse(keys), k)

\* config: "name=value" lines, and a default for a name that may be missing.
Setting(lines, name, default) ==
    LET names == [i \in DOMAIN lines |-> lines[i][1]]
    IN  IF name \in ToSet(names) THEN FirstFor(lines, names, name)[2] ELSE default

-----------------------------------------------------------------------------
(***************************************************************************)
(* DYN2_DETAILS and DYN3_DETAILS.  getline has removed the newline, and    *)
(* pop_back removes one character more: the space the files have at the    *)
(* end of most lines, or else the end of the last word, which becomes the  *)
(* name chop[word].                                                        *)
(***************************************************************************)
Words(l, chop) ==
    IF l.spaced THEN l.objects
    ELSE Front(l.objects) \o << chop[Last(l.objects)] >>

\* main_embed: the objects of all the lines of a page, in one list.
LoadEmbed(lines, chop, URI) ==
    LET Objects == FlattenSeq([i \in DOMAIN lines |->
                      [k \in DOMAIN lines[i].objects |->
                          << lines[i].page, Words(lines[i], chop)[k] >>]])
    IN  [u \in URI |-> [o \in URI |->
            Cardinality({k \in DOMAIN Objects : Objects[k] = << u, o >>})]]

\* proc_time: operator[] makes an entry of 0 for a page that has no line.
LoadTimes(lines, chop, URI) ==
    LET pages == [i \in DOMAIN lines |-> lines[i].page]
        Time(l) == IF l.spaced THEN l.time ELSE chop[l.time]
    IN  [u \in URI |-> IF u \in ToSet(pages) THEN Time(LastFor(lines, pages, u)) ELSE 0]

\* One line of DYN_CONF_FILE: as many thresholds as there are windows are used.
read_dyn_threshes(line, numWindows) == [i \in 1 .. numWindows |-> line[i]]

\* GROUP_FILE: a line is a group and its file.
LoadGroups(lines) ==
    LET files == [i \in DOMAIN lines |-> lines[i][2]]
    IN  [u \in ToSet(files) |-> FirstFor(lines, files, u)[1]]

-----------------------------------------------------------------------------
(***************************************************************************)
(* SEM_CONF_FILE: a node for every name, an edge for every line; addEdge   *)
(* refuses an edge that is there already.                                  *)
(***************************************************************************)
LoadNodes(lines) == {lines[i].start : i \in DOMAIN lines} \cup {lines[i].end : i \in DOMAIN lines}

addEdge(lines, e) ==
    FirstFor(lines, [i \in DOMAIN lines |-> << lines[i].start, lines[i].end >>], e).cost

LoadEdges(lines) ==
    [e \in {<< lines[i].start, lines[i].end >> : i \in DOMAIN lines} |-> addEdge(lines, e)]

\* sem.cpp marks the names its file calls folders: the first letter becomes "f",
\* and no request has such a name.
sem_Marked(lines, mark) ==
    [i \in DOMAIN lines |->
        [start |-> IF lines[i].startIsFile THEN lines[i].start ELSE mark[lines[i].start],
         end |-> IF lines[i].endIsFile THEN lines[i].end ELSE mark[lines[i].end],
         cost |-> lines[i].cost]]
-----------------------------------------------------------------------------
(***************************************************************************)
(* The whole of it, for each version.  A setting that names a file has the *)
(* lines of that file for its value; a regular expression is the set of    *)
(* URIs that match it.  Without one of the required settings the process   *)
(* exits, or ends by an exception for DYN2_DETAILS and DYN3_DETAILS.       *)
(***************************************************************************)
tb_Required ==
    {"DYN_CONF_FILE", "SEM_CONF_FILE", "DUMMY_LINKS_FILE", "WINDOWS", "MAIN_REQS",
     "NO_FILE_PROB", "PIPE", "DYN2_DETAILS", "DYN3_DETAILS"}
load_Required == tb_Required
frade_Required == tb_Required \cup {"EMBEDDED_REQ_FILE"}
sem_Required ==
    {"DYN_CONF_FILE", "SEM_CONF_FILE", "WINDOWS", "MAIN_REQS", "NO_FILE_PROB", "PIPE",
     "DYN2_CONF", "DYN3_CONF"}

tb_configure(conf, chop, chopTime, URI) ==
    LET Conf(name) == Setting(conf, name, << >>)
        dyn == Conf("DYN_CONF_FILE")
        sem == Conf("SEM_CONF_FILE")
        numWindows == Len(Conf("WINDOWS"))
    IN  [ windows |-> Conf("WINDOWS"),
          dyn1Threshes |-> read_dyn_threshes(dyn[1], numWindows),
          dyn3Threshes |-> read_dyn_threshes(dyn[3], numWindows),
          main_embed |-> LoadEmbed(Conf("DYN2_DETAILS"), chop, URI),
          proc_time |-> LoadTimes(Conf("DYN3_DETAILS"), chopTime, URI),
          dummy_links |-> ToSet(Conf("DUMMY_LINKS_FILE")),
          main_reqs |-> UNION ToSet(Conf("MAIN_REQS")),
          groups |-> LoadGroups(Conf("GROUP_FILE")),
          seqThreshes |-> sem.seqThreshes,
          semNodes |-> LoadNodes(sem.transitions),
          edges |-> LoadEdges(sem.transitions) ]

load_configure(conf, chop, chopTime, URI) == tb_configure(conf, chop, chopTime, URI)

\* FRADE.cpp also reads the list of embedded requests, by which it tells a page.
frade_configure(conf, chop, chopTime, URI) ==
    tb_configure(conf, chop, chopTime, URI)
      @@ [embedded_reqs |-> ToSet(Setting(conf, "EMBEDDED_REQ_FILE", << >>))]

\* sem.cpp has no groups, and folders among its nodes.
sem_configure(conf, mark) ==
    LET sem == Setting(conf, "SEM_CONF_FILE", << >>)
        marked == sem_Marked(sem.transitions, mark)
    IN  [ seqThreshes |-> sem.seqThreshes,
          semNodes |-> LoadNodes(marked),
          edges |-> LoadEdges(marked) ]
=============================================================================
